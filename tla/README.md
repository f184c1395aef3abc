# OIS verification project

TLA+ models of the parts of OIS (VATUSA's operations information system) whose
correctness depends on the *order* of things: jobs that are leased, lost and
retried, transactions that interleave under READ COMMITTED, control times that
are frozen from one traffic picture and changed from another, caches reloaded
while they are read, a cleanup pass that runs while people work.  TLC checks the models on small instances; TLAPS
proves the safety properties that matter most for every value of the constants.

All paths below are relative to the repository root.

1. [The system](#1-the-system)
2. [The modules and how they map to the code](#2-the-modules-and-how-they-map-to-the-code)
3. [The runs](#3-the-runs)
4. [Bounds](#4-bounds)
5. [Fairness](#5-fairness)
6. [What is proved](#6-what-is-proved)
7. [Where the code and its documents disagree](#7-where-the-code-and-its-documents-disagree)
8. [What is not modelled](#8-what-is-not-modelled)
9. [Plan](#9-plan)

To repeat everything: `tlc -config <Cfg>.cfg <Module>.tla` for each run of
section 3 and `tlapm <Module>Proofs.tla` for each module of section 6.

## 1. The system

OIS is a Rust/axum **backend** over PostgreSQL, one or more replicas of it, a
**Discord bot** that only talks to the backend's REST API, a **web client**, a
**desktop client**, and a live VATSIM **feed** that each replica polls.  The
database is the only state the replicas share; between them they exchange
payload-free nudges over `LISTEN/NOTIFY`.  Nearly every rule of the system is
therefore a rule about SQL statements, transactions and what was read before
them.

| component | state | operations | talks to | what is hard | what makes it correct |
|---|---|---|---|---|---|
| **Outbound job queue** `repos/integration.rs`, `discord/src/jobs/mod.rs`, reaper in `jobs.rs` | `integration.outbound_jobs`; a bot's leased batch | enqueue, lease, perform, ack, reap | every feature with a Discord side effect enqueues in its own transaction; the bot polls over HTTP | bot crashes, lost lease answers, lost, late and stale acks, overlapping bots, retries | no delivery is lost in silence, attempts are bounded, a settled row is final, every job is settled |
| **ACE requests** `handlers/ace.rs`, `repos/ace.rs`, `handlers/integration.rs` | `ace.requests`, `ace.claims`, the Discord embed, web boards | create, claim, release, decide, delete, claim from Discord | job queue (post, notify), realtime hub | row lock, reads of separate statements, jobs that carry snapshots, a post not yet acknowledged | slots are never oversold, a decided request gains nobody, embed and boards end up current |
| **GDP engine** `feed/gdp.rs`, `handlers/gdp.rs` | `tmu.gdp_slot` (frozen control times) | ration-by-schedule, publish, compress, lock, unlock, demand bins | live feed | rate steps, exempt flights that use slots up, rows frozen from different pictures | spacing by the rate, no needless delay, control times never moved later |
| **GDP program** `handlers/gdp.rs`, `repos/gdp.rs`, cleanup in `repos/tmu.rs` | `tmu.gdp`, its slots and advisories | create, revise, publish, compress, cancel, delete; cleanup pass | engine, advisories, job queue | the engine runs before the transaction; overlapping handlers; failure half-way; cleanup in between | a live program always has an advisory, an ended one has none and never comes back |
| **Advisory numbers** `repos/tmu.rs` | `tmu.advisories (facility, day, number)` | allocate under an advisory lock, publish, cancel, delete | programs, TMIs | two creates read one maximum; drafts deleted under a create; midnight | numbers are unique, ascending, and never reused once issued |
| **Event TMI packages** `handlers/events.rs`, `repos/events.rs` | packages, items, `live_ref` of what an item became | edit items, activate, deactivate; auto-activate and auto-archive passes | TMIs, programs, FCAs | items read outside the activating transaction; deactivation item by item; several replicas | an activated package is exactly its live restrictions; deactivation leaves none |
| **TMIs, ground stops, rate programs** `handlers/tmu.rs`, `repos/tmu.rs` | `tmu.*` rows: draft, published, cancelled, expired | draft, publish, edit, extend, cancel, delete, cleanup, prune | job queue (posts and corrections), flow | edits, cancels, deletes and cleanup passes of one row; jobs posted in begin order; a remapped channel | nothing follows a cancellation in the log, the log follows the row, the replay shows what was in force |
| **Flow** (release desk/CFR, FCAs, metering) `handlers/flow.rs`, `repos/flow.rs`, `feed/flow.rs` | releases, FCAs, manual orders | mark, clear, swap, reorder, FCA life cycle | feed, events | people and tools changing one flight, swaps over two rows, slots against the moving feed, repeated requests | releases stay a separation apart, no tool overwrites what it did not see |
| **ACE reminders** `jobs.rs`, `repos/ace.rs` | reminder jobs, partial unique index | scheduler pass per tier | job queue, realtime hub | two replicas find one claim due | one DM per claim and tier |
| **Realtime hub** `realtime.rs` | broadcast channel, LISTEN connection, subscriptions | publish, deliver, reconnect | replicas, clients | nudges lost while reconnecting, lagging sockets | each change reaches each client, by nudge or by poll |
| **Sector demand cache, reloaded tables** `handlers/sector_demand_cache.rs`, `handlers/sector_limits.rs`, refresh jobs in `jobs.rs` | cached projection per ARTCC; swapped tables | consolidate, batch, release, set a limit; reload, force-reload; project or serve | feed, database | saves resolving targets at once; inputs read before the slot; a reload storing an older read; viewers that go away | no chain or loop of sectors, an answer is computed from what was read, tables end up as stored |
| **Job registry and scheduler** `job_registry.rs`, `jobs.rs` | status per job, one trigger permit | run on interval, trigger | all periodic jobs | triggers coalescing with ticks | a trigger runs the job once more |
| **Connection pool** `state.rs` | checked-out connections | acquire, nested acquire | all handlers | a second checkout inside an open transaction | waiters make progress |
| **Statistics** `repos/stats.rs`, `feed/stats/` | samples, legs, captures, snapshots | sample, compact, capture, prune | feed | per-process hour bucket, failed pass not retried | each slice thinned once, captures end |
| **Identity, tokens, access** `auth/`, `handlers/{auth,desktop,access,api_keys,service_accounts}.rs`, `crates/ois-core` | users, sessions, keys, grants | sign in, exchange, grant, revoke | all handlers | mostly single-row requests | grants mean what they say |
| **VATUSA sync** `feed/vatusa.rs`, `repos/vatusa.rs` | rosters | reconcile, webhook | identity | webhook against a pass | roster ends as upstream says |
| **Rate limits, usage** `rate_limit.rs`, `repos/credential_usage.rs` | token buckets, counters | take, flush | all requests | flush failing half-way | counts not lost or doubled |
| **Live feed, prediction, trajectories, winds, nav data** `feed/` | swapped snapshot | poll, predict, reload | everything that reads traffic | floating-point geometry | snapshot is replaced as a whole |
| **Airport surface, runways, taxi, configurations** | derived views, rows | CRUD, observe | feed | – | – |
| **Bot interactions, web, desktop, packages, deployment** | presentation | – | REST, websocket | – | – |
| **Audit, diagnostics, metrics, request log** | append-only rows | append | – | – | – |

`PROJECT.json` lists every component with its status and every hazard met in
the code at its line, those no property covers yet included.

## 2. The modules and how they map to the code

| module | models | composed with |
|---|---|---|
| `OutboundJobs` | the queue: rows, leases, acks, reaper, bot processes and their faults | implements `JobDelivery` |
| `JobDelivery` | what the queue promises a feature, without leases, clocks or messages | abstract specification |
| `AceRequests` | one ACE request with its handlers' transactions, its embed and its viewers | enqueues into `JobDelivery` |
| `RationBySchedule` | the GDP engine and the frozen control times | – |
| `GdpProgram` | the program's life, its advisories and the cleanup pass | a run of the engine is a number here |
| `AdvisoryNumbers` | allocation of advisory numbers | – |
| `EventPackages` | packages of planned items, their activation and withdrawal, several replicas' lifecycle passes | – |
| `TmuEntries` | a TMI or ground stop from draft to pruned history, its NTML lines and its advisory | – |
| `FcaMetering` | metering through an area and the slot a flight marked ready is given (operators only) | used by `ReleaseDesk` |
| `ReleaseDesk` | the releases of one area, written by people and tools | extends `FcaMetering` |
| `SectorConsolidations` | which sector is worked at which, saved in transactions | part of `SectorDemand` |
| `SectorDemand` | tables in memory, their reloads, and the single-flight projection of one ARTCC | extends `SectorConsolidations` |
| `*Proofs` | theorems of the module they extend; `TmuProofs` those of `AdvisoryNumbers` and `TmuEntries`, the two parts of `repos/tmu.rs` | section 6 |
| `MC*` | constants for TLC: model values, pictures of traffic, sets of environments | – |

Conventions shared by the modules:

* **One SQL statement is one atomic action** where a component's statements are
  transactions of their own (the queue, staff decisions).  Where a handler's
  transaction has several statements and other handlers commit between them,
  the handler is a small process with a `pc`, and its uncommitted writes are
  kept in its own record until `Commit`.
* **READ COMMITTED.**  A `select` reads what is committed when it runs.  An
  `update` or `delete` works on the rows it *saw when it began*, waits for those
  that another open transaction holds, and skips those that no longer match.
  `GdpProgram` splits such statements into `See…` and the change, `ReleaseDesk`
  lets a swap come to its two rows one after the other.
* **Environments.**  Which faults or conditions may occur is a *variable* chosen
  in `Init` from the constant `Environments` and never changed (`EventPackages`
  lets failures stop).  One run then covers the benign and the hostile
  environments, and a property that the code keeps only in some of them says so
  (`"overlap" \notin env => …`).
* **History.**  `posted` (queue), `by` (program), `origin` (engine), `holder`
  (numbers), `issued` and `corrected` (packages), `seen` (entries), `serial`
  (releases) and `projected` (demand) record what the code does not store; no
  guard depends on them.  `ran` (program) is history, too, and stands at the same
  time for the parameters a handler holds after it has read the program.
* Definitions named `X_Something` next to a definition `X` are plausible bugs;
  each is used to confirm that a property notices it.

### OutboundJobs

| TLA+ | code |
|---|---|
| `status`, `attempt_count`, `leaseAge`, `dueIn`, `result` | columns `status`, `attempt_count`, `last_attempt_at`, `next_attempt_at`, `result` of `integration.outbound_jobs` (migration 0048) |
| `batch`, `current` | the jobs a `job_loop` iteration holds and the one it has performed |
| `acks` | HTTP acknowledgements under way |
| `Lease`, `LeaseAnswerLost` | `lease_jobs`: one `update … for update skip locked … returning`; the answer arrives or not |
| `Perform`, `SendAck` | `perform_job` and the ack call of `discord/src/jobs/mod.rs` |
| `ReceiveAck` (`AckApplies`, `ApplySuccess`, `RetryRows`) | `ack_job`: status, consumer and attempt fence; success or retry with backoff or park |
| `Reap` (`Stranded`) | `reap_stranded_jobs` from `outbound_job_reaper_once` |
| `Crash`, `LoseAck`, `Tick` | process death, lost request, time |

Time is relative to `now()` and saturates: nothing in the code tells two leases
beyond the timeout apart.  A late worker is a worker: nothing stops it from
posting and acknowledging after its lease was reaped, and the fence is what the
properties are about.  Without the fault `late`, `Tick` waits for workers and
their acks, which is how "every worker is in time" is expressed.

`JobDelivery` is what the rest of the system may assume: a job waits, is taken,
is finished only after it was delivered, is given up and retried a bounded number
of times.  It is *at least once*, and a given-up try may still be delivered.
`OutboundJobs` refines it through `AbstractOf(status)`, `attempt_count` and
`posted # {}` (`ImplementsPromise`).

### AceRequests

A claim is `LockRequest` (`select … for update`, open, not full), `InsertClaim`
(unique constraint, waits for the same person's release in flight),
`BuildNotify` (`enqueue_notify`: no job unless the post job is acknowledged,
otherwise a snapshot of the claimers with the count taken earlier) and `Commit`,
which submits the job to `JobDelivery` in the same step, as the code inserts it
in the same transaction.  `Publish` is the separate, later nudge; every viewer
reloads.  A release locks nothing and counts in a second statement, as
`release_claim` does.  A claim through the bot takes the same path without the
publish.  `Deliver` is what the bot makes of a job: a post shows no claims, an
edit shows its snapshot.

### RationBySchedule

Each iteration of `ration_by_schedule` is a step (`AssignNext`); `cursor`, `out`
are its locals.  `Exempt`, `SlotOf`, `NextCursor`, `RateAt` are its expressions;
times are integers, the rate schedule is a sequence of segments, the division of
the hour is integer division as in `slot_ms_at`.  `Freeze`, `Compress`, `Lock`,
`Unlock` are the handlers' writes of `tmu.gdp_slot`, `FeedMoves` the next request
working on a newer picture.  `BinOf` truncates towards zero, as `i64` division does.

### GdpProgram

`Revise`/`Reread`/`SeeSlots`/`ReplaceSlots`/`SeeLive`/`CancelLive`/`Commit` is
`revise_gdp`: parameters in a statement of their own, a re-read, the engine if
the program is live, then one transaction that replaces the slots, cancels the
advisories it sees and inserts a new one.  `ReadDraft`/`PublishRow`/…/`Commit` is
`publish_gdp`, `ReadFrozen`/… `compress_gdp`.  A run of the engine is a number
with the parameters it was given (`ran`); what the engine computes is
`RationBySchedule`'s business.  `SweepExpire`, `SweepPurge`, `SweepRetire` are
the statements of `run_cleanup` that touch the program, in the code's order.
`PublishAdvisory`, `CancelAdvisory`, `DeleteAdvisory` are the handlers of
`handlers/tmu.rs`, with the Discord post and its correction as two flags.

### AdvisoryNumbers

A create is `Begin` (reads the Zulu day), `TakeLock` (`pg_advisory_xact_lock`),
`ReadMax` (`max(number) + 1`) and `InsertDraft` (insert and commit, which ends
the lock); `Abort` may happen anywhere.  `Publish`, `Cancel`, `Delete` act on
rows, `Midnight` moves the day while creates are under way.

### EventPackages

| TLA+ | code |
|---|---|
| `status`, `armed`, `planned`, `ref` | `events.tmi_package(.status, .auto_publish)`, rows of `events.tmi_package_item`, their `live_ref` (migration 0021) |
| `row`, `program` | what items become: restrictions, ground stops, advisories by item; the one rate program of an airport |
| `BeginActivate`, `AutoActivate` | `activate_event_package`, and `event_package_lifecycle_once` with `auto_due_packages` |
| `ListItems`, `Materialize`, `Mark`, `Commit` | `activate_package`: items listed before the transaction, one made after the other, `mark_package_activated` (`update … where status = 'draft'`), commit |
| `BeginDeactivate`, `AutoArchive`, `ListRefs`, `CancelItem`, `Archive` | `deactivate_package`: each item in a statement or a short transaction of its own, then `mark_package_archived` |
| `AddItem`/`InsertItem`, `DeleteItem`, `DeletePackage`, `SetAuto` | the package's editing handlers; adding is a read of the status and a later insert |
| `StaffProgram`, `StaffCancel`, `Expire`, `DropProgram` | the TMU handlers and `run_cleanup` acting on the live rows |

`ProgramFree`, `ItemFree`, `PackageFree` are the row locks of open activations.
Two activations that wait for each other's rows are ended by Postgres failing
one of them, which is `Fail`.  An armer whose credential was revoked issues
nothing: the pass skips the package, as if it were disarmed.

### TmuEntries

One row, its lines in the NTML log, and, for a ground stop, its generated
advisory. The handlers' reads before a transaction are steps of their own
(`BeginEdit`, `BeginCancel`); a transaction that writes the row first and commits
right after is one step (`WriteEdit`, `WriteCancel`, `HardDelete`, `SoftDelete`).
`PublishEntry` is `publish_tmi` and `publish_ground_stop`. The log (`posts`) is a
sequence of lines and of the places of open transactions: where jobs wait for one
poll, `Reserve` takes a place when a transaction *begins*, because a job is due at
`now()`, `Post` puts the line there and `Leave` gives the place up. `Log` is the
positions that hold a line, `Newest(S)` the line at the last of some, so
`CancelChannel` reads the newest publish job, as `order by created_at desc` does.
`SweepExpire`, `SweepPurge`, `SweepRetire` are the statements of one
`run_cleanup`; passes of several replicas overlap. An hour passes only when a pass
ran within it (twelve are scheduled). `Replays` is the query behind the replay of
a past hour (`list_tmis_at`).

### FcaMetering and ReleaseDesk

`MeterAuto` and `MeterManual` are the two modes of `feed/fca.rs meter` as
recursive functions over the order in which flights are sequenced;
`EarliestSlot`, whose loop steps from collision to collision, is the first of the
candidate times that is clear.  `RdySlot` is `rdy_slot`, with
`committed_crossings` re-metering the releases that exist.  In `ReleaseDesk` a
mark or clear is a read (`BeginMark`, with authority, slot and precondition) and
one conditional statement (`WriteMark`, `Applies`); a swap is one statement over
two rows (`BeginSwap`, `SwapRow`, `EndSwap`).  People send no precondition, as the
web client does; tools must (`If-Match`/`If-None-Match`), from the versions they
were answered.  Flights are numbered by their place in the list, which settles
ties of the stable sort.  Fractions of a minute and distances are not modelled:
times are integers.

### SectorConsolidations and SectorDemand

A save, a batch and a release are the statements of
`repos/sector_consolidations.rs` under the ARTCC's advisory lock, each resolving
targets in what the transaction sees.  `SectorDemand` adds the tables in memory
(`cache`), their reloads in two steps, read and store, by the periodic jobs
(`RefreshLoad`, `RefreshStore`) and by the handlers (`CallLoad`, `CallStore`), the
inputs a request reads one after the other (`ReadTable`, `ReadFeed`, `ReadWheels`,
`ReadConfig`) and the slot: first in line is served from the entry if it was
projected from exactly what the request read (`Matches`), and starts a task that
outlives its request otherwise (`Serve`, `Projected`, `Drop`).

## 3. The runs

| run | configuration | asks | expected |
|---|---|---|---|
| `queue_faults` | `MCOutboundJobs.cfg` | two bots and two jobs, under every fault and under none: does an ack ever count a job as done that was not posted; does a late ack land on a successor's lease; are attempts bounded; does the queue implement `JobDelivery`; is every job settled? | holds |
| `packages` | `MCEventPackages.cfg` | clicks, passes of two replicas, staff and the cleanup meet failures and late edits: does a package go live once and whole, is it withdrawn whole, is each post corrected exactly once, do armed packages go live and ended ones get archived? | holds |
| `package_programs` | `MCEventPackagesShared.cfg` | does archiving one package leave another one's rate program alone? | **violated** |
| `ace_races` | `MCAceRequests.cfg` | claims, releases, decisions and deletes interleave: are slots oversold, does a decided request gain somebody, are boards current (unless the bot claims), is the embed current (in the benign environment)? | holds |
| `ace_early_claim` | `MCAceRequestsEarly.cfg` | is the embed current if somebody claims before the post is acknowledged? | **violated** |
| `rbs_engine` | `MCRationBySchedule.cfg` | every picture of three flights, then a second one: are slots metered through exempt flights, never later than needed, and does what one picture froze stay spaced? | holds |
| `gdp_program` | `MCGdpProgram.cfg` | two handlers and the cleanup pass, in turn, with failures and manual changes, or overlapping and failing: does a live program keep an advisory, are there two, are slots and advisory computed from the current parameters, can an ended program come back, are its advisories gone for good? | holds |
| `advisory_numbers` | `MCAdvisoryNumbers.cfg` | are numbers unique and never reissued, over two facilities and a midnight? | holds |
| `tmu_entries` | `MCTmuEntries.cfg` | edits, cancels, deletes and cleanup passes of one entry overlap, fail and meet a remapped channel: what does the log say last, what does the replay show, what becomes of the advisory? | holds |
| `release_desk` | `MCReleaseDesk.cfg` | a controller and a tool mark, clear and swap the releases of three flights while the traffic moves: do slots stay apart, do gaps hold, does a tool overwrite what it did not see or does not hold? | holds |
| `release_reuse` | `MCReleaseDeskReuse.cfg` | can a delayed request of a tool replace a release it never saw, once one was cleared and issued anew? | **violated** |
| `sector_demand` | `MCSectorDemand.cfg` | saves, batches, releases, limits, reloads, publishes and viewers, in a family of ten conditions: is the arrangement flat, does a batch land whole, are answers computed from what was read, do the tables end up as stored, is everybody answered? | holds |

The properties worth explaining:

* `NoSilentLoss`, `ResultOfLastLease`, `AttemptBudget` and `ImplementsPromise`
  divide the delivery guarantee: *at least once* always, *the right result* when
  bots echo their attempt, a bounded number of duplicates.
* `AllOrNothing` and `Withdrawn` are the two halves of "a package is its live
  restrictions": nothing of a draft is ever live, though activations fail midway
  and are retried every minute, and nothing of an archived one is, though
  deactivation goes item by item and may stop anywhere.  `CorrectedOnce` ties the
  three ways a row can end (deactivation, staff, cleanup) to its post.
* `Metered` speaks of exempt flights too: a controlled flight `k - j` places
  behind *any* flight is `k - j` slots behind it.  `EarliestSlots` is the other
  side, an exact formula (the maximum over the flights ahead) that rules out
  needless delay.
* `AdvisoryStands` is the code's own promise ("a program is never left with no
  live advisory", `handlers/gdp.rs:494`), checked with handlers that overlap and
  fail anywhere.  `OneLiveAdvisory` and `TurnsKeepParameters` hold only if
  handlers take turns; section 7.
* `EndedRetired` (`Ended ~> [](Standing = {})`) includes the advisory that a
  revise, which saw the program live, generates *after* it was cancelled: the next
  cleanup pass takes it down, and nothing puts one back up.
* `CancelIsLast` says that the log never goes on after a cancellation, although
  an edit or publish that began before may commit after; it relies on the bot
  being quicker than the handlers, and section 7 has what happens otherwise.
* `ReplayFaithful` compares the replay query with what was in force hour by hour,
  whichever of cancel, delete, expiry and purge ended the entry.
* `ReleasesApart` spans whole histories of marks, clears and swaps: each slot was
  chosen against the picture of its time, and all of them must be apart now.
  `GapHolds` re-meters the arrivals with the releases in place (issue #356).
* `AnswersAsRead` compares an answer with the inputs *its own* request read,
  although another request projected it and a third one rendered it last.
* `OncePerPublish` is what single flight promises: viewers that wait together
  share a projection, and one whose viewer went away is not lost.

## 4. Bounds

| module | instance | why it is enough |
|---|---|---|
| `OutboundJobs` | 2 jobs, 2 bots, `MaxAttempts` 2, `LeaseTimeout` 1, `Backoff` 1, `DueHorizon` 0 | two attempts are what a stale ack needs (a predecessor and a successor), the cap is reached by the second; two jobs put a tail into a batch and compete for a lease; two bots are what a redeploy overlaps. The theorems hold for all values, the code's 8 attempts and 10-job batches among them |
| `EventPackages` | one package of a program, a restriction and an advisory, two processes; for the shared program two packages | one item of each way of ending (deleted by airport, cancelled with its line, cancelled with its advisory post); a ground stop ends like a restriction without a line; two processes are a click and a pass, or two replicas |
| `AceRequests` | 3 people, 2 handlers, 2 slots, `NotifyBound` 3–4, 1 or 2 attempts | a full request needs two, the third is turned away or takes a released slot; every race found in the code is one of two handlers; three notify jobs let an older one be shown last |
| `RationBySchedule` | 3 flights, ETAs around a window of an hour, flat, rising and falling rates, scope, tier; 2 pictures | an exempt flight between two controlled ones is the critical case and needs three; the ETAs collide within one slot, straddle a rate step, and lie before, at and inside the window. The theorems drop the bound |
| `GdpProgram` | 2 handlers, 3 parameter sets, 3 engine runs | publish, one revise racing another, one more to see the outcome |
| `AdvisoryNumbers` | 2 facilities, 3 ids, 2 creates, 2 days, 4 numbers | a deleted top number, a create that read it before, and one it could collide with |
| `TmuEntries` | 2 lines, one stop time, 2 channels, 2 processes, `Retention` 1 hour, 3 hours, 4 posts | an edit, its reversal and a cancel; expiry, the cleanup's grace and the pruning each get an hour |
| `ReleaseDesk` | 3 flights, `Sep` 2 and `Margin` 1, one controller, one tool, two pictures of estimates with nobody or two flights aloft, 4 writes | two releases and a candidate between them; two arrivals closer than the separation make the metered and the raw estimate differ |
| `SectorDemand` | 4 sectors, 5 batches, 2 savers, 2 setters, 2 viewers, 2 publishes, ten sets of conditions | a chain needs three sectors, its move a fourth; two viewers share a slot, a third would repeat the second; the conditions are combined as far as they interact |

`NotifyBound`, `VersionBound`, `RunBound`, `DayBound`, `NumberBound`,
`MaxClock`, `PostBound`, `WriteBound`, `PublishBound` and `ReloadBound` are caps
in guards; `LaterDemands`, `Armable` and `EditedLate` restrict inputs.  They
correspond to nothing in the code; all other constants do.  Deadlock is checked
for the queue, where some step is always possible.  The other systems may stop: a
deleted request, an ended program, a used-up bound.

Three constants of the queue are fixed in the runs and free in the theorems: the
consumer of a job (the runs have one, `discord`), bots that do not echo their
attempt (the runs have none), and the backoff's cap of 10, which never bites as
`MAX_ATTEMPTS` is 8.

## 5. Fairness

* **Queue**: each bot's lease, perform and ack steps are weakly fair, because
  `job_loop` is an endless loop whose errors are logged and followed by the next
  poll; an ack is received or lost; the reaper runs on an interval; time passes.
  Crashes and losses are allowed and never required.  No strong fairness is
  needed: a row that keeps being leased uses its attempts up.  One caveat: the
  client sets no request timeout (`crates/ois-client/src/lib.rs:154`), so on a
  half-open connection a call may never return and the loop stands still.  The
  run assumes that a call eventually returns.
* **Program**: a request the server is working on goes on, or fails, and the
  cleanup pass, a periodic job, repeats.  Nothing says that people cancel, publish
  or revise.
* **Packages**: a call that runs goes on, and failures stop where the environment
  says so.  The lifecycle pass is *strongly* fair per package: it is a job of its
  own that ticks every minute, whereas in the model it shares two processes with
  the clicks and must not starve because both happen to be busy at times.
* **Sector demand**: the reload jobs run on their intervals, the runtime hands the
  slot on and ends what it computes.  Nobody has to ask, write, fail or go away,
  and a handler's own reload may never come: `EventuallyCurrent` rests on the
  jobs alone.
* The other runs check safety only and state no fairness.


## 6. What is proved

Each theorem holds for every value of the constants that the module's `ASSUME`
admits: any number of bots, jobs, flights, people, packages, sectors.  Those with
a property in the middle column state what a run checks on the small instance.

| theorem | property of a run | states |
|---|---|---|
| **`OutboundJobsProofs`** | | |
| `TypeCorrect` | | columns, batches and messages keep their types |
| `BudgetRespected` | `AttemptBudget` | at most `MaxAttempts` leases, parked only when all are used, duplicates bounded by that |
| `LeasesExclusive` | | no two bots answer for the same attempt of a job |
| `NothingLostInSilence` | `NoSilentLoss` | a succeeded row stores a post that was made, under every fault and with bots that echo no attempt |
| `SettledRowsAreFinal` | | no statement changes a settled row |
| `AttemptFence` | `ResultOfLastLease` | with bots that echo, a succeeded row stores the result of its last lease |
| `QueueImplementsPromise` | `ImplementsPromise` | the queue refines `JobDelivery` |
| **`AceRequestsProofs`** | | |
| `TypeCorrect` | | types |
| `SlotsRespectedEver` | `SlotsRespected` | never more claims than slots |
| `SnapshotsFit` | | a snapshot, two reads of a moving table, never shows more people than slots |
| `NobodyAfterTheEnd` | `ClaimsOnlyWhileOpen` | a request that was decided or deleted gains nobody |
| `BoardsFresh` | `BoardFresh` | boards are current whenever no handler is under way, unless people claim through the bot |
| `EmbedTrue` | `EmbedShowsClaims` | the embed shows the claims once its jobs are done, in the environments the property names |
| **`EventPackagesProofs`** | | |
| `TypeCorrect` | | types; no reference outlives its item |
| `IssuedOnceEver` | `IssuedOnce` | an item is issued by one activation only |
| `CorrectedOnceEver` | `CorrectedOnce` | no post is corrected twice |
| `AllOrNothingEver` | `AllOrNothing` | nothing of a draft is live, an activated package issued all it plans |
| `WithdrawnEver` | `Withdrawn` | nothing of an archived package is in force |
| **`RationByScheduleProofs`** | | |
| `TypeCorrect` | | types of the run and of the frozen rows |
| `SlotsSpaced` | | controlled flights are spaced by the rate in effect, whatever the schedule |
| `DemandMetered` | `Metered` | there is a slot for each flight between, exempt ones included |
| `SlotsEarliest` | `EarliestSlots` | under a flat rate a slot is exactly the maximum over the flights ahead |
| `NeverLater` | | compression never issues a later time, nor a first one |
| `FrozenMetered` | `FrozenSpaced` | what one picture froze stays spaced through locks, unlocks and compressions |
| `BinsExact` | | a demand bin counts the flights that arrive in it, unless one arrives before the window |
| **`GdpProgramProofs`** | | |
| `TypeCorrect` | | types of the rows |
| `AdvisoriesOfPublished` | | only a published program gets advisories |
| `NeverWithoutAdvisory` | `AdvisoryStands` | a live program has a standing advisory unless staff cancel it, handlers overlapping and failing anywhere |
| `EndIsFinal` | `NeverRevived` | no step brings an ended program back |
| `AtMostOneAdvisory` | `OneLiveAdvisory` | one advisory at most, where handlers take turns, wherever they fail |
| `TurnsCurrent` | `TurnsKeepParameters` | slots and advisory come from the current parameters, where handlers take turns and none fails |
| **`TmuProofs`** | | |
| `NumbersTyped` | | types of the advisories and creates |
| `Unique` | `NumbersUnique` | numbers are unique per facility and day |
| `NotReissued` | `NeverReissued` | an issued number is never given out again |
| `Ascend` | | a new number exceeds every one in use |
| `EntryTyped` | | types of the row, the log, the advisory and the calls |
| `CancelStaysLast` | `CancelIsLast` | no line follows a cancellation, edits, cancels and deletes overlapping, where lines are posted in the order of the commits |
| `LogFollowsRow` | `LogFollows` | where calls take turns, the log says last what the row says, and says nothing twice |
| `CancelPosted` | `CancelCorrected` | a cancelled TMI has its cancellation in the log, where calls take turns beside the line it corrects |
| `ReplayTrue` | `ReplayFaithful` | the replay shows an entry in exactly the hours it was in force, whichever way it ended |
| `AdvisoryGone` | `AdvisoryRetired` | a ground stop's advisory is retired before its row is gone, its post corrected once |
| **`ReleaseDeskProofs`** | | |
| `TypeCorrect` | | rows, answers and calls keep their columns and parameters |
| `ToolsKeepOffEver` | `ToolsKeepOff` | a tool's write never falls on a release that somebody else holds |
| `MeteredEarliest` | | automatic metering gives a flight the earliest time it can make that is a separation from all ahead of it |
| `ChainedApart` | | manual metering keeps the controller's order a separation apart, with no delay but that |
| `ReadySlotEarliest` | | a ready flight gets the earliest time it can make that is clear of everything pinned by the separation and the margin |
| `ArrivalsStay` | | releases clear of the arrivals do not move them when both are metered together |
| `ReleasesApartEver` | `ReleasesApart` | where calls take turns and no time is set by hand, releases stay apart through marks, clears and swaps and a moving picture |
| `GapHoldsEver` | `GapHolds` | and, the picture standing still, stay apart from the arrivals metered with them |
| `NothingOverwrittenUnseen` | `NoSilentOverwrite` | a tool replaces nothing but the write it was answered for, while nothing is cleared or every answer arrives in time |
| **`SectorDemandProofs`** | | |
| `TypeCorrect` | | types; what a call has in hand is of the table it reloads |
| `ArrangementFlat` | `Flat` | no chain and no loop of sectors |
| `BatchLandsWhole` | `BatchLands` | a batch that commits has landed every entry |
| `AnsweredAsRead` | `AnswersAsRead` | an answer is computed from what its request read |
| `EntryMovesForward` | | the entry never goes back to an older publish |
| `NoFalseGapEver` | | an ARTCC with sectors is never answered as one without |
| `ProjectedOncePerPublish` | `OncePerPublish` | a publish is projected again only after a newer one, unless inputs beside the feed change |
| `TablesCurrent` | | where reloads do not overlap, tables in memory are the stored ones between calls |

### Assumptions

Every assumption is a named `ASSUME` in the module that declares the constants,
and TLC evaluates it in every run.  Most are types: finite sets of processes,
natural bounds, environments made of the named conditions, "nothing" values that
are outside the type they stand in for.  Those that say more are
`DemandAssumption` and `ProgramAssumption` of `RationBySchedule`: inbounds come in
order of their ETA and rate segments in order of their start, as the code sorts
both, and a rate is at least 1, to which the code raises it.

### The arguments

*Queue.*  `AttemptBudget` is inductive once every lease in a batch or an ack is known
to be one of the `attempt_count` that were granted (`LeaseBound`).  `LeaseInv` adds
that a lease being acknowledged has left its batch: the counter, not the clock, is
what makes leases exclusive.  `DeliveryInv` adds that whoever reports success has
posted, in the loop as well as in an ack under way.  With bots that echo, an ack
names its own lease (`FenceInv`), so one that applies carries the current count.
The refinement follows step by step from the same invariants.

*ACE.*  `AceInv` says that the holder of the row lock is exactly the transaction that
claims, and that the request is open and not full while the lock is held: what
was checked is still so at the commit, and releases only make room.  `BoardInv`:
boards are current, or a handler is about to publish.  `EmbedInv` has two parts,
for the benign environment: `JobsInOrder` (jobs are done one after another, the
embed shows the last delivered one) and `TurnsTaken` (the payload of the last job
is the claims as they are).

*Packages.*  `PackageInv` holds in every environment: an activation about to commit
has its package as a draft (`Sound`) and is alone (`Apart`); an item of a draft was
never issued, any other at most once (`Counted`); a row exists only for an issued
item (`RowTrue`), its post is uncorrected while it is in force and corrected once
after, or never when it expired (`PostTrue`); an airport's program that came from a package is
that item's (`FromItem`).  `QuietInv` adds, for environments without late edits,
that an activation works on all the items there are, that everything in force has
its reference, and that what a deactivation has passed is no longer in force.

*Engine.*  The properties speak of slots that were given; `RunInv` adds what the
*cursor* must satisfy for the next one: it is a slot behind every controlled flight
(`CursorSpaced`), as many shortest slots behind each flight as came since
(`CursorMetered`), and under a flat rate exactly the maximum of those bounds
(`CursorEarliest`).  That a rate schedule has a *last started segment* follows from
a well-founded order.  `OriginInv` says that frozen rows of the newest run's
picture are that run's control times, and that a set of rows from one picture
stays spaced after the run is over.  `BinsExact` rests on one lemma about
division.

*Program.*  `ProgramInv` follows each handler's `pc`: a run is one handler's
(`RunsOwn`) and its advisory does not exist before the commit (`CallsFollow`), one
publish holds the draft's row (`RowHeldOnce`), so the commit that takes the
old advisories down puts a new one up in the same step.  `TurnsInv` adds what turns give: between
a handler's reads and its commit nobody else writes the parameters or slots, so
what its statements saw covers what there is (`CallKeeps`).

*Numbers.*  One transaction holds the lock of a facility and day, a number
that was read is above those in use, and the holder of an issued number still
stands (`LockExclusive`, `NumberAbove`, `HolderStands`).

*Release desk.*  A swap holds every row it has locked, and no two lock the same
(`LocksHeld`, `LocksApart`), so what a tool writes at the end is its own.
`VersionInv` has two halves, for the two conditions of `NoSilentOverwrite`.  Where
nothing is cleared, a row's version only grows past what tools were told, and one
version is one write (`Uncleared`).  Where answers arrive in time, a tool that holds a
row knows its last version or an earlier one of its own, and asks for the last it
knows (`Timely`): a row that was cleared and issued anew is either somebody
else's, or the tool was told.

What is proved of the slots rests on metering being *defined*.  `MeterAuto` and
`MeterManual` are recursive functions, and that one exists is a theorem, not a
given: among the parts of the flights that hold whoever comes before any of them
and that have a schedule, one leaves the fewest out, and leaves out none, because a
first flight outside it could be added (`ScheduleExists`, `ChainExists`).  The
order is finite, so every part of it has a first flight (`FirstFlight`,
`ChainEnds`).  `EarliestSlot` chooses among a few candidate times; that no time at
all between is clear (`EarliestSlotFacts`) makes it the loop of `earliest_slot`.
`TurnInv`: one call at a time, and what it is about to write is clear of the other
releases by the separation and the margin; a swap gives each row the other's time.
`StandInv` adds, while the picture stands, that each release is clear of the times
the arrivals would have *without* releases; by `ArrivalsStay` those are the times
they have with them, which is `GapHolds`.

*Sector demand.*  `FlatInv`: one saver is in its transaction, and what it sees is flat
but for the sectors that have yet to move with the entry it is at (`HalfMoved`).
`LandInv` relates each entry already done to the row its target has now.
`AnswerInv`: only the requester waits for a projection, which is computed from
what that request read.  `CurrentInv`: one call at a time has a table in hand, and
it is the stored one.  `OnceInv`, for environments in which only the feed changes:
tables, the copies of them that reloads have in hand, and what requests have read
are the stored ones, so an entry of the same publish always matches; a publish that
was projected is being projected, is held, or is behind what is held.

*Entries.*  `EntryInv` has six parts.  `LifeInv` says which stamps a status has, and
that none is in the future.  `SeenInv` adds the hours of the current row: without
edits the window never moves, so an hour is replayed if and only if it was seen, and
an expired row's stop is past.  `AdvisoryInv` adds what time does: a pass that
began after the end (`swept`, or an hour that has gone by since) has retired the
advisory, so the pruning, which waits out the retention, never removes the row
first, and what a purge or a delete removes never had an advisory.  `LogInv` speaks of what was said in whatever
order (`Said`), since lines that wait for one poll need not be in order: a cancelled
TMI that was not dismissed has said so, and nobody says so of one that runs; every
open edit and cancel has its place.  In commit order this makes a cancellation the
last line, because whatever posts finds the row published.  `TurnInv` adds what turns
give: one call at a time, its place at the end of the log, and what it read is what
it finds.

### Only model-checked

* Liveness: `EventuallySettled`, `ArmedGoesLive`, `EndedArchived`, `EndedRetired`,
  `EventuallyCurrent`, `EventuallyAnswered`.  The prover does not reason about
  fairness or `ENABLED`.

Every safety property that a run checks is stated by a theorem.  The theorems are
of the models: that a model is the code's is argued in section 2.

## 7. Where the code and its documents disagree

Three runs end in a counterexample.  Each checks one sentence of the repository.

| run | the sentence | what happens |
|---|---|---|
| `package_programs` | "Cancel exactly the live rows a package created" (`backend/src/handlers/events.rs:1435`) | a program is deleted by its airport (`:1452`).  Package 1 is activated and sets the airport's program, package 2 is activated and replaces it, package 1 is archived: the program package 2 planned is gone |
| `ace_early_claim` | "request claimed" edits "the original request embed to show the claimer" (`docs/features/discord-integration.md:85`) | `enqueue_notify` makes no job before the post is acknowledged (`backend/src/handlers/ace.rs:130`), and the post renders no claims.  A claim from the website in between never shows until the next claim or release |
| `release_reuse` | "a stale one cannot replace a newer one" (`backend/src/handlers/release_authority.rs:8`) | versions start at 1 again after a clear (`backend/src/repos/flow.rs:595`).  A tool's delayed `If-Match: "1"` replaces a release that was issued anew meanwhile |

The following were met while modelling.  No run is kept for them: the properties
that touch them name the condition under which they cannot occur, and a reader
can drop that condition and let TLC show the behaviour.

**ACE and jobs.**  A claim through the bot is not followed by a board nudge
(`handlers/integration.rs:293`, `realtime.rs:166`): condition `discord` of
`BoardFresh`.  Notify jobs that fail and are retried are shown out of order.
`attempt_count` grows when a job is leased, not when an attempt fails
(`docs/features/discord-integration.md:57`).

**GDP engine.**  Compressing or locking from a newer picture writes times beside
rows frozen from an older one, and two flights may share a slot
(`handlers/gdp.rs:830`); `FrozenSpaced` is about one picture.  A flight that
arrives less than a bin before the window is counted in the first bin, since
division truncates (`feed/gdp.rs:224`).

**GDP program.**  Slots and advisory are computed before the transaction and may be
of parameters that another handler has replaced (`handlers/gdp.rs:575`).  Two
overlapping revises of a program without slot rows see no row to wait for and
leave two live advisories (`repos/tmu.rs:1097`).  A revise that replaces an
advisory already posted queues no correction of the post.

**Packages.**  An item added between an activation's read and its commit belongs to
an activated package and is never issued.  Deleting an item, or the package, after
activation orphans its live rows.  A package disarmed between the pass's query and
its activation is activated all the same.

**TMIs.**  A line can follow a cancellation when an edit began after and committed
before the cancel, and the bot polls only once both are there (lines are due in
the order their transactions *began*).  Two overlapping edits leave the last line
stale, or say one thing twice.  `cancel_tmi` reads its answer with a second
connection while its transaction is open, so the answer still says "published".
Cancelling a draft posts a CNX for a line that was never posted; deleting a posted
TMI posts none.  Editing the stop time of an expired row rewrites what the replay
shows.  A cancelled ground stop's advisory stands until the next cleanup pass.

**Release desk.**  `repos/flow.rs` says a partial swap is impossible; under READ
COMMITTED a swap that waited for one row re-checks that row only, and may write
one of the two.  Two overlapping swaps or ready marks can give two flights one
slot, and a mark that overlaps a swap is lost.  An airborne flight with an earlier
estimate may share a frozen slot.  A flight marked again may get a later time.  A
create-only retry that arrives after a clear issues the release again.

**Sector demand.**  A reload that read before a write may store after the write's own
reload; the table is stale until the next tick, and so are two overlapping
`set_sector_limit` calls.  An unchanged `PUT` on a replica that lags does not
reload it.  Viewers of another replica refetch before that replica has reloaded.  A
request that is late projects an older publish once more.  A failure between commit
and reload leaves the table stale and tells nobody.  A batch may move a sector to
one that the same batch moves on: of `{1→2, 2→3}` with 2 at 4 the first entry
ends at 4.

## 8. What is not modelled

Inside the modelled components:

* **Text and presentation**: how advisories, NTML lines, embeds and documents read,
  how restrictions are parsed, HHMM arithmetic, colours, delay statistics.
* **Geometry and weather**: who crosses an area when, distances in miles,
  trajectories, winds, navigation data, profiles.  A picture of traffic is given.
* **Rows nobody else touches**: listing, and editing of fields no other step reads;
  the ACE confirmation DM and its Tier-1 generator.
* **GDP**: `lock_slot` and `unlock_slot` are actions of `RationBySchedule` and, like
  `prune_history`, not of `GdpProgram`: none of them touches a live program's
  parameters or advisories.
* **Flow**: CFRs that an airport issues follow the same rules in another table
  (`repos/tmu.rs:520-670`) and are not modelled again; the life of an FCA and of
  an event's FCAs is not modelled.  The web client offers "ready" for departures
  only, the handler takes any flight, hence the condition `airborne`.
* **Sector demand**: snapshots without a stamp, publishes older than the entry.
* **Rate programs** are rows that `EventPackages` sets and deletes; their handlers
  are single statements.
* **Permissions**: who may call what.

Components without a module, and why (`PROJECT.json` has them all): identity,
access control, rate limits, audit and logs are request-response over one row or
append-only; VATUSA sync and statistics are planned in part; the feed and what
derives from it is floating-point computation whose only shared state is a
snapshot replaced as a whole; the clients, the bot's translation of Discord and
the packages are presentation.

The map covers a small share of the repository's lines.  Most of the others are
handlers that check a scope and run one statement, views, generated clients and
tests; the models follow the code where the order of steps decides.

## 9. Plan

Done: the queue and its promise, ACE, the engine, programs, advisory numbers,
packages, TMIs and ground stops, the release desk, consolidations and sector
demand; proofs of every safety property of theirs that a run checks.

Next, in this order:

1. **ACE reminders** (`jobs.rs`, `repos/ace.rs:351`): passes of overlapping
   replicas, tiers, the partial unique index.
2. **Connection pool** (`repos/tmu.rs:824`): checkouts nested in open
   transactions against the size of the pool and the acquire timeout.
3. **Realtime hub** (`realtime.rs:122`): lag, `NOTIFY`, a lost listener, and the
   clients' fallback poll, composed with the boards of `AceRequests`.
4. **Statistics**: compaction once per slice across restarts, captures that end.
5. **Job registry**, **VATUSA reconciliation**, **desktop code exchange**.

Proofs: what a ready flight is given in manual mode against the releases that are
there; the spacing of overlapping calls up to the ones that overlap; with each
component above, its invariant.

The runs are kept few: each answers a question of its own, and a property that a
theorem settles for every instance (`SlotsSpaced`, `LeasesExclusive`,
`TablesCurrent`, ...) is not run again unless a run is where one sees it break.
