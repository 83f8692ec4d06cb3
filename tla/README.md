# A TLA+ model of the Re:vi gateway

Re:vi takes alerts from Alertmanager, lets at most one AI repair run work on a
(service, error) at a time, and reports the results in a daily Slack digest and
over `GET /v1/runs`. The Go gateway (`src/gateway`) keeps its state in NATS
JetStream (a stream and four KV buckets) and in SQLite. This directory holds
TLA+ models of it, TLC configurations that check them on small instances, and
proofs that TLAPS checks for instances of every size.

| module | what it is |
| --- | --- |
| `Pipeline.tla` | alert intake, flap lock, stream, dispatcher, marker, toggle, repair runs, report intake |
| `FlapLock.tla` | the abstract lock that the pipeline implements |
| `Digest.tla` | the abstract digest buffer that `DigestBuffer` implements |
| `RunRow.tla` | the abstract row that `RunStore` implements |
| `Pipeline_proofs.tla` | theorems about `Pipeline`: its types, the lock, the marker, and the refinement of `FlapLock` |
| `Toggle_proofs.tla` | the lock theorems again, with the toggle moving and markers expiring |
| `Outcome_proofs.tla` | theorems about `Pipeline`: what the end of a repair leaves behind |
| `Intake_proofs.tla`, `DigestBuffer_proofs.tla`, `RunStore_proofs.tla`, `Harness_proofs.tla` | theorems about the models of these names |
| `Context_proofs.tla` | theorem about `Intake`: what the log context of a message holds |
| `Intake.tla` | a webhook call from its raw payload to its answer, and the log context of a message |
| `DigestBuffer.tla` | the day's digest document, its concurrent writers, and the cron that posts it |
| `RunStore.tla` | the SQLite file: migration at start-up, and the row of a run, written and read by concurrent requests |
| `Harness.tla` | the benchmark's stages and trials against an abstract gateway, and its results file |
| `MC*.tla`, `*.cfg` | small instances of each |

Run `tlc -config Pipeline_mutex.cfg MCPipeline` (and so on for each `.cfg` with
the `MC` module of its model) and `tlapm` on the `_proofs` modules.

## 1. Inventory

### Components, their state and operations

| component (under `src/`) | state | operations | what makes it correct |
| --- | --- | --- | --- |
| alert intake (`gateway/internal/alerts`) | none of its own; a request walks a batch of alerts | `POST /v1/alerts`: `mapAlerts`, then `TryLock`, halt marker, `FetchContext`, `JS.Publish`, `InsertRun` per alert | one message per lock taken; no alert of a group keeps another from its turn; the answer says what became of the group |
| flap lock (`queue/lock.go`) | Locks bucket: key of (service, error) → record, TTL 4h | `Create`; `Delete` by the report, by `skipDisabled`; expiry | no two repairs of one key at a time; no key locked for ever |
| dispatch marker (`queue/dispatched.go`) | Dispatched bucket: alert_id → marker, TTL 24h | `Create`, `Delete` on a failed dispatch, expiry | at most one confirmed dispatch per marker |
| repair toggle (`queue/toggle.go`, `admin`) | Config bucket: `repair.enabled` | read by the dispatcher, set by the admin endpoint | a skipped alert is recorded, released and never dispatched |
| stream and consumer (`queue/consumer.go`) | the alerts stream; deliveries buffered by the client | deliver, redeliver after AckWait or Nak, Ack, Term | every message is settled, and only when it was handled |
| dispatcher (`dispatcher/dispatcher.go`, `github/dispatch.go`) | position in the callback | toggle check, marker, `repository_dispatch`, roll-back, Ack/Nak/Term, `skipDisabled` | retries are bounded; no second dispatch of a message |
| report intake (`digest/handler.go`) | position in the handler | `POST /v1/digest/entry`: digest upsert, lock release, `RecordOutcome` | the outcome is visible only after the digest has the entry and the lock's delete was tried |
| digest buffer (`queue/digest.go`) | Digest bucket: a document per date, with a revision | `UpsertDigestEntry` under optimistic concurrency, five attempts | no upsert is lost to another |
| digest cron (`digestcron`, `slack`) | timer; position in `flush` | read, post, delete | a document is posted once, and before it is deleted |
| run store (`store/store.go`, `runs`) | SQLite, one row per alert_id | `Open` with `migrateColumns`, `InsertRun`, `RecordOutcome` (SELECT, then UPDATE), poll | first outcome wins; stamps are not lost; `merged_at` only in AUTONOMOUS; every column is there before a request is served |
| VictoriaLogs client (`victorialogs`) | — | `FetchContext` | the context is the newest part that fits, in order; a failure never holds an alert up |
| metrics, configuration | counters; environment | start-up, `/metrics` | |
| benchmark harness (`benchmark/harness`) | a branch per fault in the target repository, results file | `stage1`, `stage2`, `trial`: per trial reset, alert, poll, verify, append | a trial is judged by its own fix; no record is lost; stage 2 rests on a clean stage 1; every command ends |
| fixtures, verifiers, scripts | — | shell | |

### How they interact

The webhook handler and the dispatcher share the Locks bucket and the stream; the
dispatcher and the report handler share the Locks bucket and the row; all three
append to one digest document, which the cron reads and deletes. There is no
transaction across any two of these stores: each handler is a sequence of
independent calls, each of which can fail or be the last one before a crash. The
harness is a client of the gateway like any other: it posts an alert, polls the row,
and takes a visible outcome to mean that the lock is free.

### What is hard

Interleaving of webhooks, callback, reports and cron between any two calls;
at-least-once delivery (lost or late Acks); GitHub answers that do not tell
whether a run started; TTLs that may run out under work in progress; a crash
between two calls; a toggle that moves between two deliveries of a message;
optimistic concurrency; a lock that is deleted by key and not by holder.
`PROJECT.json` lists each hazard at its line with the properties aimed at it.

## 2. The models

### `Pipeline`

| variable | in the code |
| --- | --- |
| `locks`, `marker`, `enabled` | Locks, Dispatched and Config buckets |
| `msg`, `inbox` | the stream's messages; deliveries waiting in the pull consumer |
| `disp` | the callback of `dispatcher.Run`: `pc` is the next call it makes |
| `hooks`, `reports` | requests to `/v1/alerts` and `/v1/digest/entry` in progress |
| `runs` | workflow runs on the target repository (external) |
| `row`, `digest` | outcome columns of the SQLite rows; keys present in the digest buffer |
| `sent`, `skipped`, `kept` | history: confirmed dispatches under the present marker; claims closed by the toggle; claims whose end deleted no lock |

Every call that reads or writes shared state is an action of its own, so all
interleavings of goroutines and all crash points are explored. A *claim* names one
successful `Create` of a lock, and hence the message published under it; the
code deletes locks by key alone, and so does `ReleaseLock`, the claim is only
there for the properties to speak of holders. `Deliver`, `AckWaitOver`,
`Requeue`, `SetMsg`, `StartRun`, `RunnerDies` and `SettleLost` model JetStream
and GitHub from how `src/` uses them.

A KV `Create` that fails may have taken effect (`TryLock`, `TryMark`), likewise
`JS.Publish`; a failed SELECT in `RecordOutcome` reads as "no outcome", as in the
code; `Abort` is the early return that drops the rest of a batch.

What the environment may do beyond its duty is the constant `Env`, so each run
names what it assumes:

| event | meaning |
| --- | --- |
| `crash` | the process stops at any point and restarts |
| `ackwait` / `acklost` | AckWait runs out under a live copy / an Ack, Nak or Term is lost |
| `kv`, `sql`, `publish` | a call to the store fails |
| `reject` / `ambiguous` | `repository_dispatch` fails / fails for the caller only |
| `runnerdies` / `resend` | a run never reports / reports more than once |
| `oldrunner` | a report lacks `service_name` or `error_summary`, and so releases nothing (`digest/handler.go:101-107`) |
| `toggle` | the operator switches repair off and on |
| `lockttl` / `lockttlEarly` | a lock's TTL ends when nothing is left to do under it / at any time |
| `markerttl` | a marker's TTL ends, not within one call of the callback |

Abstractions: an alert_id has one lock key (`KeyOf`), as its alertname, service
and summary come from one alert rule; contents of messages and entries are left
out (`Intake`'s subject); `digest` says which keys have an entry, how entries are merged is
`DigestBuffer`'s subject; `row` keeps the outcome's kind, its columns are
`RunStore`'s subject. A delivery number stops at `MaxAttempts`, which is all
`AfterFailure` distinguishes.

### `FlapLock`

The abstract lock of a key: `Acquire`, `Start` a repair under it, `Finish`, `Release`
when no repair is at work under it. `Pipeline` implements it (`ImplementsFlapLock`) with
the mapping `FL`: the holder is the Locks bucket, a claim counts as started when some
run has it, and as repairing while that run is going. Publishing, redelivery, markers,
row, digest and acknowledgements are stutters. So the abstract lock says in one page
what the four stores and three handlers are for, and it is what `RepairMutex` and
`DispatchHoldsLock` rest on.

### `Digest` and `RunRow`

`Digest` is the buffer without revisions, attempts, timers and restarts: `Add` counts one
occurrence on top of all others, `Look` reads a day's page, `Post` sends it whole, at
most as often as the day allows (`Allowed`: once, twice on a long day), `Clear` deletes
what was posted and what came since, `GiveUp` forgets the page. `DigestBuffer` implements
it (`ImplementsDigest`): `entries` are the counts of the documents, and `page` is what the
cron goroutine holds, `Stage` saying how far `flush` has come. A `Put` that goes through is
an `Add`, and so a read-modify-write under a revision has become one atomic step; one
that loses its race, and every crash of a writer, is a stutter.

`RunRow` is a row without statements and columns to be migrated: `Insert` writes it once,
`Record` fills it in at one stroke, while reports are `orderly` only if it has no outcome
yet, `Answer` tells a poller, and `Disorder` is where the promise ends: two reports
overlap, or a SELECT failed. `RunStore` implements it (`ImplementsRunRow`), `orderly`
being its `clean`. A `Record` is the `UPDATE`, with the report's SELECT at any earlier
time. `Merges` is where that time shows: a merge is stamped by the mode of the row itself,
whatever the gateway's mode is by now, but a report whose SELECT came before the row was
inserted knows no mode and stamps none, although the row it then fills in says AUTONOMOUS.

### `Intake`

`Receive` takes the raw alerts of a call through `mapAlerts` (resolved ones dropped, a
firing one that lacks a required field skipped); `TryLock`, `Enrich`, `PublishMessage`
and `Returned` are the calls made for each alert of the rest, and `Fate` is the loop
with its early return and the choice of 200, 202 or 500. The alerts of a batch are
named by their places in the payload: `todo` holds those that are left, of which the
first (`Place`) is at hand, `published` and `halted` those that are done with. `Pipeline` has the same calls
without their data and with everything that follows; `Intake` has the data: five
fields and a status per raw alert, and log lines as sizes, 0 for one that does not
parse, so that `FetchContext` runs on every answer VictoriaLogs can give: `Scanned` is its
loop over the answer with the later `reverse`, `Total` the running sum of
`truncateOldestFirst`, which stops at the first line that does not fit. Its query, a
time-out, an error status and an overlong line are the one step that leaves the context
empty. `Unlock` is the report or the TTL; the digest entry of a halted alert is
`DigestBuffer`'s upsert. The sender may send any group again at any time, after a 500
or a crash in particular.

### `DigestBuffer`

`doc` is the KV entry of each date with its revision. `Get`/`Put` are
`UpsertDigestEntry`'s loop (Create at revision 0, Update at the revision read,
give up after `maxDigestWriteAttempts`); `FlushGet`, `FlushPost`, `FlushDelete` are
`flush`; `CronWait`, `NextFire` and `Tick` are the timer loop, with the day split at
`REVI_DIGEST_TIME`. `applied`, `early`, `removed`, `posted`, `posts` count what
happened, for the properties. `nextFire` adds 24 hours to today's digest time, so on
the night of a 25-hour day (`LongDays`) the timer set the day before is over an hour
early (`ahead`), and `flush` runs twice that day. A process that stops may start again
at any later time; `missed` names the days whose flush it slept through or that failed.
Entry texts and order are left out.

### `RunStore`

The row of one alert_id (rows are independent), with every column that
`RecordOutcome` touches. `InsertRun`, `Select`, `Update` are single SQL statements
over one connection, so each is atomic and the pair is not. A time stamp is the
number of the call that wrote it, so that a property can tell whose stamp it is.

The file was made by this binary or by an older one: `Init` has any prefix of
`additiveColumns`. `Open` reads `PRAGMA table_info` and so finds the missing columns
(`todo`, a set, of which the one declared first is added next), each `AddColumn` is one committed
ALTER TABLE, and only then does the process `Serve`; it may stop anywhere in between.
`REVI_MODE` goes through `normalizeMode`. `clean` is history: reports did not overlap
and no SELECT failed, which is when the first outcome is sure to win.

### `Harness`

| variable | in the code |
| --- | --- |
| `cmd`, `job` | the command the harness process runs; for each fault, where its `runTrial` is |
| `mem`, `file` | `Store.recs`; the results file |
| `branch` | `benchmark/<fault_id>`: whose fixes it holds |
| `run` | the fault's repair run, and the steps its report has still to do (external) |
| `verdict`, `unsaved` | what `stage1` printed of its gate; history: whether it could save its records |

`Begin` is `openStore` and the start of the goroutines, `stage1Gate` the check that
`stage2` makes in a process of its own, `AppendRecord` the deferred `Append` whose
failed save is only logged. A push, a post, a poll or a save may fail, before or after
its effect; a command may be killed; a run may die or take for ever. Gateway and
repair runs are abstract: one lock per fault, and a report that frees the lock before
its outcome is visible or, as a mishap, shows the outcome and leaves the lock (`kept`) to
its TTL (`LockExpires`). Both are `Pipeline`'s: `OutcomeAfterRelease` says the first with
the second as its exception. A run that takes for ever stands for a dead one whose lock
is still held, `RunDies` for one whose lock has expired.
`TrialsPerFault` is at least 2, as the trials of stage 2 are 2 and 3: with 1, the loop as
modelled would run a trial beyond the last.
Runs and their fixes are told apart only by whose they are: the current trial's, one
that the harness gave up on, or one of a trial that saw its outcome.

## 3. Runs

Bounds are constants of the models: claims, runs, requests, days, calls. All
configurations say `CHECK_DEADLOCK FALSE`: a behaviour rightly stops when its
claims, upserts or calls are used up and the environment sends nothing more.

| run | question | bounds | distinct states |
| --- | --- | --- | --- |
| `pipeline_mutex` | `TypeOK`, `RepairMutex`, `DispatchHoldsLock`, `ImplementsFlapLock`, `AtMostOneDispatch` under crashes, late Acks, rejected dispatches, dead runners, honest lock TTL | 2 alerts of one key, batches of 1 and 2, 2 claims, 2 runs | 1.4M |
| `pipeline_toggle` | `RepairMutex`, `DispatchHoldsLock`, `ImplementsFlapLock`, `AtMostOneDispatch`, `OutcomeAfterRelease`, `OutcomeIsDigested` with the toggle moving, markers expiring, failing KV, SQL, publish and dispatch calls, dead runners, reports that do not name their lock, honest lock TTL, and no redelivery behind the callback | 2 alerts of one key, batches of 1 and 2, 2 claims, 2 runs | 1.3M |
| `pipeline_outcome` | `OutcomeAfterRelease`, `AckedIsHandled` with overlapping and repeated reports, some that do not name their lock, toggling, redelivery, rejected dispatches, locks that expire early, reliable KV | 1 alert, 2 claims, 1 run (a marker that never expires admits no second), 2 concurrent reports | 3.8M |
| `pipeline_live` | `MessageSettles`, `LockIsFreed` under fairness, with crashes, lost Acks, failed publishes and dispatches, unclear answers, dead runners and reports that leave their lock | 1 alert, 2 claims, 1 run (a retry that finds it used up is rejected) | 96k |
| `intake` | `AnswerIsTrue`, `OneMessagePerLock`, `RowsAreOrdered`, `ContextIsNewest`, `TypeOK` with failing calls and crashes | 2 concurrent requests, 2 in all, 6 groups of up to 4 alerts, every answer of up to 3 lines of 3 kinds, a budget that two lines fill exactly | 0.3M |
| `digest_faults` | `NoLostUpsert`, `PostedOncePerDay`, `DeletedOnlyAfterPost`, `EarlyEntriesArePosted`, `ImplementsDigest`, `TypeOK` with every fault | 2 writers, 2 keys, 4 days, the second of 25 hours, 3 upserts | 0.7M |
| `store_concurrent` | `MigrationCompletes`, `RowKept`, `MergedOnlyAutonomous`, `RowIsOneReport`, `AnswerStaysTrue`, `ImplementsRunRow`, `TypeOK` with restarts in another mode and in the middle of a migration | 2 columns, 2 inserters, 2 reporters, 4 calls | 0.2M |
| `harness` | `JudgedOwnFix`, `NoHaltedTrial`, `Stage2OnCleanReport`, `VerdictStands`, `FileOnlyGrows`, `CommandEnds`, `TypeOK` with one mishap anywhere (a report that leaves its lock is one) and polls that give up | 2 faults, 2 trials each, 2 polls, 3 records before the last stage 2, trial 1 repeated by hand | 0.4M |

Two claims of one key are what any violation of mutual exclusion, of holder-only
dispatch or of the release order needs; two runs are what a second dispatch needs;
two attempts distinguish a Nak from a Term; four days show a date boundary into a long
day, one out of it and one between common days; two writers and the cron with two attempts make one
of them give up. In `intake`, one group names a failure twice, one has a malformed and
a resolved alert between good ones, one lacks a different field in each of three alerts;
two requests are what a retry and what a race need. In `harness`, three records leave
room for a repeated stage 1, or for one repeated trial, before stage 2; a second fault is
what makes a record missing; a poll that gives up is no mishap, so a left-behind run and
a failed call meet in one behaviour. Records of `stage2` come on top of the bound.

Three history variables name an exception in a property rather than hide it in an
environment: `kept` of `Pipeline`, `missed` of `DigestBuffer`, `clean` of `RunStore`.
`JudgedOwnFix` and `NoHaltedTrial` except the runs the harness gave up on, for which the
code does nothing, and `NoHaltedTrial` also those whose report left the lock held.

The lock is deleted by key and not by holder, so some events leave a claim at work
without its lock. `RepairMutex`, `DispatchHoldsLock` and `ImplementsFlapLock` are checked,
and proved, in two environments, and hold in no larger one. The table is what the proofs
of section 4 assume, a run checks part of it: `pipeline_mutex` has `crash`, `ackwait`,
`reject`, `runnerdies` and `lockttl`; `pipeline_toggle` has `toggle`, `markerttl`, `kv`,
`sql`, `publish`, `reject`, `runnerdies`, `oldrunner` and `lockttl`. The rest is proved only.

| | `Orderly` (`pipeline_mutex`) | `Prompt` (`pipeline_toggle`) |
| --- | --- | --- |
| messages delivered again although handled: `crash`, `ackwait`, `acklost` | may happen | do not |
| `toggle`, `markerttl` | do not | may happen |
| `resend`, `ambiguous`, `lockttlEarly` | do not | do not |
| `kv`, `sql`, `publish`, `reject`, `runnerdies`, `oldrunner`, `lockttl` | may happen | may happen |

The last three break the lock by themselves: a repeated report frees a newer claim's lock,
an unclear answer starts a second run, an early expiry gives the lock away. They are what the
comments assume away (`queue.go`: the TTL "outlasts" a run). The events of the first two
rows break it in pairs: TLC finds a violation of `DispatchHoldsLock` or `RepairMutex` for
either of `toggle` and `markerttl` together with any one of `crash`, `ackwait` and
`acklost`. A dispatched message that comes back while repair is off is closed under its
running repair; a skipped one that comes back when it is on, or a dispatched one whose
marker is gone, is dispatched without the lock.

No event breaks `AtMostOneDispatch` and `OutcomeIsDigested`. The runs check the first with
crashes and redelivery and again with expiring markers and failing KV calls, the second
with failing KV calls; that no mixture of events does is what `AtMostOne` and
`OutcomeDigested` of section 4 prove.

Every property of a passing run has a mutant in `PROJECT.json`, a plausible bug in
a mapped definition that the same run catches.

### Fairness

`FairSpec` of `Pipeline` is used by `pipeline_live`. Weak fairness on each handler and on
the callback is the Go scheduler; on `Deliver` and `AckWaitOver`, JetStream's
delivery and redelivery; on "a run reports or dies", the workflow's time-out; on
`LockExpires`, the bucket's TTL. There is none on `Receive`, on `Crash` or on any
fault. `<>[][~Crash /\ ~SettleLost]_vars` says that crashes and lost acks cease at
some point: a process that crashes in every callback settles nothing.
`pipeline_live` leaves repair on. The callback is one process, so fairness on
`DispStep` as a whole is enough.

`FairSpec` of `Harness` has weak fairness on the goroutine of each fault and on the end
of a command, which is the Go scheduler and the time-outs of git, HTTP calls and verifiers
(60 seconds, 15 seconds, 10 minutes). Nothing is asked of the gateway, of the runs or of the operator:
`CommandEnds` holds because the polls are counted.

### Findings

The runs that end in a violation each refute one sentence of the repository's
comments or README with a trace; `PROJECT.json` quotes both sides.

| run | what happens |
| --- | --- |
| `pipeline_marker` | a crash between claiming the marker and calling GitHub leaves a marker without dispatch; the redelivery is acked as a duplicate and the alert is lost |
| `pipeline_lock` | with no fault at all: an alert that fires again after its repair takes the lock, is acked as a duplicate and leaves the lock held with nothing in flight |
| `digest_late` | entries recorded after the digest time are never posted |
| `store_firstwins` | of two overlapping reports the later UPDATE wins |

The models contain further behaviour that differs from what comments or the README
suggest. It is stated here and not as runs, each is a few steps long:

* `SkipUpdate` before `InsertRun`: SKIPPED_OFF is recorded on a row that is not there yet
  and is dropped (`alerts/handler.go:56` inserts after publishing). A miss does not mean an
  alert "the Gateway never saw a published dispatch for" (`store.go:346`).
* A report whose delete fails, or that lacks the lock's two fields, shows its outcome while
  the lock is held until the TTL (`digest/handler.go:101-111`), though the harness's stage 2
  fires the next trial on the outcome "(and thus its POST /v1/digest/entry flap-lock
  release)" (`stage.go:45-46`): that trial is answered 200 and polls in vain.
* A dispatched message that was not acked before a crash, redelivered while repair is off,
  is closed as skipped under its running repair, whose lock is freed. The toggle is read
  before the marker, "since a toggle-skipped alert was never dispatched"
  (`dispatcher.go:72`).
* A skipped message whose Ack was lost, redelivered after repair is on again, is
  dispatched without the lock (`skipDisabled` leaves no marker).
* An upsert between `flush`'s read and its delete is deleted unposted (`cron.go:77`
  names no revision).
* Entries left by a failed post are under a date that no later flush reads (`cron.go:30`),
  though they are "buffered for the next attempt" (`cron.go:53`).
* A report whose SELECT came before the row's insert stamps no `merged_at` on a row that
  says AUTONOMOUS (`store.go:294`, `Merges` of `RunRow`).
* On a 25-hour day `flush` runs twice, and what is recorded between the two is posted
  under the same date a second time (`cron.go:47` adds 24 hours).
* After a trial gave up polling, its run may merge into the branch the next trial has
  just reset. That trial is then judged by a commit with two fixes, though "repeat trials
  never collide" (`targetrepo.go:52`); or its alert meets the old lock, is answered 200
  and is polled for in vain (`JudgedOwnFix` and `NoHaltedTrial` without their exception).
* A line that would fill the budget to the byte is dropped, as a newline is counted for
  every line (`client.go:105`), while the comment drops lines "until the result fits".

## 4. Proofs

`Pipeline_proofs.tla` proves, from `PipelineAssumption` alone and so for any
number of alerts, keys, claims, runs, requests and attempts:

* `TypeCorrect`: `Spec => []TypeOK`, for every `Env`. `TypeOK` is inductive. It
  also says that handlers, copies, reports and runs only ever name claims that were
  taken, which all later proofs use. A frame lemma covers the parts a step leaves
  alone, so that each action proves only what it disturbs.
* `AtMostOne`: `Spec => []AtMostOneDispatch`, for every `Env`. Not inductive: the
  strengthening `MarkerInv` adds that a confirmed dispatch implies a marker, and that
  from `TryMark` to the end of the roll-back the marker is there and no dispatch is
  confirmed yet.
* `MutualExclusion`: `Spec => []RepairMutex`, and
* `DispatcherIsHolder`: `Spec => []DispatchHoldsLock`, both assuming `Orderly` (none
  of the five events above). The invariant `LockInv` says that whoever still needs
  the lock under a claim (`InUse`: a publisher, a message or copy whose alert is
  not decided yet, a running run, a report before its release) holds it
  (`WorkHoldsLock`). For that to survive a release by key, no other work may rest on
  the claim: one publisher per claim, one run per alert and marker, one report per
  run, and no work under a claim before its message is published. `LockFreed` is the
  heart: a lock may go when no work rests on its claim; `LockReportRelease` and
  `LockLockExpires` show that the only two releases left do so.

* `FlapLockImplemented`: `Spec => ImplementsFlapLock`, also assuming `Orderly`. The
  initial states map to initial states; then one lemma per kind of step:
  `FlapLockTryLock` (an `Acquire`, if the `Create` succeeded), `FlapLockStart`,
  `FlapLockFinish`, `FlapLockRelease` for the two releases that are left, and
  `FlapLockStutter` for every step that leaves locks and runs alone. `LockInv` does the
  work: it gives `Start` the holder, and tells `Release` that no run is at work.

`Toggle_proofs.tla` proves the same three properties under the other assumption, `Prompt`:

* `ToggleMutualExclusion`, `ToggleDispatcherIsHolder` and `ToggleFlapLockImplemented`. With
  markers expiring, nothing about a marker can be used. `PromptInv` instead follows the
  message: it is in one place at a time, the stream, the client's buffer or the callback
  (`OneCopy`), and it is done with, or about to be, once a run was started for it
  (`RunIsSettled`), so a claim has one run (`OneRunPerClaim`). What needs the lock (`Needs`)
  no longer includes a message that the callback has decided not to dispatch, and hence
  `skipDisabled` may free the lock under it; `NeedsHold` says that all others hold theirs.
  Without `OneCopy` the close-out would free the lock of the message's other copy.

`Outcome_proofs.tla` goes on from there, again for any number of everything:

* `OutcomeDigested`: `Spec => []OutcomeIsDigested`, for every `Env`. `DigestInv` adds that
  a report past its upsert has its key in the digest.
* `ReleasedBeforeOutcome`: `Spec => []OutcomeAfterRelease`, for every `Env`, TTLs at any
  time and repeated reports included. A delete that fails is only logged, and a report
  that does not name the lock makes none: such a claim is `kept`, the one exception.
  `ReleaseInv` says that a report or a `skipDisabled` past its release, and every claim
  whose outcome is on a row, has no lock or is `kept`; a claim is never taken twice, so
  no lock comes back.
* `AckedWasHandled`: `Spec => []AckedIsHandled`, assuming `RollsBack`, that is neither
  `crash` nor `kv`. A crash between marker and dispatch, or a `Delete` of the marker that
  fails in the roll-back, leaves a marker that acks the next delivery unhandled (the run
  `pipeline_marker` shows the first); every other event is allowed. `HandledInv`
  says what a marker means: its alert has a run, or the callback is about to dispatch.

`Intake_proofs.tla` has one invariant of types and turns, `Types`: a request at work has
alerts to do, and those done with and those to do are together what `mapAlerts` let
through, the first ones first. That the first place of a set exists (`MinIs`) rests on the
well-foundedness of the natural numbers.

* `AnswersAreTrue`: `Spec => []AnswerIsTrue`, from `AnswerInv` (what is done with is an
  initial part of what was due, all of it after 200 and 202, and never after 500),
  `OrderInv` (what counts as published is in the stream) and `DueIsDeliverable` (the
  switch over the fields lets through what the wire format asks to be delivered).
* `OnePerLock`: `Spec => []OneMessagePerLock`. `LockInv` adds that a request between its
  `TryLock` and its publish has the lock, no other such request has it, and nothing was
  published under it yet.
* `RowsOrdered`: `Spec => []RowsAreOrdered`, from `OrderInv`; and `TypeCorrect`.

`Context_proofs.tla` adds `ContextNewest`: `Spec => []ContextIsNewest`, for every answer,
any sizes of lines and any budget. `Scanned`, `Total` and `Joined` are recursive functions;
`Recursion` shows that such a function exists, and `Upwards` is induction over an initial
part of the natural numbers for a set, proved from a least counterexample. On them rest
`ScannedIs` (the places of the lines that parse, newest last), `TotalIs`, and `JoinedIs`
(the bytes of what is kept are the loop's total less one newline), and from these that the
lines kept are the most, from the newest on, that fit.

`DigestBuffer_proofs.tla`, for every fault, any writers, keys, attempts, days and long days:

* `UpsertsAreKept`: `Spec => []NoLostUpsert`. The point is that a revision is never used
  twice (`BufferInv`): so a document at the revision a writer has read is the document it
  has read, and an update at that revision adds to it and to nothing else. A delete, and a
  writer that stopped in between, are covered by the same fact.
* `OnePostADay`: `Spec => []PostedOncePerDay`. `PostInv` counts: posts of a day and the
  flushes of that day the timer can still start are together never more than one, two on
  a long day.
* `PostBeforeDelete`: `Spec => []DeletedOnlyAfterPost`, from `DeleteInv`.
* `EarlyIsPosted`: `Spec => []EarlyEntriesArePosted`. `EarlyInv` follows an entry from the
  document through what `flush` has read into the post.
* `DigestImplemented`: `Spec => ImplementsDigest`. `BufferInv` makes a successful `Put` an
  `Add` (`PutReadAll`: what the writer read is all there is), `PostInv` gives `Post` its
  limit, and `PageInv` says that a cron that waits holds no page.
* `TypeCorrect`, with the bound on attempts.

`RunStore_proofs.tla` proves, from `RunStoreAssumption` alone and for every `Env`,
any number of concurrent inserts and reports, any modes, columns and outcomes:

* `MergedAtIsAutonomous`: `Spec => []MergedOnlyAutonomous`. Not inductive: mode and
  time stamp are two statements apart. `RowInv` adds `ModeIsRows` (a mode a report
  has read is still its row's mode, and the row is still there), which `InsertRun`
  keeps because a present row is never replaced, and `Update` needs.
* `RowIsKept`: `Spec => RowKept`. Only `InsertRun` and `Update` change a row
  (`RowInvKept`); `UpdateWrites` says what the `UPDATE` does to each column.
* `OneReportARow` and `PolledOutcomeStays`: `Spec => []RowIsOneReport` and
  `Spec => []AnswerStaysTrue`. `ReportInv`: while reports did not overlap and no SELECT
  failed, at most one report is at work, and one that is about to write has found
  a row without an outcome.
* `RowImplemented`: `Spec => ImplementsRunRow`. `RowRecord` shows that the `UPDATE` is the
  one step of a report: `OneReport` has kept the row without an outcome since the SELECT,
  and `ModeIsRows` the mode.
* `ColumnsAreThere`: `Spec => []MigrationCompletes`. `FileInv` adds the domains of `cols` and
  `todo`; an `ALTER TABLE` that fails ends the migration, so the server is never up short
  of a column.
* `TypeCorrect`.

`Harness_proofs.tla`, for any number of faults, trials, polls, retries and mishaps:

* `JudgedByOwnFix` and `NoTrialHalted`: `Spec => []JudgedOwnFix`, `Spec => []NoHaltedTrial`.
  `TrialInv` says of each fault that a run whose outcome was seen is left only if its report
  kept the lock, which was free by then otherwise (`PastIs`, from the order of a report's
  steps); that a trial which has not
  posted its alert has no run of its own; and what the branch may hold from the reset on.
* `RecordsAreKept`: `Spec => FileOnlyGrows`. `MemInv`: the file is a prefix of what the
  running command has in memory.
* `Stage2IsClean` and `VerdictKept`: `Spec => []Stage2OnCleanReport` and
  `Spec => []VerdictStands`. `VerdictInv` says what stage 1 has on record of the faults
  it is done with, and that no command that runs while a verdict stands records a trial 1;
  `AppendGate` is the rule of the last record, that a new record changes what the gate
  reads of its own fault and of no other.
* `TypeCorrect`.

Each inductive invariant was model-checked on the instance of its model's run before it
was proved. Where the models were changed on the way, it was in form and not in what they
do: `todo` of `RunStore` and of `Intake` became sets, where what `SelectSeq` computes could
not be reasoned about; the last record of `Harness` is named by its place; and the loops of
`FetchContext` are recursive functions rather than folds.

Only model-checked: liveness (`MessageSettles`, `LockIsFreed`, `CommandEnds`). Liveness
under fairness and `ENABLED` are out of reach of the installed provers, and so is an
induction theorem with an operator as its parameter: where one is needed, in
`Context_proofs`, it is stated for a set. Every invariant and action property, and every
refinement, that a passing run checks is also a theorem. The assumption on a lock's honest
TTL (`Abandoned`) is part of the model.

## 5. Not modelled, and the plan

Left out for good: HTTP parsing and authentication, metrics (counters nobody reads
back), the required settings of `config.Load` (a missing one ends the process before it
has any state), message layout, the harness's printing and fixture loading, shell
scripts and fixtures (pure I/O), and the malformed stream messages that only a foreign
publisher could send.

Left out so far: the JSON encoding of a message (`Intake`'s lines have a size and no
bytes, so the growth of the context under `json.Marshal` is a hazard without a
property); two harness processes with one results file (nothing keeps the second out,
and records are lost); texts of digest entries (a HALTED and a SKIPPED_OFF entry of one
lock key share a line) and Slack's limit on blocks.

Next: the texts of digest entries, and two harness processes on one results file, as
models with violation runs of their own.
