# AntennaBench: TLA+ models, model checking and proofs

AntennaBench is a desktop application that conducts a WSPR antenna comparison
at an amateur radio station. It plans a sequence of two-minute transmissions on
alternating antennas, follows the operator (or an automatic antenna controller)
through it, collects evidence from WSJT-X, WSPR.live and RBN, and writes
everything into one *bundle*: a directory of append-only streams and a
checkpoint. From the bundle it derives a report, which a webview displays and
the operator exports.

This directory models the parts that carry the program's promises and are hard
to test, checks them with TLC, and proves most of what the three concurrent ones promise
with TLAPS:

* the **live session** (`src/crates/storage/src/live*`): what is on the disk
  after errors, kills and power losses, and what several processes see of it;
* the **Active Run** (`conductor*`, `antenna_control*`): one synchronous user
  interface, worker threads that run external processes, intake, Abort and the
  foreground permit, all of which commit to that session;
* the **intake of evidence** (`wsjtx_session*`, `wspr_live_acquisition*` and
  the crate `wsjtx`): a receiver thread, and requests with the permit suspended;
* the **desktop's sessions** (`open_session*`, `managed_sessions*`, `setup*`)
  and the **webview's controller** (`frontend/controller.mjs`, `state.mjs`);
* the **meaning of a bundle** (`core`, `analysis`, `storage/upgrade.rs`): which
  facts a log of operator events states, which observations count for which
  antenna, which are compared, and what an upgrade keeps.

`PROJECT.json` maps every definition to the lines it is translated from, and
lists components, runs, mutants, hazards, findings and theorems.

## 1. Inventory

| Component | State it keeps | Operations | What makes it correct | Status |
|---|---|---|---|---|
| Bundle files and durability (`live/checkpoint.rs`, `durability.rs`, `lock.rs`, `hooks.rs`) | streams, checkpoint, previous checkpoint, staged copy, attachments; page cache and disk; advisory lock | append, sync, stage, copy, rename, directory sync, truncate | one whole checkpoint at every instant, its prefixes intact | modelled |
| Live session, schema v3 to v6 (`live.rs`, `live/*.rs`) | a handle: checkpoint snapshot, frozen flag, runtime actor; the lock | open writer or reader, append event, evidence (with attachment), antenna control, diagnostic; commit; rollback; reload; recover; close | a receipt means committed and durable; nothing committed is lost or repeated; recovery heals | modelled |
| Live session, schema v2 (`live.rs`) | handle, plan generations, previous checkpoint | append to several streams, `commit_plan`, recovery with roll-forward, fallback | the same with a weaker disk layout | modelled |
| Active Run conductor (`conductor.rs`, `conductor/*`) | issued action tokens, expected revisions, the initialised flag | read, act, request and confirm Abort, correct, schedule coordinators | a command applies once to the view the operator saw; each is answered | partly |
| Antenna-controller automation (`antenna_control/*`) | `ControllerRuntime`, authority generation, abort coordination, worker threads, child processes | attach, revoke, manual run, automatic worker, cancel, settle | at most one process; none without authority | modelled |
| Controller profiles (`antenna_control/profiles.rs`) | JSON catalogue | edit, delete | editing revokes authority | not modelled |
| Active session and permit (`open_session/state.rs`) | active bundle, permit, cached projection, presentations, pending export | acquire, try-acquire, suspend, project, replace, reload | one foreground mutation at a time | modelled |
| Operational diagnostics (`operation_diagnostics.rs`) | none | record a failure on a writer of its own | does not disturb what failed | modelled |
| WSJT-X receiver and intake (`wsjtx_session*`, `wsjtx/src/live.rs`) | receiver thread, socket, status, per-client memory | start, receive, commit with retries, heartbeat, four ways to stop and join | a decode taken is recorded once; a finished session has no receiver | modelled |
| WSPR.live acquisition (`wspr_live_acquisition*`, `wsjtx/src/wspr_live*.rs`) | failure memory, throttle, suspended permit | plan, request, revalidate, commit, final capture, acknowledge, end, manual import | an old answer never lands in a changed session; a spot counts once | modelled |
| Operator events and run projection (`operator_events.rs`, `wspr.rs`) | none (reducers) | reduce, correct, retract, project | screen and report say the same | modelled |
| Antenna-control validation (`v5_antenna_control.rs`) | none | validate continued and verified readiness | a readiness rests on what it names | partly |
| Open and managed sessions (`open_session*`, `managed_sessions*`) | catalogue, active session, presentations, pending replacement | list, open, import, export, trash, export report | what is opened or replaced is what the operator chose | modelled |
| Session setup (`setup*`) | pending review | review, create | a stale review creates nothing | partly |
| Formats, reading, validation (`storage/src`, `core/src`) | none | parse, verify, review, repair | what the program writes stays readable | partly |
| Upgrade (`core/src/v2.rs`, `v3.rs`, `storage/src/upgrade.rs`) | none | four upgrades | nothing invented | partly |
| Alignment and timing (`alignment.rs`, `conductor/timing.rs`) | none | align, time | evidence is attributed to the antenna in use | modelled |
| Analysis (`analysis/src`) | none | classify, summarise, pair | only comparable reports are compared | partly |
| Resource budgets | counters | count, refuse | — | partly |
| Report, RBN and propagation providers | none over time | render, download, parse | — | partly |
| Desktop shell and front end (`lib.rs`, `frontend/*`) | page state, dialogs, requests in flight | every operation of the controller | a late answer changes nothing it is not about | partly |

How they interact: every commit of the desktop goes through a live-session
writer opened for it. Foreground commands take the permit first; WSJT-X intake
and failure diagnostics do not; a WSPR.live request suspends it. Synchronous
commands run on one main thread in the order in which the webview sent them,
asynchronous ones on threads of their own. After a commit the committer replaces
the cached live projection, and after every operator command the conductor may
start an automatic worker or the continuation coordinator. A worker runs its
processes without the permit and then competes for it. Abort cancels a running
process, waits until the attempt is *settled*, and compares the session with
what it expects of that attempt. The webview holds copies of what the backend
said (session, conductor view with tokens, report presentation) and asks again on
timers.

What is hard, and therefore what the properties are about: a crash, an error or
a power loss between any two I/O steps; a retry after an answer that was lost;
error handling that fails itself; several processes on one bundle; commits
that slip in between a read and the use of what was read; authority taken away
while a process runs; threads that outlive their session; answers that come late
or in another order; two derivations of one fact that have to agree.
`PROJECT.json` `hazards` lists each at its line, with the properties that would
catch it.

## 2. Modules

| Module | Models | Uses |
|---|---|---|
| `BundleFiles` | files in the page cache and on the disk, the file steps of the live layer, power loss | |
| `LiveSessionV3` | handles, appends, commit, error handling, attachments, recovery, crashes | `BundleFiles` |
| `SessionLog` | abstract: a log whose mutations commit whole and once | |
| `LiveSessionV3Log` | the refinement mapping to `SessionLog`, and `ImplementsLog` | `LiveSessionV3`, `SessionLog` |
| `MCLiveSessionV3` | instances | `LiveSessionV3Log` |
| `LiveSessionV2`, `MCLiveSessionV2` | the schema-v2 layer: plan generations, retained checkpoint, roll-forward, fallback | |
| `ActiveRun`, `MCActiveRun` | conductor, controller automation, permit, projection, intake, replacement, restart | |
| `WsjtxIngest` | what a datagram does to the memory of its client | |
| `WsjtxReceiver`, `MCWsjtxReceiver` | the receiver thread, its commits, the ways to stop it | `WsjtxIngest` |
| `WsprLiveImport` | windows, rows, their disposition, the census | |
| `WsprLiveAcquisition`, `MCWsprLiveAcquisition` | the advance command and its suspended request, final capture, manual import | `WsprLiveImport` |
| `DesktopSessions`, `MCDesktopSessions` | catalogue, opening, reports and their export, copies, creation, trashing | |
| `DesktopController`, `MCDesktopController` | the webview's operations, its state, and the backend as it answers | |
| `OperatorEvents` | reduction of an event log to facts, projection to older schemas | |
| `WsprRun` | occupancies, armed and skipped cycles | `OperatorEvents` |
| `SlotAlignment` | attribution of observations to slots and antennas | |
| `PairedComparison` | duplicates, conflicts, strata, pairs, overlaps | |
| `BundleReview`, `BundleReading` | what a bundle must satisfy to be read and analysed; repair on reading | `OperatorEvents`, `SlotAlignment`, `WsprRun` |
| `ConductorView` | what the operator's screen shows of a slot | `OperatorEvents`, `WsprRun`, `BundleReading` |
| `EvidenceSummary` | which observations count, and the report's counts | `BundleReading`, `PairedComparison` |
| `BundleUpgrade` | the four upgrades | `BundleReading` |
| `SessionEvidence`, `MCSessionEvidence` | days of operating a session, over all of the above | |
| `LiveSessionV3Proofs` | lemmas on prefixes and file operations; the files and handles, receipts and readers | `LiveSessionV3` |
| `LiveSessionV3Refinement` | that the live layer implements `SessionLog`; that attachments are kept | `LiveSessionV3Log`, `LiveSessionV3Proofs` |
| `LiveSessionV2Proofs` | that the schema-v2 layer keeps what it answered, through recovery from either checkpoint | `LiveSessionV2` |
| `ActiveRunProofs`, `ActiveRunRecords` | processes, authority and workers; what a run records and waits for | `ActiveRun` |
| `WsjtxReceiverProofs` | what receivers record and observe, and when they are gone | `WsjtxReceiver` |
| `WsprLiveProofs` | what answers are saved as, and what the acquisition ends a session on | `WsprLiveAcquisition` |
| `DesktopSessionsProofs` | what is published, opened and replaced; the permit | `DesktopSessions` |

`ActiveRun`, `WsjtxReceiver`, `WsprLiveAcquisition`, `DesktopSessions` and
`DesktopController` do not instantiate `LiveSessionV3`: they use what that module
establishes, namely that a mutation commits whole, is refused as stale or
illegal, or ends in an I/O error that has or has not committed it, and that a
retry with a committed identity is answered again.

### Storage

`stream` and `cur` are what a process reads now, `durable` and `disk` what a
power loss would leave. A line is written in two halves (the code writes bytes
and may stop between them), so `stream[s]` is a sequence of halves. A checkpoint
is a record of revision, lifecycle, committed prefix of each stream, last
mutation, active runtime context and omitted diagnostics; the prefix stands for
length and digest. `h[c]` is the handle of client process `c` and where it is in
its call: each of its `pc` values is one of the persistence points of
`live/hooks.rs`, so that an error (`Fail`, `RollbackFails`, `RecoveryFails`), a
`Kill` or a `PowerLoss` can come between any two.

One call is `Submit` (checks, idempotent retry, legality, budget), then for each
planned stream `WriteHalf`, `WriteRest`, `SyncLine`, then `Stage`, `Fill`,
`SyncStaged`, `Retain`, `Promote`, `SyncPromoted`, `Acknowledge`. An error leads
to `HandleCommitted` (the renamed checkpoint is the handle's: reload) or
`HandleUncommitted` (roll the streams back one by one). `Recover` verifies
prefixes, then `CutTail`, `SyncCut`, `PreserveTail`, `CleanTemp`, and appends
an interruption event or a diagnostic of its own.

Abstractions: digests are exact; the processes are cooperating ones that take
the advisory lock; a power loss keeps, for each checkpoint name, the latest
rename or the last synced one; contents a process has not synced may be torn;
`EndRead` merges a reader's error and its end; recovery always runs with a
runtime context, as the desktop calls it; the test-only `BeforeAcknowledge` hook
is left out; the attempt and mutation ids of a diagnostic are one id.

`LiveSessionV2` has the same file model with one process, a retained previous
checkpoint that recovery may start from, generations of the plan in files of
their own, and a recovery that rolls a tail forward when it is exactly one whole
mutation and otherwise quarantines and cuts it. A checkpoint is loadable when it
parses, its prefixes are in the streams and the files of the plan it names exist
(`PlanIntact`). Of a generation the model keeps how many of its four files are there
and, in `left`, how many a power loss may leave: `commit_plan` syncs
`plan-generations/<id>` and never `plan-generations` (`live.rs:1229-1265`), so that
the whole directory may go even after the checkpoint that selects it was answered.
Recovery removes generations file by file and then does sync `plan-generations`;
until it has, removed files may come back. `lost` records the generations that a
power loss took although a checkpoint names them or a caller was told of them.
With `Combined` FALSE a kill, a power loss and damage to the current checkpoint do
not meet in one behaviour. Left out: which of a generation's files are missing; and
that `load_recovery_bundle`, when both checkpoints are of one revision (a kill
between `Retain` and `Promote`), picks the previous one and commits it once more,
where the model goes on with the current one, which is equal.

### Active Run

`session` is what the checkpoint and `project_wspr_run_v3` show: lifecycle, the
log of mutations, the armed intentions in order, the open occupancy's owner and
the skipped intentions. `threads` holds the locals of each thread. The user
interface is one thread, because the conductor's and the controller's commands
are synchronous Tauri commands; opening another session is asynchronous and has
a thread of its own (`Replace`, `Replaced`).

A worker's pc walks `run_worker`: `loop`, `wait`, `continue` (carry an unchanged
readiness forward under the permit), `recheck`, `context` (the one look at the
authority, `controller_context`), `begin` (`begin_attempt`), `switch`, `verify`,
`captured` and `authority` (`abort_requested` and then the generation, two
reads), `persist`, `store`, `stored`, `publish`, `settle`, `finish`. A catalog that
cannot be read, an edited profile and a missing target block the worker at `context`,
a command that cannot be expanded settles its attempt as failed and blocks it
(`ExpansionFails`; a manual run has expanded both commands before its attempt). The
user interface walks a command: `Confirm`, `Await`, `Compare` for an Abort,
`Mutate`, `AppendAction`, `Appended`, `Complain`, `After`.

Abstractions: time is the order in which armed cycles begin and end
transmitting (`Boundary`, `TransmissionEnds`); a controller process ends with
exit zero, fails, or is killed once its generation is no longer current; the
revocation's two writes (generation, then runtime) are one step, since a
worker between them only finds itself cancelled; attaching is two steps; the
attempt counter survives `Restart` because it stands for UUIDs; polls that
only issue a newer token are left out; the receiver's precondition of Start,
corrections, notes, signal confirmations and `AntennaSwitchStarted` are left
out here; only the next intention can be skipped; view fields such as the
automation status are left out.

### Intake of evidence

`WsjtxReceiver` has one record per receiver thread: where it is in
`receiver_loop`, its status, the memory of its clients (`WsjtxIngest`: identity,
remembered datagrams, last seen, rate bucket), the mutation it is committing and
how many times it has retried. The user interface and the opener of another
session are the threads that stop and join it. A datagram is what it is (a
heartbeat, a decode, a Close, of which client and number) and not its bytes; time
advances by the delays that matter to the limits. The log of a bundle keeps for
each entry which receiver wrote it, for which datagram, when.

`WsprLiveAcquisition` has bundles, the acquisition state, the one advance
command with its steps before and after the request, the manual import, and the
provider, whose archive grows and may contradict itself. `WsprLiveImport` plans
the cumulative window, disposes of each row (accepted, filtered, duplicate,
conflict) and makes observations. The advance command is synchronous in the
code, but while its permit is suspended the model lets any other command run, which
includes the asynchronous ones that really can. An operation that holds the
permit from its first read to its commit is one step. The branch for a revision
that went backwards has no state to happen in and is left out.

### Sessions of the desktop and the webview

`DesktopSessions` has the directories of the managed root, the active session with
its presentations, the catalogue with the locators it issued, and one record per
asynchronous command: an opening, imports, a creation, an export of the report, and
what the main thread runs. The lossless export of a whole bundle
(`export_managed_session`) and the reveal in the file manager are not actions: they
read a bundle and write or show outside of what the application keeps.
A bundle is a session, a revision and whether it is whole; a locator's
fingerprint is what the directory was when it was listed. Listing is one step;
a presentation reads one revision; staging names are used once, as fresh UUIDs
are; a refusal because the permit is busy is not filed as a diagnostic;
`ConfirmReplaces` is one step because the permit is held throughout.

`DesktopController` has `ui` (the page: what `state.mjs` keeps), `flows` (the
controller's operations that are awaiting an answer, with what they saw when they
asked), `lane` (the main thread's queue), `desk` and `book` (the backend). One field of
`ui` is history and not the page's: `displaced`, that a late summary has put another
session in the place of the one that was opened. A
`scene` scripts the gestures and timers to come in the order in which they
start; everything else (when calls are served, in which order answers are
heard, one mishap: a failure, a watchdog or a background commit) is left open.
Session ids stand for bundles; the words of a status are busy or at rest; the
timers' own conditions are subsumed by `refreshOnReturn`; a visible refresh that
waits for a poll may also return early. Profiles are left out.

### The meaning of a bundle

These modules are operators over a bundle, a record of schema, schedule,
events, observations and captures. `SessionEvidence` is the state machine that
produces only bundles the program can produce: a `Day` gives the plan, the
instants at which something may happen and what the operator and the sources
may do at them; each action is the conductor's append, a decode's or spot's
import, an interruption, a correction or retraction. Its invariants compare what
the operators say of the reached bundle. Legacy actions append what programs of
schema v1 and v2 did. Texts, grids and distances are left out; an SNR is a small
number. Fixed-slot sessions from v3 on never keep decodes, and RBN rows never
become evidence (`docs/bundle-format-reference.md:231-233`), as in the code.
`AntennaSwitchStarted` is read, never written, and a cycle is armed only between
cycles and with the antenna planned for it, as the page offers it.

## 3. Runs

Counts are distinct states. "Errors" are failing I/O operations.

| Run | Instance | Checks | States |
|---|---|---|---|
| `v3_crash` | two processes (symmetric), a start and two batches of evidence that share an attachment, an id used for two facts, 2 revisions, a kill, a power loss | `CommittedPrefixIntact`, `AckedDurable`, `AttachmentsKept`, `WholeLinesOnce`, `ContextsCommittedOnce`, `ReadersUndisturbed` | 696 k |
| `v3_control` | one process, two-stream control mutations, diagnostics with a limit of one record, 4 revisions, one error, one kill | `ImplementsLog` | 348 k |
| `v3_errors` | one process, evidence with attachment, two errors at any I/O step of a call, its error handling or recovery, one kill, fairness | `IndInv` (type correctness included), `EveryCallReturns`, `RecoveryHeals` | 244 k |
| `v2_crash` | one process, mutations of several streams, two plans (symmetric), two errors, a kill, a power loss or damage | `AcknowledgedSurvive`, `AlwaysRecoverable`, `OnlyWholeMutations` | 1.9 M |
| `run_abort` | one antenna change, two worker threads, four commands out of start, ready, attach, Abort, one error, fairness | `SettledMeansRecorded`, `AbortHearsItsAttempt`, `OneWorkerPerAssociation`, `CommandsReturn`, `WorkersEnd` | 229 k |
| `run_review` | an antenna change and then none, reviewed; four commands of every kind but Abort, another session, a restart, one decode | `LaterIntentionsWait`, `OneControllerProcess`, `LiveProcessesHaveAuthority`, `AuthorityEndsWithTheSession`, `ReplacedSessionLeftAlone` | 1.7 M |
| `intake` | one receiver, days that bound its datagrams, retries and stops, a second session | `HeardOnce`, `NoDoubleObservation`, `QuietAfterFinish`, `JoinedThreadRuns` | 2.0 M |
| `wspr_live` | two intentions, two sessions of two formats, an archive with late, foreign and contradicting rows, two errors | `SpotsOnce`, `CapturedAgainOnlyForEvidence`, `EndedOnEvidence` | 472 k |
| `sessions` | days that bound what is listed, opened, imported, created, trashed, reported and replaced | `PublishedIsWhole`, `OpenedAsListed`, `ReplacedReportIsHeld` | 2.6 M |
| `evidence` | a day per schema and kind of trouble | `EvidenceMatchesTheConductor`, `PairsAreSound`, `SpotsOfCoveredCyclesCount`, `UpgradeInventsNothing` | 19 k |
| `desktop` | 27 scripts of two to five gestures, two operations in flight, one mishap | `ReportOfTheShownSession`, `BusyIsAnswered`, `AbandonsWhatWasShown` | 830 k |
| `run_evidence_lost` | a manual run and one decode | `EvidenceRetained` is violated | |

Why the bounds are enough. In storage every hazard is about one mutation in
flight over some committed history: two revisions give a committed record, an
in-flight one and a retry of either, and four revisions in `v3_control` reach the
diagnostics' limit and one commit after it; three in `v2_crash` put two
generations and a mutation on top of each other. One kill and one power loss place
a crash anywhere, including in recovery; the second error makes the error
handling itself fail. In the Active Run a first intention needs the operator, and
the second is the worker's; a third, without a change, is carried forward. Four
commands suffice to start, ready, attach and take authority away again while a
worker is in any of its steps; a second association, and so a second worker
thread, fits in. In `intake` a disturbed day has two
datagrams and two faults, commits, delays or resumptions, a troubled one has one
datagram and three of them, a crowded one four datagrams of seven kinds and one delay
or resumption. A limit of one remembered datagram and one client is
reached at once, so that fingerprints and clients are refused; a Close and a restart
forget a client; delays of 1 and 46 seconds fall on both sides of the restart timeout
and of the first slot, before which the rate's bucket is not refilled. The eviction of
a client that was idle for 300 seconds is out of the run's reach: it is in the model,
and `NoDoubleObservation` is proved over it (`DecodesAreObservedOnce`). In `wspr_live`
two slots are the least with a cumulative
window, and one row of the limit a truncated answer. `desktop` has two operations
in flight at once, the least in which the answer to one comes after another has begun
and ended; three gestures reach the races that are known, a late acquisition over an
opening and a check among them. A race that needs three operations in flight, or a
script that is not listed in `MCDesktopController`, is not covered. `evidence` reaches every pair of slot and antenna, two
contradicting facts, a correction of each and a repeated report.

`CHECK_DEADLOCK FALSE` in all but the storage runs of schema v3: the operator may
simply stop, and the bounds end a run; progress is stated by `CommandsReturn`,
`WorkersEnd`, `BusyIsAnswered` and `JoinedThreadRuns`.

For each property of a passing run, `PROJECT.json` `mutants` names a variant
of one modelled definition (a skipped sync, a revocation that keeps the
generation, a stop that does not join, attempts counted only when they brought
evidence, a confirmation accepted by its revision only) under which TLC finds the
property violated.

### Fairness

`FairSpec` of `LiveSessionV3` assumes weak fairness of `Proceed(c)`: a thread
that has entered a call runs on, since nothing in a call waits for another
process (locks are taken without waiting). Opening, closing and calling owe
nothing. `FairSpec` of `ActiveRun` assumes that a thread that has begun runs
on, that a controller process ends (the code kills it at its timeout), that
time passes over armed cycles, and that a permit holder, which never waits for
anyone, releases. Operator, intake, replacement and restart owe nothing. The
other modules state progress without fairness: that what is waited for can step
(`JoinedThreadRuns`) or is under way (`BusyIsAnswered`).

### What the code does otherwise than it says

`run_evidence_lost` is kept as a run: a decode committed while a manual
controller process runs makes the attempt stale, and its captured evidence is
dropped (`antenna_control/commands.rs:557`), against
`docs/antenna-controller-profiles.md:147-151`.

The properties of this table are stated in the modules, what a document or a
comment says, and TLC finds them violated; the configuration is beside the
module, or the property is added to the run named.

| Property | Configuration | What the code does | What is said |
|---|---|---|---|
| `AckedDurable` | `v3_retry_receipt.cfg` | a retry of a committed id is answered without any sync (`live.rs:1851`); after a directory sync that failed, the receipt is for a rename that a power loss may undo | `docs/live-persistence.md:93-95` |
| `CutTailsPreserved` | `v3_tails_lost.cfg` | recovery truncates the tails before it copies them away (`live.rs:621`) | `docs/live-persistence.md:171` |
| `CommittedPrefixIntact` | `v3_diagnostic_recheck.cfg` | `append_diagnostic` checks neither the frozen flag nor the files (`live/diagnostic.rs:117`); hence `DiagnosticsSafe` in section 4 | `docs/live-persistence.md:212-214` |
| `CommittedIsSynced` | `v2_unsynced.cfg` | a tail that recovery rolls forward is never synced before the checkpoint that commits it (`live.rs:880-895`) | `docs/live-persistence.md:91` |
| `AcknowledgedIsDurable` | `v2_crash` | `commit_plan` syncs a generation's directory and never `plan-generations` (`live.rs:1229-1265`); a power loss may take the generation that an acknowledged checkpoint names, and once the previous checkpoint names it too nothing is loadable | `docs/live-persistence.md:93`, `:162` |
| `AbortRefusedForOthersOnly` | `run_abort_refused.cfg` | an Abort that killed the switch is refused as stale, because the failure diagnostic of the killed attempt is the last mutation (`conductor.rs:290`) | `docs/antenna-controller-profiles.md:162-163` |
| `AbortIsTold` | `run_abort_untold.cfg` | while an Abort waits for a killed worker, the worker of a second association may begin an attempt between the settlement and the waiter's wake-up; `begin_attempt` clears the settlement (`policy.rs:113`) and the Abort answers that the attempt ended without one | the test at `antenna_control.rs:412`, `docs/antenna-controller-profiles.md:160-168` |
| `ReadyAdvances` | `run_lost_wakeup.cfg` | a skip that finds a worker inside an attempt starts nothing, the worker ends at awaiting review, and nobody starts the next intention (`antenna_control/automation.rs:72`) | `automation.rs:38-41` |
| `PollsKeepConfirmations` | `desktop_confirm.cfg` | a background poll issues a new token and closes an open confirmation (`conductor/live_session.rs:347`, `state.mjs:920-931`) | `tests/frontend-state.test.mjs:1116-1117` |
| `StaleAnnotationsDoNotExclude` | `evidence` | an annotation that disagrees with the alignment excludes the observation (`analysis/src/summary.rs:474`) | `docs/decisions/0009`, lines 207-210 |
| `DocumentIsDisplayed` | `sessions` | an import reloads the session with presentation identity 0 (`open_session/state.rs:125`), so after two of them an old document passes for the displayed one | `docs/architecture-reference.md:684-686` |

Observed while modelling, allowed by the models, and the reason why some
properties are stated as they are:

* Active Run. Abort raises the generation before the abandonment is committed
  (`policy.rs:182`): a refused Abort leaves a running session whose
  association says armed and is not of the current generation.
  `persist_failure` advances the revision and not the cached projection
  (`operation_diagnostics.rs:17`), so the next poll is refused; intake replaces the
  projection without the permit (`wsjtx_session.rs:975`). When End commits and
  the read back fails, the error path returns before the revocation
  (`conductor.rs:314`), so the promises about authority are checked without
  errors that hide a commit. Authority is looked up once, before `begin_attempt`
  (`automation.rs:207`): a worker may start a process after End was answered, and
  kills it at its first poll. The continuation coordinator retries every
  second for as long as its append fails (`conductor/transition.rs:408`).
* Schema v2. With the current checkpoint damaged, a kill between `Retain` and
  `Promote` of the recovery that restores it replaces the only good one, against
  Decision 0010 (line 22). A retry is answered before any directory sync.
  A failed `commit_plan` cannot be retried with its generation before a recovery.
  A removal of two pending generations that is interrupted rolls the other
  forward. With two errors, committed evidence may lack its attachment.
* WSJT-X. A resource gap that could not be recorded is shown with complete
  evidence (`wsjtx_session.rs:815`, against Decision 0011, lines 157-160).
  Creating a session returns from a failing registration before it stops the
  receivers of the former one (`setup.rs:989`, against
  `docs/architecture-reference.md:616-618`). Two starts may both
  pass the check for an active receiver (`wsjtx_session.rs:461`). A stop that does
  not hold the permit may stop the receiver of the new session.
* WSPR.live. The ten seconds between requests (Decision 0015, line 75) are not
  kept across sessions nor after a retry. A cycle confirmed
  between the commit of the spots and the census of the final capture loses
  rows that were filtered by direction. After a manual import the automatic one
  creates nothing, and the session ends as one without evidence.
* Sessions. A staging directory is listed and can be opened
  (`managed_sessions.rs:469-472`, `docs/architecture-reference.md:297-303`).
  Trashing checks the active session before it moves the
  directory, and an opening may come between (`managed_sessions.rs:385`). A
  failure may be filed with the session that has become active
  (`commands.rs:1055-1074`, `rbn_import.rs:45-83`).
  An import that cannot be registered removes its published directory file by file and
  ignores an error (`managed_sessions/transfer.rs:173`), so part of a bundle may stay in
  the catalogue.
  A failed activation leaves the review and the created bundle, so that creating
  again makes a second one with the same id. An import that cannot be
  registered removes the directory it published, even if it was opened.
* Webview. A report cannot be refreshed after an evidence import, because the
  reload changes its identity (`state.mjs:643-662`, `open_session/state.rs:125`).
  Polling ends after a rejected action (`controller.mjs:1038`). When creating
  fails after the activation, the page stays on the former session. The late answer of
  an acquisition puts the summary of its own session in the place of the one that was
  opened meanwhile, and leaves the offer of a newer report of that one standing
  (`wsprLiveAcquisitionSucceeded`, `state.mjs:1268-1280`): `ReportOfTheShownSession`
  excepts such an offer by `displaced`, and without the exception the script
  `<<"advance", "open", "check">>` violates it. The offer cannot be applied, since
  `reportRefreshSucceeded` refuses a presentation of another session. The delete of a
  saved session may be requested again while one is under way (`state.mjs:491`).
* Evidence. `ArmWsprCycle` is accepted for any antenna label and phase; the
  models arm as the page offers it. The projection to schema v1 drops corrections
  from and to signal confirmations (`v3.rs:604-641`,
  `docs/event-semantics.md:98-99`). Two confirmations of the same antenna in one
  slot are shown as confirmed and reported as contradicting (`timing.rs:18-76`,
  `alignment.rs:147`). Decodes carry the even minute and fall one second before
  the armed slot. Replacing a confirmation after the end of its slot moves the
  usable start. A skip cannot be retracted after a later arming. The upgrade from
  v1 loses slots that were only planned. Upgrades write at the destination, so
  an interruption leaves part of a bundle there.

## 4. Proofs

The theorems hold for every value of the constants: every set of processes,
streams, mutations and blobs, every plan, policy, operator menu and set of
worker threads, every number of sessions, receivers, imports and names, and every
bound. What is assumed of the constants is in the named `ASSUME`s of
`LiveSessionV3`, `LiveSessionV2` (ids of callers are neither plans nor the revisions that
recovery's own events are named by), `ActiveRun` (the threads have different names), `WsjtxReceiver`,
`WsprLiveImport` and `WsprLiveAcquisition` (lengths, and that the archive is a
sequence of rows), and `DesktopSessions` (a creation and the imports have staging places of their
own, which are no names a session is published at), which TLC evaluates, and in
the hypotheses named below.

| Theorem | Module | Statement |
|---|---|---|
| `EveryProcessKnowsItsFiles` | `LiveSessionV3Proofs` | `Spec => []IndInv` |
| `CommittedPrefixAlwaysIntact` | `LiveSessionV3Proofs` | `Spec => []CommittedPrefixIntact` |
| `ReceiptsAreDurable` | `LiveSessionV3Proofs` | `Spec => []AckedDurable`, if no directory sync fails |
| `ReadsAreUndisturbed` | `LiveSessionV3Proofs` | `Spec => []ReadersUndisturbed` |
| `CommittedOnce` | `LiveSessionV3Refinement` | `Spec => []WholeLinesOnce`, given `AttemptsApart` |
| `ContextsAreCommittedOnce` | `LiveSessionV3Refinement` | `Spec => []ContextsCommittedOnce`, given `AttemptsApart` |
| `LiveLayerIsALog` | `LiveSessionV3Refinement` | `Spec => ImplementsLog`, given `AttemptsApart` and that no directory sync fails |
| `CommittedAttachmentsAreKept` | `LiveSessionV3Refinement` | `Spec => []AttachmentsKept`, given `RollbackWorks` |
| `AcknowledgedMutationsSurvive` | `LiveSessionV2Proofs` | `Spec => [](lost = {} => AcknowledgedSurvive)`, given `OneTrouble` |
| `RecoveryFindsACheckpoint` | `LiveSessionV2Proofs` | `Spec => [](lost = {} => AlwaysRecoverable /\ (At("closed") => Candidates # {}))`, given `OneTrouble` |
| `CheckpointsCoverWholeMutations` | `LiveSessionV2Proofs` | `Spec => [](lost = {} => OnlyWholeMutations)`, given `OneTrouble` |
| `OneProcess` | `ActiveRunProofs` | `Spec => []OneControllerProcess` |
| `AttemptRecorded` | `ActiveRunProofs` | `Spec => []AttemptInv`, on which `OneProcess` rests |
| `ProcessesHaveAuthority` | `ActiveRunProofs` | `Spec => []LiveProcessesHaveAuthority` |
| `OneWorker` | `ActiveRunProofs` | `Spec => []OneWorkerPerAssociation` |
| `AbortHears` | `ActiveRunRecords` | `Spec => []AbortHearsItsAttempt` |
| `LaterWait` | `ActiveRunRecords` | `Spec => []LaterIntentionsWait` |
| `SettledRecorded` | `ActiveRunRecords` | `Spec => []SettledMeansRecorded` |
| `LeftAlone` | `ActiveRunRecords` | `Spec => ReplacedSessionLeftAlone` (an action property) |
| `DatagramsHeard` | `WsjtxReceiverProofs` | `Spec => []HeardOnce` |
| `FinishedIsQuiet` | `WsjtxReceiverProofs` | `Spec => []QuietAfterFinish` |
| `DecodesAreObservedOnce` | `WsjtxReceiverProofs` | `Spec => []NoDoubleObservation`, given `LimitsRelate` |
| `WindowsAreSpared` | `WsprLiveProofs` | `Spec => []CapturedAgainOnlyForEvidence` |
| `SessionsEndOnEvidence` | `WsprLiveProofs` | `Spec => []EndedOnEvidence` |
| `SpotsAreObservedOnce` | `WsprLiveProofs` | `Spec => []SpotsOnce`, given `SpotsKeepTheirPlace` |
| `PublishedWhole` | `DesktopSessionsProofs` | `Spec => []PublishedIsWhole` |
| `ListedIsOpened` | `DesktopSessionsProofs` | `Spec => OpenedAsListed` (an action property) |
| `ForegroundIsExclusive` | `DesktopSessionsProofs` | `Spec => []Turns` |
| `ReplacedHeld` | `DesktopSessionsProofs` | `Spec => ReplacedReportIsHeld` (an action property) |

All theorems of the live session of schema v3 are given `DiagnosticsSafe`: either rollback and
reload never fail (`RollbackWorks`) or no caller appends diagnostics; without it
`v3_diagnostic_recheck.cfg` is a counterexample. `v3_retry_receipt.cfg` is one to
durable receipts where the directory sync may fail, and a reload that fails after
the commit lets the call remove an attachment that the commit refers to, which is
why attachments are given `RollbackWorks`. `AttemptsApart` says that no diagnostic
has the id of another mutation: both are UUIDs that the desktop generates
separately, and the layer looks a diagnostic up among the diagnostics and all else
among the rest, so an id in both would commit twice.

The theorems of schema v2 are given `OneTrouble`. The sync of the directory does
not fail where the power can be lost, as for receipts above. And a behaviour has I/O
errors and kills in any order, or power losses with at most one error before them, or
a checkpoint file that is damaged. The combinations left out are really lost ones.
A kill after the last line is written and before it is synced leaves a tail that
recovery commits as it is (`v2_unsynced.cfg`), and a power loss then takes back
what a checkpoint covers; two errors, the second one in the rollback, leave such a
tail as well. And a kill in the recovery from a damaged checkpoint leaves no
checkpoint that parses, between its `Retain` and its `Promote`, or the previous one
restored with a generation pending, which a writer opens as it is, without the plan
that was acknowledged. TLC shows each of these with `Combined = TRUE` and the bounds
of the two troubles that meet.

They hold until a power loss takes a wanted plan generation (`lost = {}`), which
`commit_plan` permits (`AcknowledgedIsDurable` is violated). Without such a loss every
plan that was answered is kept and recovery always finds a checkpoint. After one the
properties still say that no acknowledged mutation is missing, that every covered mutation is
whole, and that recovery starts unless all checkpoints name lost generations; this TLC
checks within the bounds of `v2_crash`, and it is not proved.

### The live session

**The committed prefix.** `CommittedPrefixIntact` is not inductive: it says
nothing about what a handle believes between two steps, for instance that the
lines a handle is about to put in a checkpoint are synced, or that a rollback
cuts behind the committed prefix. `IndInv` adds that: `TypeOK`, `LocksHeld` (one
handle at a time is inside a writing call), `FilesSound`, and for each handle
`HandleSound`, a conjunction of one part per phase (`AppendSound`,
`StagedSound`, `PromotedSound`, `FailedSound`, `RollbackSound`, `RecoverySound`,
`ReadySound`). TLC checks `IndInv` in `v3_errors`. The proof has one lemma per
action, on top of lemmas on each file operation and on prefixes; `StepSound` collects the actions, `InitSound` the
initial state, and `IntactFromInd` draws the conclusion.

**Receipts.** A receipt is given at three places: after a commit, to a retry, and
to a retry with an attachment. At each the mutation is in the current
checkpoint. What is missing is that the current checkpoint is the one on the disk:
`DirectorySynced` says so of every process that has the bundle open and is not
just between the promotion and the directory sync. A process that dies there
leaves the directory unsynced, and the next one to open the bundle syncs it when
it probes the directory. With `IndInv` that is inductive, because the sync
itself does not fail by assumption. `ReadsAreUndisturbed` needs only that the
checkpoint a reader holds the shared lock on is the current one.

**Refinement.** `SessionLog` commits a mutation whole, once, in a lifecycle that
admits it. Only the promotion of a candidate adds to the log; every other step of
the live layer is a stutter, a receipt, or a power loss that takes the log back.
What has to be shown is that the mutation in a candidate is in no committed
stream. It was looked up before the first write, so `CommitInv` carries that
answer through the call: from `Submit` to the promotion the handle's snapshot is
the current checkpoint and the mutation is not in it (`Fresh`). A lookup reads
only some of the streams; that it cannot miss a record it should have found is
`Tidy`: diagnostics and other mutations are in streams apart, every stream is
whole lines of which no two have one id, a context is committed once and with the
record that names it, and an id is a submitted one or one of those generated so
far. The same invariant yields `WholeLinesOnce` and `ContextsCommittedOnce`.

**Attachments.** An attachment is written before its mutation and removed when the
call returns an error. `AttachInv` says of each handle that carries one that it is
`Spare` (the attachment existed before the call, which then leaves it, or the
handle's snapshot does not refer to it) and `Stored` (the file is there, synced,
from before the mutation is admitted). A call detaches only with a snapshot that
is the current checkpoint, so what it removes is not referred to.

### The live session, schema v2

**An anchor.** `Anchor` says of a checkpoint that it covers whole mutations and all
that was acknowledged, and is a prefix of the streams. The current one is an anchor, and
each retained one covers whole mutations and is of an earlier revision, so that recovery
starts from the current one whenever that parses. While the power can still be
lost (`Lossable`) the disk's entry is an anchor too, covered by what is synced
(`DiskSound`), and every stream is synced but the one at hand (`SyncSound`).
`WriteSound` says what the streams hold in the middle of an append: the checkpoint, the
finished lines of the members before, and the begun one. At the last sync that is the
checkpoint and one mutation whose id is new, and so the candidate is an anchor
(`AddedWhole`). Recovery's own event is named by a number, the revision it commits on;
that no record has it yet is `OwnIds`. A tail that recovery rolls forward is a mutation
with an id that the checkpoint does not have.

**The previous checkpoint.** When the current checkpoint is damaged the previous one is
selected, and the last mutation, or the selection of a plan generation, is uncommitted
again. That it comes back is no matter of one step. `Follows(k, n)` says that recovery
from `k` arrives at `n`: the streams of `n` are those of `k` and one legal mutation with
no generation pending, or `n` selects the one complete generation that names the
revision of `k`, with all others older. `Steady` says that this holds of the retained
and the current checkpoint at all times, and what the calls in progress hold
instead; it is inductive as long as nothing fails (`SteadyKeeps`), since nothing but a
call that ends with a commit touches the streams and generations. After the damage
`Lost(k, n)` takes over: `k` is being restored (`Falling`), or recovery rolls forward
from it (`Following`), discards no generation and cuts no tail (`NothingDiscarded`), and
what it promotes is `n` itself (`PendingSelected`, `TailsAreLost`), with which the layer
is steady again (`PromoteFollows`) and may be damaged once more. TLC was run on
`Recoverable`, the invariant of checkpoints and streams, with two damages before it was
proved.

**The plan files.** `PlansHeld` says that the plan files exist of the current checkpoint,
of the one about to be committed and, while the checkpoint may be damaged, of the
previous one; and that a generation being removed is not the current plan.
Generations are written only while no checkpoint names them, at the sync of the
directory all four files are there, and recovery discards what the checkpoint it goes on
with does not name (`PlansKept`). A power loss disturbs it only by taking a generation
that a checkpoint names, which then is in `lost`. `Held`, that is
`lost = {} => Recoverable /\ PlansHeld`, is inductive because `lost` never shrinks
(`LostGrows`); TLC checked it with the bounds of `v2_crash`.

### The Active Run

**One process.** The property speaks of the two points where a process runs; what
excludes a second one is the attempt that `begin_attempt` records and only its
own settlement clears. `AttemptInv`: every thread from `begin` to `settle`
works on the recorded attempt (`EachRecorded`), and there is at most one
(`AtMostOne`). Each action is brought to one of four kinds of step: a thread
goes on, settles, begins, or nothing the invariant speaks of changes.

**Authority.** A worker looks its authority up once and starts its process later.
What saves it is the generation: it never falls, whatever disarms or replaces
a Run raises it, and a thread notices its own being past. `AuthorityInv` says that
no thread is of a generation to come (`GenerationsPast`), that one who attaches
will raise it (`AttachIsNewer`), and that a thread that has been found
entitled and is still of the current generation belongs to an armed Run
(`EntitledAreArmed`).

**One worker.** Two workers of one association would have one generation.
`RuntimeKnows`: while a worker of the current association lives, the runtime says
that one is running, so no second one is started for it; an attachment forgets
the worker of the former association, under a generation that is nobody's yet
(`AttachIsNew`). With `AuthorityInv` this gives `OnePerGeneration`.

**What Abort hears.** The coordination has room for one attempt and one
settlement, and `begin_attempt` clears the settlement of the one before. `WaitedFor`
says of a waiting Abort that every worker is of a past generation, that whoever
has begun another attempt since (`Droppable`) has not got beyond its look at the
authority and will drop it there, that nobody else was asked to abort, and that a
commit in the settlement is the one of the attempt waited for. So a later attempt
may take the settlement away (the violation in `run_abort_untold.cfg`), and never
replaces it by a commit of its own.

**Settled means recorded.** `RecordsInv`: a thread that has stored its attempt,
or settles with `ok`, has its mutation in the log, and so has the settlement; no
id occurs in the log twice. The latter is inductive because a commit is refused
if its id is there, and because the ids of notes, recoveries and decodes, which
are appended without that look, are bounded by the length of the log and the
count of decodes (`IdPlaced`).

**Later intentions wait.** A worker waits for the last cycle that was armed when it
read the session, and looks again only at the generation. `LaterInv` says of a
thread between that look and the end of its process that its intention comes
before the pending ones, that the cycles armed for earlier ones are not behind the
boundary it waits for, and that, once it has waited, they have been transmitted.
A cycle armed meanwhile is a pending intention's (`ArmsPending`), which is not an
earlier one.

**A replaced session is left alone.** Whoever commits for the operator or an
attempt is in a foreground call and holds the permit (`PermitInv`); `Replace`
takes the permit, and every thread that gets it afterwards looks at the active
session first. Decodes and notes are committed without the permit, and are
what the property excepts.

### The WSJT-X receiver

**Heard once.** A receiver that meets an error after its append asks the session
for its last mutation, and a stale one tries again. Both are sound because a
datagram belongs to one receiver: `NumbersInv` says that the numbers taken off the
sockets are apart, `LogsInv` that an entry's number is its own receiver's and
occurs once. `Fine` follows the datagram at hand: not in the log before its
commit, in it when it is projected, either when its commit failed; all the
earlier ones are in it, unless the thread has died with a failure. The proof has
one lemma per step of the receiver; the commands only set stop flags and write
other things to sessions (`OnlyStops`, `LogsStay`).

**Quiet after the finish.** `Accounted`: the handle of a thread that lives is in
the runtime, or with the command that joins it. `Overdue`: the runtime's receiver
of the active session serves a session that goes on, unless the command that
finished it has yet to take the handle (`StopOfFinished`), or the opener has
(`StopAll`). `StartingHolds`: between its checks and the spawned thread a start
holds the permit, and so the session cannot end meanwhile. TLC was run on these
invariants with two receivers and two ports before they were proved.

**Observed once.** The ingest answers a repeated decode with `duplicate` as long as
it remembers the first one. It forgets in four ways: the dedup window, the restart of
a silent client, the eviction of an idle one when there is no room, and a Close.
`LimitsRelate`, that the restart timeout is no longer than the window and shorter than
the eviction (45 seconds against 600 and 300 in `resource.rs:40` and `live.rs`), makes
the first three harmless: `Keep` is what one datagram, of this client or another,
leaves of the memory. `Watch` relates the memory to the log: of every
observation in the log the ingest still knows, or it is longer ago than the timeout, or
a Close came after it, or the Close is with the thread and not yet in the log; and an
observation that is being committed is not in the log already, within the same
terms (`AtHand`). A commit that ended in an error leaves the memory ahead of
the log, which is safe, and the thread goes on only if the record is there
(`Landed`). The clock does not go back (`Tick`). A receiver that is started again begins with an empty memory, and is
another one.

### WSPR.live

**The replay of an answer.** What a row of an answer becomes depends on the rows
before it, so `Replay` is a function defined by recursion on the positions. That it
exists is proved by the least length for which it would not (`IsReplay`); after
that every lemma uses its equation alone. A row that is accepted has no accepted
row of its identity before it, and a sound row of a confirmed cycle in the window
is accepted, or one of its identity is known.

**Again only for evidence.** The plan is made before the request and used after it,
with the permit suspended between. `JobOK` says what a request holds meanwhile: an
answer to its own plan, a log that may still take a capture of its window (`MayTake`)
and, once the spots are committed, their capture. Nobody but the one advance command
captures automatically, and what others do to the log keeps `MayTake` (`Untaken`). A
plan is made only for a window beyond every capture (`BeyondTheCaptures`) or for one
retried in vain (`RetriedInVain`); a commit that is told as an error leaves the
capture, with which the retry resumes the end and asks no more. So `Spared`, that a
window was captured a second time only while nothing had come of any, is inductive.

**Ended on evidence.** `Covered` says that every automatic capture has saved
what it held: each row that is evidence of a cycle it knew of and reached has
an observation, its own or an earlier one's. `Ordered` says that cycles are taken in
their order and begin one after the other, so that a window over the last slot
that has ended holds all of them, and `Ended` that what the acquisition ended stays
ended, has an observation and a mature capture over every confirmed cycle.
Corrections and confirmations change cycles of a session that goes on (`Changes`);
nothing is taken out of a log (`Extends`, `Annotates`, `SameLog`).

**Once.** `existing_wspr_live_spots` reads the accepted rows of the log again, under
the window, bands and cycles of the request at hand (`wspr_live.rs:792`), and does not
know the ones these leave out. `SpotsKeepTheirPlace`, that rows of one identity agree on
time, band, direction and mode, makes that harmless: what is left out of the log is
left out of the answer. Without it a spot that the provider moves to another time
after a manual import of the whole schedule is observed twice; TLC shows it when
row 1 of the run's archive is given two times.

### The sessions of the desktop

**What a step does to the directories.** Every step leaves them, removes one,
begins one at a staging place, completes it there, moves it to a name, commits
to a whole one, or begins to take one apart at its name (`EveryDirStep`). The
arguments on directories go by these seven.

**Published is whole.** `PublishedIsWhole` says nothing of staging places.
`ProvenIsWhole` does: what its command has validated is whole as long as it is
there. It may be trashed meanwhile, and then the publication fails; another
directory cannot begin at the place before the command is at its end. An import
that cannot register what it published removes it with
`let _ = fs::remove_dir_all(..)` (`transfer.rs:173`): not atomic, and its error is of
no consequence, so a part of a bundle may stay at a published name. `withdrawn` is
the history of those directories, and the property excepts them and nothing else.

**Opened as listed.** The locator is compared with the directory when the opening
is resolved and once more after the reading, and the reading is between.
`Sound` says of every locator that a directory with its identity, at its place, has
only grown since, and that no staging place but its own holds that identity, so a
publication cannot bring it there; `Identities` gives the new ones out apart. So
what was read lies between what the locator says and what is there now
(`OpeningSound`), and the comparison finds both ends the same.

**Replaced by what is held.** The pending replacement is looked up before the
permit is taken, in the same step. `Turns` says where the holder of the permit
stands: an opening, a creation and a refresh that would replace the active session or its
presentations hold it when they do, an evidence import looks that it is free, so
none of them comes between the look and the replacement (`HeldReplacement`).

### Only model-checked

* Liveness, and `JoinedThreadRuns`, which is about `ENABLED`: out of the prover's
  reach.
* `AuthorityEndsWithTheSession`: it holds only where no I/O operation fails. With one
  error End commits, its read back fails and the revocation is skipped
  (`conductor.rs:299-333`); `run_review` allows no error.
* `LiveSessionV2` after a power loss took a wanted generation: what then still holds
  is checked by `v2_crash` alone.
* `LiveSessionV2` without `OneTrouble`: not claimed, see above. `v2_unsynced` shows
  the reason for power losses.
* `SessionEvidence`, `DesktopController` and what they extend: folds over event
  logs, about which nothing can be proved by induction over data, and sequences of
  answers, not attempted.

## 5. Not modelled

* **Controller profiles.** A JSON catalogue that the operator edits: validation
  and formatting of user input. Its effects at run time are `Revoke` (an edit revokes authority),
  `WorkerContext` (a profile that is gone, unreadable or without a target) and
  `ExpansionFails` of `ActiveRun`.
* **Parsing and wording.** Datagrams, HTTP answers, archives of RBN and
  propagation data, HTML reports, forms, dialogs' texts. The models take the
  outcome of a parser from a small set and what the program then does with it.
* **Record shapes.** What validation says of a single field. What it says of a
  record against other records (order, references, slots, lifecycle) is modelled.
* **Numbers of a finished bundle.** Percentiles, rounding, distances, the activity
  census, propagation context and the solar tables: functions of one value that
  unit tests reach.
* **Budgets of reading, analysing and rendering.** Counters checked where they are
  increased, with no state that outlives the call. The live layer's budgets
  are modelled.
* **Lossless copies, platform code.** That a copy has the bytes of its source, the
  Windows replacement primitive, the system calls of the advisory lock, windows,
  location lookup.

## 6. Running

`tlc -config <run>.cfg <module>.tla` with the module that `PROJECT.json` names
for the run; the configurations named in the table of section 3 belong to
`MCLiveSessionV3` (`v3_*`), `MCLiveSessionV2` (`v2_*`), `MCActiveRun` (`run_*`) and
`MCDesktopController` (`desktop_*`). `tlapm <module>.tla` for each module of
section 4. The slowest run takes about four minutes with two workers.
