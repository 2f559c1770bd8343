# Hermodr in TLA+

Models, model-checking configurations and machine-checked proofs for Hermodr,
the private location-evidence service in `src/src/hermodr`. Paths below are
relative to the repository root, `src/`.

TLC checks small instances of every module; TLAPS proves the theorems of the
`*Proofs` modules for all values of the constants.

## 1. The system

Hermodr is a set of short-lived or long-running processes around one SQLite
database (WAL, `synchronous = FULL`). Processes never talk to each other: they
interact through tables only, and the unit of interaction is a transaction
(`BEGIN IMMEDIATE` almost everywhere). A phone reports over HTTP; importers read
an outbox.

```
 phone --HTTP--> receiver --raw_events, processing_jobs, quarantine--> processor
                                                                          |
   operator (CLI): enrol, rotate, revoke,     observations, places, transitions,
   retain, delete, back up, reprocess         recompute_windows, outbox_records
                |                                                         |
          audit_events                                derivation     consumers
```

| component (source) | state | operations | interacts through |
|---|---|---|---|
| receiver (`receiver.py`, `Repository.persist_ingest`) | in-flight gate, listener threads, main thread; `raw_events`, `quarantine`, new `processing_jobs` | `do_POST`/`ingest`, `start`, `serve`, `shutdown`, `drain`, readiness | HTTP, signals, tables |
| processor (`processor.py`) | `processing_jobs` (state, attempts, lease), a `ClaimedJob` in memory | `claim_next`, `reclaim_expired`, `normalize_claimed`, `fail_claimed`, `process_one`, `process_recompute`, `serve` | tables; calls derivation |
| derivation (`derivation.py`) | `recompute_windows`, transitions, visits, trips, gaps, places | `register_place`, `schedule_recompute`, `derive_subject`, `reprocess_subject` | called in a processor's or the CLI's transaction; appends to the outbox |
| outbox (`_outbox`, `outbox.py`) | `outbox_records`, `outbox_consumers`, `outbox_receipts`, an importer's projection | publish, `register_consumer`, `read_batch`, `acknowledge`, `FakeImporter.consume` | tables |
| lifecycle (`lifecycle.py`) | `deletion_plans`, `retention_policies`, `retention_holds` | `approve_default_policy`, `apply_retention`, `plan_deletion`, `apply_deletion` | deletes from every table, tombstones, audit |
| audit (`audit.py`) | `audit_events`, a hash chain | `record_change`, `verify_chain` | called by lifecycle, commissioning, CLI |
| commissioning (`commissioning.py`, `Repository.credential`) | subjects, devices, credentials | enrol, disable, stage, revoke | receiver's authentication and startup check |
| database (`database.py`, `sql/`) | `schema_migrations` | `connect`, `migrate`, `schema_version` | everything |
| backup (`backup.py`) | archive files, `backup_status` | `create_backup`, `verify_backup` | snapshot of the database |
| cli, metrics, logging, contracts, config, identifiers, clock, build, tools | none that others depend on | dispatch, read, render, validate | |

### What is hard about it, and what makes it right

* **Processor.** A lease can expire under a worker that is still working; a
  process can be killed between any two transactions; the clock is read once,
  before the write lock. Right means: effects of a job are committed exactly
  once although instances that share an owner name end each other's jobs, a job whose
  lease runs is given to nobody else, every job ends, and evidence that is committed is
  eventually reflected in derived state.
* **Receiver.** Handler threads race each other and the drain; the process or the
  connection may end between the commit and the answer; the phone retries. Right
  means: what is acknowledged is durable, an event is stored once under one
  disposition, and a shutdown cuts nothing off.
* **Outbox.** Deletion makes holes and may remove the newest numbers; it may also
  strike between a consumer's read and its acknowledgement; consumers fail after
  applying and before acknowledging. Right means: numbers are never reused,
  nothing is skipped, and a consumer that has caught up mirrors the active records.
* **Derivation.** It is repeated on growing, late and shrinking evidence, under places
  that are reviewed and proposed anew, and merges into what earlier runs left behind.
  Right means: whatever the order of arrival, the active records are one consistent
  timeline, each with all its evidence, and the events tell what the tables hold.
* **Lifecycle.** A deletion is selected and counted before its transaction begins, and
  every other process can come in between; retention removes parts of what derivation
  rests on. Right means: no more goes than was approved, held payloads and observations and
  the evidence of unresolved records stay, and nothing is left that refers to what is gone.
* **Audit, database.** Reads before a transaction that others invalidate. Right
  means: the chain verifies; each migration is applied once, and a migrator that loses a
  race is no obstacle.
* **Backup.** The nightly script ends anywhere, the host loses power, archives are damaged,
  old ones are deleted by age. Right means: a name off the host stands for a complete copy,
  tidying never deletes the last archive that can be restored, and the copy off the host
  that last passed the nightly restore test still can be.
* **Commissioning.** Rotation steps in any order against running requests.
  Right means: a revoked credential stops working, an enrolled device keeps one.

Every hazard is listed in `PROJECT.json` at its line, with the properties that
cover it, or the reason why none does.

## 2. Modules

| module | role |
|---|---|
| `EffectLedger` | abstract: an accepted event is written exactly once or dead-lettered, for good |
| `Processor` | the job queue, several processor instances, recompute windows; refines `EffectLedger` |
| `ProcessorProofs` | theorems about `Processor` |
| `DurableInbox` | abstract: an event is stored under one disposition; the phone is told only afterwards |
| `Ingest` | the receiver process, its handler threads, the phone; refines `DurableInbox` |
| `IngestProofs` | theorems about `Ingest` |
| `Outbox` | producers, deletion, consumers and their projection |
| `OutboxProofs` | theorems about `Outbox` |
| `Commissioning` | operators' audited commands on devices and credentials, annotations, requests that authenticate |
| `CommissioningProofs` | theorems about `Commissioning` |
| `Derivation` | observations, versions of places, the derived tables and how a derivation merges into them |
| `DerivationProofs` | theorems about `Derivation` |
| `Segmentation` | the loop of `derive_subject`, one observation at a time; refines `Derivation` |
| `SegmentationProofs` | theorems about `Segmentation`; uses lemmas of `DerivationProofs` |
| `Lifecycle` | extends `Derivation` with the pipeline before it, retention, holds and deletion |
| `LifecycleProofs` | theorems about `Lifecycle`; uses lemmas of `DerivationProofs` |
| `Migration` | concurrent migrators of several builds |
| `Storage` | extends `Migration` with the nightly backup script, its unit and losses of power |
| `StorageProofs` | theorems about `Migration` and `Storage` |
| `MCProcessor`, `MCIngest`, `MCOutbox`, `MCCommissioning`, `MCDerivation`, `MCSegmentation`, `MCLifecycle`, `MCStorage` | constants for TLC; one `.cfg` for each run |

Clocks never step back: time is a counter in `Processor`, `Commissioning`, `Lifecycle` and
`Storage`, and a reading that a process took may be old but not from the future.

Definitions whose comment begins with "Mutant" are faulty variants of the
definition that follows them. They are used by no specification; substituting one
for its original must break the property `PROJECT.json` names, which shows that
the property depends on that piece of code.

### Processor

Variables are the columns `state`, `attempts`, `next_attempt_ms`, `lease_owner`
and `lease_expires_ms` of `processing_jobs`, the subject's coalesced row of
`recompute_windows`, how often a normalization of a job has committed, which
evidence the subject's last derivation read, and for each instance its position in
the loop of `serve()` with the memory it carries (clock reading, claim, subject).
One action is one transaction, or one step outside transactions:

| action | code |
|---|---|
| `ReadClock` | the clock reading of `process_one`; claim and failure use it however late the lock comes |
| `ClaimNothing`, `ClaimNext` | `claim_next` with `reclaim_expired` in the same transaction |
| `NormalizeCommits` | `normalize_claimed`: rows, outbox, `schedule_recompute`, job processed |
| `NormalizeRejects`, `NormalizeDatabaseError`, `NormalizeRaises`, `NormalizeLeaseLost` | its other exits: caught permanently, caught as transient, and the two exceptions nobody catches |
| `FailClaimed`, `FailLeaseLost` | `fail_claimed` |
| `Derive`, `DeriveFails` | `reprocess_subject`, after a normalization and from `process_recompute` |
| `SelectWindow`, `SelectNothing` | the SELECT of `process_recompute`, outside a transaction |
| `Crash`, `Restart` | a kill or uncaught error; systemd |
| `Enqueue`, `Tick` | the receiver's commit, time |

A job's evidence is abstracted to what `normalize_claimed` makes of it: `located`,
`status`, `invalid` or `poison`. Retry jitter comes from a hash, so every delay in
its range is allowed. Attempts beyond the budget are one value. Time stops at
`MaxClock`, and moments beyond it count as `MaxClock`, so that every delay that the
code would wait out is over by then; without that cap the bound on time would
itself stop jobs from being retried.

`Owners` and `OwnerOf` are the names that instances pass to `process_one`; a lease is
identified by them alone, and `serve()` passes the same one in every instance, as the run
does. `LeaseExcludes` therefore speaks of claims: while a lease runs, `claim_next` gives the
job to nobody else. That an instance which overslept its lease may then end its successor's
job is in the model, and `ExactlyOnce` and `ImplementsLedger` are checked with it.

Properties: `ExactlyOnce`, `EvidenceCovered`, `LeaseExcludes`, `ImplementsLedger`
(safety), `JobsSettle`, `DerivationCatchesUp` (liveness).

### Ingest

Variables are the main thread's position in `serve`/`shutdown`, the gate, each
handler thread's position with its event, disposition and response, the tables
`raw_events`, `processing_jobs` and `quarantine`, and what the phone has received.
The in-flight gate is left before the response is sent, as in the code, so `Release`
and `Answer` are two steps; so are the computation of the disposition (`Check`) and
the transaction (`PersistNew`, `PersistDuplicate`). An event's capture time may come
into the accepted range at any moment (`Ripens`), which changes the disposition of a
retry. Authentication and every validation failure are one outcome (`refused`).
`Kill` removes threads and memory and leaves the tables.

Properties: `AckedIsDurable`, `StoredOnce`, `NothingStoredAfterDrain`,
`ImplementsInbox` (safety), `ReportsDelivered`, `ShutdownEnds` (liveness).

### Outbox

Variables are `outbox_records` with SQLite's AUTOINCREMENT memory, the state of the
canonical rows the events are about, consumers' checkpoints and receipts, and each
consumer's memory: the rest of its batch, whether the next item has been applied,
and the projection. `Record`, `Supersede`, `Reconcile`, `Reject` and `Delete` are the
producers' transactions, each with `_outbox` (`Publish`) inside; a stored event id is
ignored, as by INSERT OR IGNORE. `ReadBatch`, `Apply`, `Acknowledge`,
`AcknowledgeRefused` are the steps of `FakeImporter.consume`, and `ConsumeFails` may
cut it anywhere. A place is registered as approved once and may then be registered as
rejected; further versions are not modelled. All aggregates belong to one subject:
event ids contain the subject and sequences are global, so nothing distinguishes them.

`ProjectionMirrors` speaks of derived records. The importer ignores the event of a
rejected place version, and `Reconcile` appends none, so the projection keeps showing
such places and source transitions; nor do visits disappear from it (section 4).

Properties: `SequencesNeverReused`, `NothingSkipped`, `ReceiptsMeaningful`,
`ProjectionMirrors` (safety), `ConsumersCatchUp` (liveness).

### Commissioning

Variables are the `devices` and `credentials` tables, which secret files can be read,
how many entries of `audit_events` are about each target, whether every entry names the
hash of its predecessor, and what each command and each request has read so far.
A command of `cli.py` is two steps: it reads the clock (`StartDeviceCommand`,
`StartCredentialCommand`), and later, with the write lock, checks and changes the
registry and appends its entry (`EnrollDevice`, `DisableDevice`, `StageCredential`,
`RevokeCredential`); or it is refused, finds nothing to do or dies (`GiveUp`).
`StartAnnotation` and `Annotate` are the SELECT and the INSERT of `record_change`
outside a transaction. `Arrive`, `Authenticate` and `Respond` are the part of `ingest`
that reads the clock and looks the credential up. The time a command uses is the one it
read; `--now-ms`, which lets an operator choose it, is not used. Subjects are active.

`revoked` and the field `late` of a request are history: which revocations have been
committed, and whether the request's credential was withdrawn when it arrived.

Properties: `WithdrawnRefused`, `EndIsFinal`, `TrailTellsRegistry` (safety).

### Derivation

`Events` are the reports of a subject, numbered in the order of `_evidence`
(`captured_at_ms`, then `observation_id`), with their times, kinds and the circle they
fall into as constants; an observation on the border of two circles, or in none, has the
spot `None`. Positions and the circles of places never change. Whether it counts for the place depends on the versions of the place,
which change (`PlaceOf`). Variables are the observations, the versions of places, the
derived tables by status, `superseded_by`, `record_evidence`, the events about derived
records and whether a recompute window is pending. An identifier is computed from end
points, place and configuration, so a record is `[kind, first, last, place]`, and a
record that is derived again is the same row.

| action | code |
|---|---|
| `Observe` | the part of `normalize_claimed` that writes an observation, a transition of the phone (provisional), a proposed place version and the recompute window |
| `RegisterPlace` | `register_place` with an approval or rejection. In `src/` only waypoints call it, with `proposed`; reviews come from its other callers, the tests and the owner's scripts |
| `Derive` | `reprocess_subject`: everything `derive_subject` inserts, reconciles, supersedes and announces, in one transaction |

`Runs` are defined as the longest unbroken stretches of observations at one place;
`Segmentation` has the loop that finds them. A crash inside a derivation leaves nothing, and leaving the window
pending is `Processor`'s subject. One configuration is assumed: another fingerprint
gives every record another identifier, so that the next derivation supersedes all.

Properties: `TimelineConsistent` and `ProvenanceComplete`, which TLC checks through `Segmentation`, and
`EventsTellHistory`, which it checks through `Lifecycle`. `MCDerivation` alone is the instance of a violation.

### Segmentation

`Derivation` says what is derived from all the evidence at once; `derive_subject` reads the
evidence once, in order, and works with lists and positions. `Segmentation` adds the loop's
variables: the items it has read (`scanned`), `current_run` (`current`) and `runs`
(`found`). A list of evidence is `[first, last, items]`: its ends and the set of its items.

| action | code |
|---|---|
| `StartScan` | `BEGIN IMMEDIATE` of `reprocess_subject`, `SAVEPOINT` of `preview_subject` |
| `Interrupt`, `Extend`, `Begin` | the three branches of the loop, each on the next item of the ordered evidence |
| `Finish` | the rest of `derive_subject` and the commit: visits from the list (complete if another run follows by index), moves from `zip(runs, runs[1:])`, the evidence of a visit from its list, and `Merge` |
| `RollBack` | an exception anywhere, or the end of a preview |
| `Elsewhere` | `Observe` and `RegisterPlace`, which wait for the write lock |

Gaps are the same in both modules: neighbours of `zip(evidence, evidence[1:])`.

Properties: `SegmentationTypeOK`, the properties of `Derivation`, and `ImplementsDerivation`, which is the
specification of `Derivation`: the loop's steps change no table, and `Finish` is `Derive`. It rests on
`RunsFound` (what the loop ends with are exactly `Runs`), a theorem of its own.

### Lifecycle

`Lifecycle` extends `Derivation`: a report is stored with a job or in quarantine
(`Receive`), normalized (`Normalize`, with `Observe` inside) and derived from
(`Reprocess`), while `Retain` is `apply_retention` and `PlanDeletion`,
`SelectForDeletion`, `CommitDeletion`, `RefuseDeletion` and `ExpirePlan` are
`plan_deletion` and `apply_deletion`. A deletion's selection is read before
`BEGIN IMMEDIATE` and kept in `chosen`; evidence, events and quarantine rows are read
again inside the transaction, as in the code. Foreign keys that stop it are
`DependencyActive`; the rows of `transitions` are deleted in the order of their
identifiers, which are hashes, so the constant `SortsLast` says which source
transitions come after their replacement. The order in which `apply_retention` scrubs
payloads is that of their receipt and left open. Nothing in `src/` writes
`retention_holds`; `SetHold` sets and releases them. Audit entries are not repeated
here. Registered versions are fixed in the instance (`Reviews` is empty), since
retention does not touch them.

Properties: `LifecycleTypeOK` (which includes that what is observed has been normalized, that
what is normalized has its report, and that what was deleted does not come back),
`EventsTellHistory`, `RemainingEvidenceFiled`, `NoDanglingEvidence`,
`UnresolvedKeepEvidence`, `HoldsKeep`, `OnlyApprovedRemoved`. `HoldsKeep` speaks of payloads and observations:
normalized events without an observation go by age although they are held (section 4), which `Retain` models. That `TimelineConsistent` survives retention
and deletion is the theorem `TimelineSurvives`.

### Migration and Storage

`Migration` has `schema_migrations`, the scripts that have changed the database, and for
each migrator what it has read and where it is. A migrator reads the table once, without a
transaction, and applies each script in one. `Storage` adds the files of the two archive
directories (by the day in their name: absent, partial, damaged, whole), the hidden copy, and where the
script is; `tested` is history. Each line of `hermodr-backup` is an
action or several of them, when it can be interrupted in the middle (`BeginCreate` and `EndCreate` are
gpg, `FinishCreate` is what `create_backup` does after it); `set -e` is `GiveUp`.
`KillScript` leaves the files as they are. `PowerLoss` ends the migrators and the script and may take or
damage the day's archive on the host even after its tests, since nothing syncs what gpg has written;
commits stay (`synchronous = FULL`), and so does a copy off the host, which the
NFS client sends when `cp` closes it (the mount is described in m3/VALIDATION.md:49). A file
that has reached a disk does not decay afterwards, and the archive of an earlier day has reached it. The rows of
`operational_state` are left out, and so are the tests that operators run: they accept any path,
and nothing about archives follows from their success (section 4).
`StartUnits` and `StartScript` are the unit's `Requires=` and `After=`: a oneshot without
`RemainAfterExit` runs `migrate up` again each night. `sound` stands for the checks of the
snapshot, `integrity_check` and the audit chain; it may be lost for good. Time is counted in
days; a run of the script that lasts past midnight is not modelled.

Properties: `StorageTypeOK` (with half a copy never bearing an archive's name), `SchemaOnce`,
`LastTestedRestorable`, `LastGoodKept` (safety), `MigrationsComplete` (liveness).

## 3. Runs

| run (`.cfg`) | instance | shows |
|---|---|---|
| `MCProcessor` | 2 instances under one owner name, 3 jobs of a subject (2 located, 1 poison), 1 fault, instances symmetric | `TypeOK`, `ExactlyOnce`, `EvidenceCovered`, `LeaseExcludes`, `ImplementsLedger` |
| `MCProcessorLive` | 1 instance, 3 jobs of 2 subjects (located, invalid, status), 2 faults | `JobsSettle`, `DerivationCatchesUp` |
| `MCIngest` | 3 events (report, empty, refused), 2 threads, 2 faults, only the main thread fair | `TypeOK`, `AckedIsDurable`, `StoredOnce`, `NothingStoredAfterDrain`, `ImplementsInbox`, `ShutdownEnds`, `ReportsDelivered` |
| `MCOutbox` | 1 consumer, 5 records (derived, a place and a visit there, source transition, observation), 5 numbers, batches of 2, 1 failure | `TypeOK`, `NothingSkipped`, `ReceiptsMeaningful`, `ProjectionMirrors`, `SequencesNeverReused`, `ConsumersCatchUp` |
| `MCCommissioning` | 2 operators, 1 device, 2 keys, 1 request, 3 moments, 1 lost secret; operators and keys symmetric | `TypeOK`, `WithdrawnRefused`, `TrailTellsRegistry`, `EndIsFinal` |
| `MCSegmentation` | 6 reports (two stays at home with one of no place between them, a waypoint, the phone's departure, work after a silence), 2 places, a version registered by the owner | `SegmentationTypeOK`, `TimelineConsistent`, `ProvenanceComplete`, `ImplementsDerivation` |
| `MCLifecycle` | 3 reports (home, departure, work), 1 plan, 1 range to hold or delete, batches of 1, 3 moments | `LifecycleTypeOK`, `EventsTellHistory`, `RemainingEvidenceFiled`, `NoDanglingEvidence`, `UnresolvedKeepEvidence`, `HoldsKeep`, `OnlyApprovedRemoved` |
| `MCStorage` | 3 migrators (the unit, one with a script more, one with edited scripts), 1 migrator killed or loss of power, any number of kills of the script, 2 days, archives kept one day, 1 damaged archive | `StorageTypeOK`, `SchemaOnce`, `LastTestedRestorable`, `LastGoodKept`, `MigrationsComplete` |

The bounds reach the interesting cases: two observations of one subject, so that a
derivation must cover another job's evidence; a lease of one tick and two or three
ticks, so that leases expire, are reclaimed and expire again; two attempts, so that
a retry and the end of the budget both happen; two threads, so that both carry the
same event or one is inside the gate while the other is turned away; batches of two
over five numbers, so that a batch ends in the middle, is deleted under its consumer
and leaves holes; two keys and three moments, so that a credential is staged, replaced
and revoked by commands with different clock readings. Six reports give a stay cut in two by a late report
of no place, a stay that grows at its end, a departure that replaces the phone's own, and another place
after a silence; the loop meets items of no place and of another place with a list open and with none, and may be cut
off before every item; two versions of a place let a rejection withdraw what was derived. Three
reports, batches of one and three moments let a record lose one end of its evidence, a held
observation block a batch, and everything else happen between a selection and its
transaction. With three builds a migrator finds its next script applied by one that agrees with
it and by one that does not; two days are enough for an archive to become old,
for a damaged one to be all that a night leaves, and for power to be lost after the old one is gone. Consumers influence each other only through the maximum in
`_outbox`, which the theorems cover for any set of them; instances with names of their own are
covered by the theorems of `ProcessorProofs`, which hold for any naming. Deadlock is checked except for the outbox, where producers stop at
`MaxSequence`. Two operators applying plans at once are covered by the theorems of
`LifecycleProofs`, which hold for any sets of plans and operators.

Four further runs check what a document of the repository says and the code does
not do; TLC finds a behaviour of the model that violates each:

| run | statement | what happens |
|---|---|---|
| `MCProcessorPoison` | persistent failures are dead-lettered | `DerivationError` of `register_place` is not caught; the job ends the process again and again, past the retry budget, which only `fail_claimed` consults |
| `MCDerivationSettled` | a changed record is superseded and replaced | a visit that was the last one when first derived stays provisional: its identifier does not change when it is over, and INSERT OR IGNORE keeps the row |
| `MCLifecycleHistory` | confirmed records are retained until the owner deletes them | retention takes the observations they rest on, and the next derivation supersedes them |
| `MCCommissioningChain` | the audit chain verifies | `audit-change` reads the last hash and inserts its entry without a common transaction |

## 4. Deviations noted while modelling

They follow from the models, or from the code read for them, and have no run of their own.

* `processor.py:458`: `serve` gives every instance the same owner name, and a lease is checked
  by name only (`processor.py:223`). With two instances (IMPLEMENTATION_DESIGN.md:96 calls concurrent
  instances safe) one that overslept its lease passes the check with the lease of its successor
  and commits, fails or postpones a job that the other is working on, whose own
  attempt then ends with `lease_lost`. Effects are still committed once (`ExactlyOnce`, checked
  with the shared name).
* `receiver.py:543`: a signal between `start()` and `stopped.wait()` is forgotten
  (IMPLEMENTATION_PLAN.md:63 asks for a drain).
* `commissioning.py:215`: the check for usable credentials uses a time read before the write
  lock; a credential staged meanwhile is missed, and the subject's last one may be taken
  (m8/COMMISSIONING.md:24).
* `outbox.py:120`: the importer files a visit under `place_id` and looks for its tombstone under
  its own identifier (m7/VALIDATION.md:16).
* `derivation.py:307`: a superseded record that is derived again has its old identifier and stays
  superseded; a visit's digests and its event keep the evidence of the first derivation.
* `derivation.py:190`: a changed configuration changes every identifier: the next derivation supersedes
  the whole history.
* `lifecycle.py:128`: normalized events are removed by age also while held, if they have no observation
  (IMPLEMENTATION_DESIGN.md:183).
* `lifecycle.py:83`: raw payloads are scrubbed by age and hold only, although active records rest on
  them (IMPLEMENTATION_DESIGN.md:424), and although their job may not have run yet.
* `lifecycle.py:101`: held and unresolved observations are left out after LIMIT; a batch full of them
  blocks every later run.
* `lifecycle.py:120` and `lifecycle.py:277`: retention and deletion schedule no recompute, so records that
  rest on removed observations stay active until another report comes (IMPLEMENTATION_DESIGN.md:426).
* `lifecycle.py:270`: transitions are deleted in the order of identifiers under an immediate foreign key to
  the row that replaces them; if the replacement sorts first, the plan is refused as
  `deletion_dependency_active` each time (m7/VALIDATION.md:15).
* `lifecycle.py:273`: a range that contains one version of a place deletes all its versions.
* `lifecycle.py:240`: of two operators applying one plan at once both succeed; a derivation between
  selection and transaction leaves rows that begin at deleted observations.
* `cli.py:134`: `reprocess-apply` commits before its audit entry is written, and that entry is written
  without a transaction.
* `backup.py:150`: once the audit chain is forked, every backup fails.
* `backup.py:171`: the output of gpg, and the directory it is in, are never synced. A loss of power soon
  after the run may leave the directory on the host without an intact archive, as the older ones
  have been deleted by then (`hermodr-backup:19`); `LastGoodKept` excepts that step. The copy off the host stays.
* `backup.py:245`: a successful test of any file, an old archive or one outside both directories
  included, renews the time of the last success and silences the alert `HermodrBackupStale`
  ("no verified backup within configured interval", IMPLEMENTATION_DESIGN.md:394).
* `hermodr-backup:13`: a killed `cp` leaves a hidden file that nothing deletes, and the copy off the host is
  verified after it bears its final name.

## 5. Fairness

* `Processor!FairSpec`: weak fairness of time and of each instance's own steps,
  including `Restart`. The loop of `serve` waits at most its interval, no step waits
  for another process except for SQLite's write lock, and
  `hermodr-processor.service` has `Restart=on-failure`; the unit gives up after five
  failures in 300 s, so the assumption is that failures are rarer than that, and the
  number of faults of a behaviour is bounded by `MaxFaults`. Nothing is assumed of
  faults, of kills, nor of the phone.
* `Ingest!MainSpec`: only the main thread is fair, since a handler may hang inside the
  gate and the drain's deadline must do without it.
* `Ingest!Persistent`, the premise of `ReportsDelivered`: weak fairness of each handler
  thread, and strong fairness of sending an event that is not settled. The phone queues
  and retries; it is strong because a thread is free for a new connection in the code,
  whereas the model has a fixed set of them, which other messages can keep occupied.
* `Outbox!FairSpec`: weak fairness of each consumer's loop. Producers promise nothing.
* `Storage!StorageFairness`: weak fairness of each migrator, including that one which ended is started
  again: at each boot (`WantedBy=multi-user.target`) and by each unit that requires
  `hermodr-migrate`, the nightly backup among them. Nothing is assumed of the script.
* `Derivation`, `Segmentation` and `Lifecycle` have safety properties only; that derivations follow is
  `DerivationCatchesUp` of `Processor`.

## 6. What is proved

TLAPS checks every theorem below from the named assumptions `ProcessorAssumption`,
`IngestAssumption`, `OutboxAssumption`, `CommissioningAssumption`, `DerivationAssumption`,
`LifecycleAssumption`, `MigrationAssumption` and `StorageAssumption`, which say what the constants are
(types, positive durations, events numbered in the order of their times, a `None` that is no
other value, finitely many events and places, a visit's place being a place) and nothing else.

**`ProcessorProofs`.** `TypeOK` is inductive; it contains the CHECK of
`processing_jobs`. `ExactlyOnce` is inductive with it: the only step that writes
effects is guarded by the job being `processing`, and it leaves that state in the same
transaction, whoever's name the lease bears. `EvidenceCovered` is inductive: new
evidence opens the window with it, and only a derivation that reads all evidence
closes it. `LeasesExclude` follows from `TypeOK`, which bounds the clock reading of a claim by the
clock: a lease that runs has not expired at an earlier reading either. None of the theorems
assumes anything of owner names. `ProcessorImplementsLedger` maps each step to a
step of the ledger for one job, or a stutter.

**`IngestProofs`.** `TypeOK` says that `inflight` is the number of threads inside the
gate; the proof follows threads in and out of the set (`Entering`, `Leaving`).
`StoredOnce` is inductive. `AckedIsDurable` is not: the identifier travels in a response
first, so the invariant is strengthened by `RepliesDurable`, which says the same of
responses under way. `NothingStoredAfterDrain` follows from the count: after a
successful drain it is zero and the gate is closed, so no thread is inside, and only
insiders store. `IngestImplementsInbox` maps rows and acknowledgements to the inbox.

**`OutboxProofs`.** One inductive invariant, `OutboxInv`: SQLite's memory bounds every
number ever assigned and every checkpoint (`Bounded`), which reduces the three-way
maximum of `_outbox` to its successor; an event is stored under one number
(`OneRecordPerEvent`), so that a receipt found by event id is the receipt of that
record; receipts belong to stored records (`ReceiptsStored`). `NothingSkipped`,
`ReceiptsMeaningful` and `SequencesNeverReused` follow.

`ProjectionMirrors` speaks of a consumer that has taken everything in, and says nothing of the way
there; a second invariant, `MirrorInv`, does. What a consumer shows can only be told from
the newest event about a record (`Tells`, `NewestTells`): it is still
ahead of the checkpoint, or it has been seen, and then the projection
shows what it says (`SeenIsShown`). The event just applied and not yet acknowledged counts
as seen (`AppliedIsShown`), what is left of a batch lies ahead (`BatchAhead`), and an item of a batch whose record has been
deleted meanwhile is followed by a newer one behind the batch (`DeletedIsFollowed`). A producer's step appends
the newest event of the records it touches (`TouchesOnly`, `OthersKeep`), so the records it does not
touch are told by what told them before. With nothing ahead, every record is seen.

**`CommissioningProofs`.** The commands work with clock readings from the past, so the
properties are not inductive. `CommissioningInv` adds that no process is ahead of the clock
(`ReadsPast`), that a committed revocation has taken effect (`RevokedHasEnded`), and that a
late request carries a credential that had ended at the moment it read, or a disabled device
(`LateIsHopeless`). A revocation only moves an end to an earlier moment, and identifiers are used
once, so none of this is undone; `WithdrawnRefused`, `TrailTellsRegistry` and `EndIsFinal` follow.

**`DerivationProofs`.** Two invariants are inductive with `TypeOK`: `EventsTellHistory`, because
every row that is inserted or superseded gets its event in the same transaction and a stored
event is not written twice, and `ProvenanceComplete` with `OnlySupports`: evidence filed
for a derived record is among what the record's end points call for, so that a late
observation only adds to it. `TimelineConsistent` is inductive: after a
derivation the active derived records are among those derived from what is observed,
and any two of them are compatible, because stretches at places are convex and disjoint (the lemmas
about `Stay`, `Runs` and `Moves`) and a move joins neighbouring runs; between derivations rows only
join as the phone's own transitions.

**`LifecycleProofs`.** One inductive invariant, `LifecycleInvariant`: `LifecycleTypeOK`,
`NoDanglingEvidence` and `EventsTellHistory` with two strengthenings. `UnresolvedFiled` says that a
provisional record's ends have evidence filed unless they were deleted, so that retention sees them;
`SelectionClosed` says that a selection holds the reports of the
observations and normalized events it holds, so that a deletion leaves no report-less row. `UnresolvedKeepEvidence` and `HoldsKeep` follow.

`OnlyApprovedRemoved` needs `SelectionApproved`: what an operator has selected has, table by table, the size
that the plan had when the owner saw it, and lies in the plan's range. No step changes the range or
counts of a plan, so this lasts until the transaction, which takes at most what was
selected; that a part is not larger than the whole is the theory of finite cardinalities, for which the
records must be finitely many.

Every step of `Lifecycle` is a step of `Derivation`, of none, or it `Shrinks` the tables: evidence goes with its row or its
observation only. `TimelineConsistent` is inherited that way, and `RemainingEvidenceFiled`, with
`OnlySupports`, is `ProvenanceComplete` for observations that may disappear.

**`SegmentationProofs`.** The loop invariant `LoopInv` speaks of the list as it would be if the evidence
ended here (`Closed`): what has been read is an initial segment (`PrefixScanned`); each list
is at one place and is all that was read between its ends (`RunsWhole`); the lists lie in order
(`RunsOrdered`) and miss no item of a place (`NothingLost`); between two neighbours the
place changes or an item of no place lies (`RunsParted`); and the open list ends with the last item read,
or that item is of no place (`EndOfRun`). When everything is read, a list cannot be made longer,
because the neighbour or the item that parts them lies in the way (`NothingBefore`, `NothingAfter`), so it is one of
`Runs`; and a run shares an observation with some list, so it is that list, as runs are apart.
From there neighbours in the list are exactly `Moves`, a run that is not the last is exactly one
followed by evidence of a place, and a list is exactly what supports the visit: `Finish` is
`Derive` (`FinishDerives`). `LoopImplementsDerivation` makes every safety theorem of `DerivationProofs` one about the loop.

**`StorageProofs`.** `StorageInvariant` has two halves. `MigrationInvariant` adds `Underway` to
`SchemaOnce`: what a migrator has read as applied is still applied, and the
scripts it has passed are those the schema begins with. `BackupInvariant` adds `Reached` to
`LastTestedRestorable`: the archive of the day is absent before its commands run and intact in a
directory once it has passed a test there, and `tested` is an earlier day until the copy off the host passes its own. Both
`LastTestedRestorable` and `LastGoodKept` follow because only a script that has passed both
tests on the day's archive reaches the deletions, and that archive is not old. A loss of power
touches the day's archive on the host only.

Every safety property that a passing run checks is the statement of a theorem. Only
model-checked: the liveness properties `JobsSettle`, `DerivationCatchesUp`, `ShutdownEnds`, `ReportsDelivered`,
`ConsumersCatchUp` and `MigrationsComplete` (TLAPS proves neither fairness arguments nor ENABLED), and
the violations of section 3.

## 7. Plan

1. **Pipeline**: Ingest, Processor and Outbox composed over the shared tables, with
   the promise that an acknowledged report reaches every consumer or the dead letters.
2. **Commissioning**: the preflight report, which reads several tables without a transaction.
3. **Processor**: an unbounded stream of events of one subject, under which `claim_next` keeps
   the others waiting.
4. More proofs: the safety half of the liveness arguments, as invariants that say which
   step a waiting job, batch or thread has next, and lemmas on what each step decreases.

## 8. Not modelled

* Pure functions and formats: JSON parsing, schema validation, digests, identifiers,
  distances, quality flags, configuration, encryption and the archive format; their
  verdicts are `Kind`s, spots or states of a file.
* Metrics, logging, readiness, the preflight report and the operations endpoints: they read only.
* `approve_default_policy` writes constants (90 and 180 days), which are `RawAge` and `NormAge`.
* SQLite itself: a transaction is atomic, an interrupted one leaves nothing, and
  `BEGIN IMMEDIATE` serialises writers. A database error is an action.
* Heartbeats, the build backend, static-analysis tools, the protocol spike, and the
  deployment files, apart from the backup script, its unit and timer, and the restart
  policy the fairness rests on.
