# Verification of BackupHelper

TLA+ models of the backup engine in `src/src/backuphelper`, the TLC
configurations that check them on small instances, and proofs, checked by TLAPS,
of what holds for every instance. All paths below are relative to that package
unless they start with `docs/`, which is `src/docs/`.

## The system

BackupHelper is one Python program that runs as a daemon or as a command. A job
names sources (databases, directories, buckets), destinations (the data dir and
S3 buckets), a retention policy, a schedule and channels for alerts.

| part | state it keeps | operations |
|---|---|---|
| backup run (`runner.py`) | the work dir `.work/<id>`, the list of errors, the delivery (destinations, stored, fallback) | `run_job`: produce, bundle, encrypt, deliver, track the off-site copy, retain, drop the local copy, record, alert |
| destinations (`destinations/`) | objects or files under `<id>.tar.gz`, `<id>.manifest.json` | put, get, list, delete |
| off-site tracking (`runner._track_offsite`) | `<id>.offsite-pending.json` in the data dir | mark, ship, forget |
| retention (`retention/`) | none: pure functions of a listing | count, age, GFS tiers, smart_last, `select_prunable` |
| snapshot ids (`snapshots.py`) | none: ids and the jobs they belong to | `new_id`, `owns`, `scope_for`, `pending_owners` |
| run records (`state.py`) | `.state/job-<name>.json`, `.state/daemon.json` | `record_run`, `record_daemon_start`, the reads |
| healthcheck (`healthcheck.py`) | none: reads records and manifests | `check` |
| scheduler and daemon (`cli.run_daemon`, `scheduler.py`) | the scheduler's entries and threads | start, run, drain |
| command line (`cli.py`) | none | `--now`, `create`, `list`, `verify`, `restore`, `prune`, `download` |
| restore (`runner.restore_snapshot`) | what it hydrates into the data dir, a temporary directory | hydrate, verify, decrypt, extract, run hooks, replay each component |
| PostgreSQL restore (`sources/postgres.py`) | the plan, a script in a temporary directory | list the catalog, plan, generate, apply in one transaction; psql for a plain dump |
| sources (`sources/`) | the staging directory | produce, restore |
| notifications (`notify/`) | none | level gate, one send for each channel |
| encryption, hooks, configuration, logging | none that outlives a call | see PROJECT.json |

How they interact. The scheduler (or `--now`, `create`) calls `run_job` once for
each job. A run writes its places one call after the other: first the archive,
then the manifest, place by place. What it learned from those calls (which
places stored both) decides whether a marker is written, which pending snapshots
are shipped, and whether a local copy may go. Retention reads a listing of a
place and deletes what a pure function selects. The run record and the manifests
left in the data dir are all the healthcheck sees. The data dir, the markers,
`.work` and the buckets are shared, without a lock, by the scheduled job, the
start-up job of the same daemon, and any command an operator runs next to it.
A restore fetches into the same data dir what it lacks, while the daemon deletes
there, and hands each component to its source, which overwrites live data.

What is hard:

* *One step of several fails.* Every put, listing and delete may fail alone, at
  one place and not another. A failure is an entry of a list that six calls
  append to, and the run goes on.
* *Deleting the only copy.* Four pieces of code delete copies: retention, the
  catch-up of pending snapshots (`runner.py:617-619`), `keep_local = false`
  (`runner.py:639-640`), and `prune`. Each decides on what it learned some steps
  earlier, and none sees what the others do.
* *Crash.* The marker, the deletion of its files and the drop of the local copy
  are separate system calls; the daemon may be killed in between.
* *Overlap.* `max_instances = 1` holds for one scheduler job, and the start-up
  job is another one (`cli.py:103-107`).
* *Decisions upon decisions.* Retention decides after every run, from what its
  earlier decisions left.
* *Destroying live data.* A restore must find out everything it can before it
  touches a backend, and say so when a part of it did not work.
* *One transaction over a changed schema.* A PostgreSQL restore decides what to
  drop from a catalog other sessions change, and what CASCADE takes along.
* *Ending.* A stop signal, a kill, a raising hook or a broken channel meets runs
  in every state; each must still be recorded and announced.
* *Errors nobody sees.* Some errors are swallowed on purpose: a removal that fails,
  a file that cannot be told from none.

PROJECT.json lists each hazard at its line, with the properties that cover it.

## Modules

| module | what it is |
|---|---|
| `Retention` | the policies as set operators: `CountPrunable`, `AgePrunable`, `KeepForTier`, `GFSKeep`, `ProtectedLast`, `SelectPrunable` |
| `RetentionHistory` | one place over its life: runs add a snapshot and thin, `prune` thins, either may stop half-way |
| `RetentionHistory_proofs` | proofs about both |
| `BackupRun` | `run_job`, step by step, over all places, with failures, kills, overlapping runs and reconfiguration |
| `BackupRunInvariant` | the inductive invariant of `BackupRun` |
| `BackupRun_proofs` | proof of its type invariant and of all its safety properties |
| `Ownership` | which job a snapshot belongs to: ids, the places of a job, plain ids, markers |
| `SharedPlaces` | runs of several jobs, and `prune`, over the places they share |
| `SharedPlaces_proofs` | proof that jobs spare each other's snapshots, and that each keeps one |
| `HealthCheck` | the check over the records and manifests that runs write while it reads |
| `HealthCheck_proofs` | proof that it tells good jobs from failed and from stale ones |
| `Put` | what a destination promises of one put: the abstract specification |
| `S3Upload` | `S3Destination.put` with its retries over a network that loses and delays calls |
| `S3Upload_proofs` | proof that it implements `Put`, and of what its faults may cost |
| `Snapshot` | how a run makes its snapshot: sources, staging area, bundle, encryption |
| `Restore` | a snapshot from its making to `restore` and `verify`, over failures, kills and deletions |
| `Restore_proofs` | proof that only what was checked reaches a backend, that refusals have a reason, that a success is whole and that a restore puts it back |
| `PostgresRestore` | the replay of a PostgreSQL dump: catalog, plan, script, transaction, other sessions |
| `PostgresRestore_proofs` | proof of all its properties |
| `Daemon` | the processes that execute runs: scheduler, `create`, signals, kills, the work dir, records, alerts, hooks |
| `Daemon_proofs` | proof of its safety properties |
| `MC...` | the values TLC gives to the constants |

How they fit together. `BackupRun` EXTENDS `Retention`: the selection a run makes
at a place is the manager's own. It assumes of a put what `Put` says, and
`S3Upload` is shown to implement `Put`. `SharedPlaces` EXTENDS `Ownership` and
`Retention`: it takes a run in coarser steps than `BackupRun` and has several
jobs instead. `HealthCheck` EXTENDS `Ownership` and keeps of a run only what the
check can see.

`run_job` is one function in three models, cut where its steps do not share
state: `Snapshot` is what happens in the staging area, `BackupRun` what happens
at the places (its `Produce` is the end of a `Snapshot`), and `Daemon` what
surrounds both (its `Snapshot(e)` is all of them in one step, with any outcome).
`Restore` EXTENDS `Snapshot`, so that it restores what the sources of that very
run staged; what runs leave of the snapshot at the places is its `Stored` and
`LeftHere`, taken from `BackupRun`. `PostgresRestore` looks into what is one
step of `Restore` for a postgres component (`ReplayComponent`, or
`ComponentFails` without any effect: `AllOrNothing` is what allows that).

### Retention and RetentionHistory

A snapshot is an id and a time. The code gets days, ISO weeks and months from a
calendar and uses only that its buckets are ordered like the times in them; so a
bucket is an interval of `DayLen`, `WeekLen` or `MonthLen` units. `kept` is what
the place lists, `taken` all that was ever stored there, and `settled` says
whether the policy was applied in full since time last moved.

### BackupRun

| variable | in the program |
|---|---|
| `archive[d][s]`, `manifest[d][s]` | the object `<s>.tar.gz` (with its encryption suffix) and `<s>.manifest.json` at place `d`: absent, torn (cut short) or whole |
| `markers` | the pending markers in the data dir |
| `run[p]` | the locals of the `run_job` call process `p` executes, and `pc`, the call it makes next |
| `last` | the job's run record |
| `job` | the job's configuration, which a restart of the daemon may change |
| `clock` | time, one unit for each run: a snapshot id is the second its run began |
| `breaks` | kills, unguarded errors and lost records so far (bounded) |
| `stored`, `due`, `good`, `pruned` | history, read by no action |

| steps | code |
|---|---|
| `Begin`, `Produce`, `AbortRun` | `run_job` to the sidecar, `_produce`, `_maybe_encrypt` |
| `Connect` | `_build_destinations` and the default of `_deliver` |
| `PutArchive`, `PutSidecar`, `ArchivePutFails`, `SidecarPutFails` | `_upload`, for the delivery, the fallback and the shipping of a pending snapshot |
| `FallBack`, `Delivered` | the rest of `_deliver` |
| `MarkPending`, `CatchUp`, `ForgetPending`, `ShipPending`, `StaysPending`, `Shipped`, `ClearArchive`, `ClearManifest`, `CaughtUp` | `_track_offsite` |
| `SelectSnapshots`, `PruneSnapshot`, `DeleteKey`, `PlacePruned`, `ListingFails`, `DeletionFails`, `RetentionDone` | `_apply_retention` |
| `DropLocalArchive`, `DropLocalManifest`, `KeepLocalCopy` | `_maybe_drop_local` |
| `Record` | `job_status`, `_record_state` |
| `Kill`, `AbortStoredRun` | SIGKILL or power loss at any step; an `OSError` of an unguarded write or unlink |
| `Reconfigure` | the daemon started again with another configuration |

A put that raises leaves the object as it was, in full (only the check of its
size failed), or cut short; `ArchiveLeft` and `ManifestLeft` say which of the
last two are considered. A put over S3 is atomic on the server, so a torn object
is a cut-short file of the data dir or one the server shortened, which the size
check finds.

### Ownership and SharedPlaces

A configuration is the sequence of its jobs. An id is a time and a slug, `Plain`
where `new_snapshot_id` leaves the slug out (a configuration with one job).
`Owns` is `SnapshotScope.owns`, with the job its marker names as an argument,
and `PlainAt` is what `scope_for` settles: which job of the configuration is the
first to store in a place.

| variable | in the program |
|---|---|
| `cfg` | the configuration the daemon was started with |
| `now`, `ran` | the clock; which jobs began a run in this second |
| `held[d]` | the ids place `d` lists |
| `marker[id]` | the job `<id>.offsite-pending.json` names, or `Nobody` |
| `actor[a]` | what the run of job `a` has still to thin, delete and drop; for `Command`, the plans of `prune` for the jobs to come |
| `writer[id]` | history: who stored the id first |

| steps | code |
|---|---|
| `BackUp` | `run_job` as far as the off-site tracking |
| `Thin`, `Remove`, `Thinned`, `Fails` | `_apply_retention`: the listing, each deletion, the end, an exception |
| `RunEnds` | `_maybe_drop_local` |
| `PruneCommand`, `PruneNextJob`, `PruneEnds` | `cli.prune`: manifests and markers are listed once, then each job's turn |
| `Reconfigure` | the daemon started again; a run of the same second would share its id |

### HealthCheck

| variable | in the program |
|---|---|
| `started` | `.state/daemon.json` |
| `record[f]` | the run record in file `f` of `.state`; `RecordFile` is `_job_file` |
| `manifest[id]` | the sidecar in the data dir, with the status in it |
| `run[p]` | a run: is its sidecar in the data dir yet, did its content fail |
| `check` | the check: the manifests it has read, the records still to read |
| `outcome[n]`, `lost` | history: how the newest run of job `n` ended; kills and lost records (bounded) |

`Begin`, `StoreManifest`, `DropManifest`, `RemoveManifest`, `Finish`, `Abort` and
`Kill` are what a run does to these files; `Ends` is `record_run`, or a data dir
that cannot take the record. `CheckBegins` reads the manifests; `Verdicts` reads
the records and judges each job by rules 2 to 4 (`OwnReports`, `Latest`, `Judge`).
If several reports are equally new, the code takes the one listed first, and the
model either.

### Put and S3Upload

| variable | in the program |
|---|---|
| `client` | the locals of `put` and `call_with_retry`: the request it waits for and which attempt it is |
| `object`, `open`, `got` | the server: what is under the key, the uploads in progress and their parts |
| `late` | requests the client has given up that the server may still execute |
| `puts`, `made`, `faults`, `cuts` | bounded counters |
| `excuse` | history: what has gone wrong in this put |

`Answered` is a call that the server answers, `RequestLost`, `AnswerLost` and
`RequestDelayed` one that times out, before the server, after it, or on the way.
`Raises` is `call_with_retry` and then the `except` of the upload (`GivesUp`:
abort, once), `Head` the check of the size. What the server and the network do
is external to the program and modelled from how `s3.py` calls it.

### Snapshot and Restore

A backend maps its parts (tables, files, objects) to a version: 1 at the time of
the backup, 2 at the time of the restore, 0 for absent. What a source stages is
such a content under the name of its component and the extension of its kind.

| variable | in the program |
|---|---|
| `live[b]` | what the database, directory or bucket `b` holds |
| `job` | the job's configuration: its sources in order, encryption mode, whether it has an identity file, its buckets |
| `phase`, `source` | how far `run_job` is in making the snapshot |
| `staging`, `comps`, `errors` | the staging area, the components, whether the list of errors has an entry |
| `snap` | the archive with what is in it, and the components of its manifest |
| `gaps` | history: the parts of each source that a directory source passed over without a word |
| `data`, `held[b]` | archive and manifest in the data dir and in bucket `b`; `cut_off` is the temporary file of a killed download |
| `cmd` | the locals of the command: the call it makes next, the bucket, the keys to fetch, what it extracted, the component, `ok` |
| `commands`, `faults` | bounded counters |
| `before`, `rotten`, `cmd.disturbed` | history: the backends when the command began; whether storage decayed; whether something failed, was killed or was deleted during the command |

| steps | code |
|---|---|
| `SkipSource`, `ProduceSource`, `SourceReportsError`, `SourceRaises`, `Produced` | `_produce` with the `produce` of each source |
| `Encrypt`, `EncryptionFails` | `create_bundle`, `_maybe_encrypt`, `encrypt` |
| `TryBucket`, `ListingFails`, `NoBucketLeft`, `GetKey`, `GetFails`, `KeyGone`, `Hydrated` | `_hydrate_from_destinations`, `S3Destination.get` |
| `Open`, `Extract`, `DecryptionFails` | the checks of `restore_snapshot` and `verify_snapshot`, `_decrypt_if_needed`, `extract_bundle` |
| `PreRestoreHook`, `HookRaises`, `SkipComponent`, `ReplayComponent`, `NothingToReplay`, `ComponentFails`, `ComponentsDone`, `RestoreEnds` | the rest of `restore_snapshot`, `_restore_component`, the `restore` of each source |
| `Kill`, `Interference` | SIGKILL or power loss; retention, `prune` and the catch-up deleting copies, and bit rot |
| `Reconfigure` | another configuration when the next command starts |

A replay writes over what is there and removes nothing else (`Overlay`); one that
fails or is killed leaves any part of it (`CutShort`), but for a PostgreSQL dump.
`Shadows` says which component names a postgres source confuses with its own
(`<name>.*`). Of a directory source `ProduceSource` may lose some parts with a
warning and others without: a file in a directory that may be listed and not
searched (`is_file` is false, `sources/filesystem.py:103-104`), a `subdirs` root
that is missing (89-90), an unreadable `lost+found` (131-132). `JobStatus` is the
status the run has if its snapshot is stored everywhere.

`Found` is the first of `<id>.tar.gz*`. A download writes to
`<key>.<random suffix>` first, which sorts behind `<key>`, so the leftover of a
killed one is only found when the archive itself is gone.

### PostgresRestore

| variable | in the program |
|---|---|
| `live` | the objects of the target database |
| `dump` | the dump: its objects, the schemas it creates itself, custom or plain format |
| `old` | whether the server is PostgreSQL 16 or older |
| `pc`, `seen`, `plan`, `result` | the next call; the rows of the catalog query; the `Replacement`; how the restore ended |
| `ddl` | statements of other sessions (bounded) |
| `lost`, `restored`, `base` | history: whether a call failed or another session acted; what the replay created; what the target would hold without the restore |

`Listed`, `RelationSchemas`, `SnapshotSchemas`, `Partitioned`, `Absent`,
`Replaced`, `Plain`, `Stranger` and `Replacement` are the steps of
`plan_replacement`, one operator for each. `Prelude` is what `replacement_prelude`
drops. `PgRestore` is the plain `pg_restore --single-transaction`, `Apply` the
prelude and the script in one transaction, `Psql` a plain dump statement by
statement. What DROP ... CASCADE and the clean phase do (`Drops`, `CleanFails`)
is PostgreSQL's and external.

### Daemon

| variable | in the program |
|---|---|
| `daemon` | the process: `starting` (before `sched.start`), `running`, `draining` (in `shutdown(wait=True)`), `raising` (a second signal raised in the main thread; the interpreter waits for the worker threads), `exited`, `broken_off` (a third signal raised in that wait), `killed` |
| `waits` | the entries whose worker threads the main thread joins, as they were at work when the signal came |
| `now`, `code` | the job the loop of `run_all_now` is at, and the exit code |
| `run[e]` | the run of entry `e` (`job:`, `startup:` or the turn of a job in `create`): its next call, status, what it has recorded and sent, and whether its work dir could not be removed (`stuck`) |
| `dotWork`, `dirs`, `left` | `<data_dir>/.work`, the directories of runs in it, and whether earlier runs left theirs |
| `runs`, `faults` | bounded counters |

`MakeWorkDir`, `MakeParent`, `ParentMade`, `ParentGone` are the calls
`Path.mkdir(parents=True)` makes. `After` is the order of what follows: a run
that comes through cleans up, records, alerts and runs its last hooks, one that
raised records, alerts, cleans up and raises on. `RemovalFails` is
`rmtree(ignore_errors=True)` over what it cannot delete: the run goes on. `Admits`, `Deliver` and
`Alerted` are `AlertManager`. `Fire` starts a run of an entry whenever the
scheduler runs and the entry has none, which covers every trigger, coalescing
and misfiring. `Signal`, `Exit`, `SignalBreaksOff`, `KillDaemon` and `Restart`
are the life of the process: the handler calls `sched.shutdown(wait=True)` on each
signal, and since the scheduler has already stopped, that raises
`SchedulerNotRunningError` on all but the first. A second one unwinds the main
thread, and the exiting interpreter joins the workers; a third one raises inside
that join, which is given up, and the runs end with the process. `Create`, `NextJob` and `CreateEnds` the loop of `create` and `--now`.

### Abstractions

* `BackupRun` has one job and every step of its run; `SharedPlaces` has several
  jobs and takes the delivery as one step in which a snapshot reaches some of its
  places. That a job's run in `BackupRun` only sees its own snapshots is the
  `OneOwner` and `PlansSpareOthers` of `SharedPlaces`.
* A slug is a model value. Slugs of the jobs of one configuration are distinct:
  the documentation asks for it, no code checks it.
* `HealthCheck` leaves out pending markers (a plain id is judged as unmarked),
  rule 1 (the data dir is writable) and a configuration that does not load.
* `prune` is modelled without `--keep`, which replaces the job's count
  (`cli.py:255-256`), `--job` and `--dry-run`.
* `HealthCheck` always has a job. Without one the code judges all runs together
  (`healthcheck.py:157-159`); `Verdicts` would answer healthy.
* A run that a kill cuts off keeps nothing of its record and alerts in `Daemon`:
  no property asks for them. A channel that is skipped and one whose deliveries
  raise are alike to its properties: neither is reached.
* A download that is killed after its last byte and before its rename is left
  out of `Restore`: a leftover is always cut short.
* `S3Upload` leaves out the waits between attempts, a missing bucket, get, list
  and delete. A late request is executed in full or not at all.
* Two runs do not begin in the same second. The engine does not exclude it;
  such runs share their id, their work dir and their keys, and that is listed as
  a hazard no property covers yet.
* In `BackupRun` a source fails or does not, with or without a warning, and the
  work dir, the alert and the hooks are left out: nothing a later step there
  reads. They are `Snapshot`'s and `Daemon`'s subject.
* Only one command restores at a time, and no run of the daemon makes another
  snapshot in `Restore`; its deletions are `Interference`.
* A component's kind, as its manifest has it, is its source's: the code does not
  compare them at restore, and a job whose source changed its kind under the
  same name is left out.
* The database of `PostgresRestore` has objects, not rows: data is part of its
  table. Privileges, extensions and the encoding of names are left out.
* Destinations, and the snapshots a policy selects, are taken in any order; the
  code uses the order of the configuration. The deletions of one snapshot keep
  the code's order, since `ListedHasArchive` depends on it.

## Properties

* `OnlyPolicyRemoves` - the promise of the engine. A snapshot a run reported as
  stored has a complete copy somewhere unless a retention policy selected it.
  It relates four deleters, the failures of all earlier calls and the markers.
* `NewestSurvives` - smart_last, over all places together: each place protects
  its own newest snapshot, and copies move between places; still some complete
  snapshot at least as new as any ever stored is left.
* `ListedHasArchive` - what an S3 place lists, it can restore.
* `PendingOrOffsite` - what is not off-site is marked, so that a later run ships
  it. With a kill or an unguarded error it is false (see Limits), so it is
  claimed while there was none.
* `SuccessIsComplete`, `DataDirCleared` - what a `success` lets an operator
  believe about the places, the markers and the data dir.
* `SourceKeepsBackup` - the documented consequence of smart_last; false (see
  Findings).
* `RunsEnd` - each run ends.
* `OneOwner` - no snapshot has two owners, whatever earlier configurations left
  in a place. What one job's retention spares no other may decide about.
* `OneWriter` - jobs that share a place and begin in the same second write
  different files.
* `PlansSpareOthers` - what a run or `prune` has decided to delete, and deletes
  later, is not another configured job's, if its id or its marker says whose it
  is.
* `ShippedToOwner` - a pending snapshot only goes to places of its own job.
* `JobKeepsBackup` - a job with smart_last that ever stored a snapshot still has
  one, when jobs come and go around it (see Limits).
* `FailureShows` - when the newest run of a job failed and was recorded, the check
  does not answer healthy, whatever it read before.
* `StalenessShows` - nor when the newest run is older than the job allows.
* `GoodRunsAreHealthy` - over jobs whose newest runs are good, recorded and fresh
  the check answers healthy, though runs add and remove manifests while it reads.
* `ImplementsPut` - a put that returned has left the whole file, and nothing
  that arrives later changes it; each put ends.
* `UploadsAccountedFor` - no multipart upload is left open unless a lost call
  explains it.
* `RetriesOutlastFaults` - a put fails only for what retries cannot help.
* `SuccessHoldsEverything` - a snapshot whose run may say success has all of every
  enabled source, and is encrypted as the job says: failures, warnings and the
  plain fallback all find their way into one list. What a directory source does
  not see is excepted (`Due`, see Limits).
* `ChecksComeFirst` - no backend is touched before the archive hashed to its
  manifest, the selection was found restorable and the archive was decrypted,
  while others delete and replace the files that are checked.
* `SuccessIsRestored` - what a restore that says success has put back, part by
  part and backend by backend, and what it left alone (exceptions under Limits).
* `RefusedForAReason` - a restore or verify nobody disturbed refuses only when no
  place has the snapshot, or storage has damaged it: whatever failed or interrupted
  command, drop or run came before, the next one repairs it. One leftover is
  excepted, that of a killed download beside a manifest without archive
  (`Blocked`, see Limits).
* `AllOrNothing` - a custom dump is restored in full or not at all, through lost
  answers and statements of other sessions.
* `OthersKept`, `StrangerSpared` - what a restore may not drop: other schemas, and
  another application's database.
* `UpgradeIsUndone` - over what a newer version's migrations made of the database
  a restore succeeds and leaves nothing of them in the snapshot's schemas.
* `EndedRunsReport` - a run that ended in a live process left its record (unless
  that write failed), reached each working channel its level admits, and took its
  work dir away (unless the removal failed), whatever raised in it and
  whether it came through or not.
* `EveryRunRecords` - the same of the record, without the exception for a run that
  has no work dir; false (see Findings).
* `DrainCutsNothing`, `StopsWhenAsked` - a daemon that exits after one or two
  signals cut no run short, and it does exit.
* `ExitCodeTells` - what 0 and 1 of `create` say about the jobs, and that none runs
  behind one that raised.
* `ThinningIsExact` - retention applied after each run, interrupted or not,
  ends where one decision over the whole history would. It holds for GFS
  tiers because a checkpoint once given up is never wanted again.
* `NewestCountKept`, `NewestKept` - what count and smart_last promise about all
  snapshots ever taken, while each decision sees what is left.

## Runs

| run | instance | distinct states | why it is enough |
|---|---|---|---|
| `retention_history` | 8 time units, day 2, week 4, month 3 units, all 96 combinations of count 0..2, age 0 or 2 days, tiers (daily 0/2, weekly 0/1, monthly 0/2), smart_last | 209 thousand | four day buckets and three month buckets against tiers of at most two, so that buckets leave every tier; week and month boundaries do not coincide |
| `backup_run` | one process, 3 runs, one bucket, four shapes of a job (local, local and S3, S3 with the local copy dropped, S3-only with an age rule of one day); every call may fail, and one kill, unguarded error or lost record | 3.5 million | an outage (run 1), the catch-up (run 2) and retention over both (run 3) fit in three runs, with a reconfiguration between any two; three runs are also the least in which the age rule takes a snapshot |
| `backup_run_ends` | two buckets, 2 runs, the two off-site jobs, one break, a failed put of an archive may cut it short | 868 thousand | the second bucket makes an upload partial, the second run ships it, and clears the data dir or does not |
| `backup_run_overlap` | two processes, 3 runs, S3-only | 749 thousand | every interleaving of two runs that share data dir, bucket and markers, and a run after them; also the inductive invariant of the safety proof (`SafeDeletion`) |
| `backup_run_failing` | violation | | with `count` = 1 a good run and a failing one are enough |
| `shared_places` | two jobs, two buckets, 3 seconds; the second job added behind the first, or each with a bucket of its own; runs and `prune` interleaved | 1.8 million | a snapshot with a plain id, one with a slug, and a third that makes the policy (count 1) select; every pair of actors at a place |
| `healthcheck` | two jobs that share a data dir, one of which was alone before; 2 seconds, one kill or lost record, a check at any step | 520 thousand | a run and a newer one, a manifest on its way in or out, a record not there yet or never |
| `s3_upload` | 2 parts, 3 attempts instead of 5, 2 puts, 4 faults, 2 requests late at the same time, one cut object | 137 thousand | more faults than attempts, so that a put may fail by faults alone, and a put over the leftovers of another |
| `restore` | three jobs (PostgreSQL twice with a shadowing name, a disabled directory and an env source to one bucket; PostgreSQL and a directory, encrypted with age, to two; two PostgreSQL sources with one name, of which the second may take the first one's dump away), backends of two parts, 2 commands, 2 faults | 3.5 million | two parts make a replay partial, two buckets give hydration a choice, two commands let one find what the other left, two faults interrupt one and disturb the other; a part of the directory may be lost, with a warning or in silence |
| `postgres_restore` | 12 objects in three schemas: tables, a view, a type, foreign keys inside, into and out of the snapshot's schema, a partitioned table, another role's table; six dumps, every closed content, old and new servers, one foreign statement for each restore, restores without end | 713 thousand | each kind of difference the plan looks for, each way one can block the clean phase, and each dump over what another left |
| `daemon` | two jobs (a breaking and a working channel at level warnings, a skipped and a working one at level all), one startup entry, 2 starts of a run or of `create`, one fault, any number of signals | 378 thousand | two runs are what it takes to share `.work`; the fault is any raise, kill, lost record or removal that fails |
| `daemon_silent` | violation, without any fault | | two runs |

Properties share an instance where the questions live in the same states: a kill,
a partial upload and a failed delete are each possible at any step of
`backup_run` or `backup_run_ends`, so they need no instances of their own.

Deadlock is checked in every run but `s3_upload`, `daemon` and `daemon_silent`:
`Reconfigure`, a prune, a check or the next restore stays possible when a bound
is reached, so a state without successor would be a run that is stuck.
`s3_upload` stops after its last put, and a daemon that has exited, with `create`
at its end and the bound on the runs reached, has stopped as well; that puts and
runs come to an end is what `ImplementsPut` and `StopsWhenAsked` say.

`ArchiveLeft` and `ManifestLeft` say what a failed put may leave beside the old
state. In `backup_run` a manifest may be whole although its put failed (a late or
unanswered request), in `backup_run_ends` an archive may be cut short. Two
combinations are excluded, and are hazards in PROJECT.json without a property: a
torn manifest in the data dir (a full disk) is listed and protected as if it were
a snapshot, against `NewestSurvives`; and a manifest left whole by a failed put,
while two runs overlap, leaves a listed snapshot without its archive, against
`ListedHasArchive`.

Fairness. `RunsEnd` is checked under weak fairness of `Step(p)`, for each
process: every step is a call that returns or raises in bounded time. S3 calls
have the client's timeouts and `call_with_retry` stops after five attempts;
file operations return. `StopsWhenAsked` is checked under weak fairness of each
run's steps, of the interpreter's exit once no run is active, and of the loop of
`create`: dump commands and restores run with a `timeout`, alerts with
`HTTP_TIMEOUT_SECONDS` (`notify/base.py`) and the SMTP timeout. age and gpg have
no timeout (`encryption/engine.py:22`), nor have hooks: that they return or raise
is assumed, and one that hangs would hang its run. Kills, aborts by an `OSError`, signals, starts of
runs and reconfiguration are given no fairness. `S3Upload` assumes weak fairness
of `Answered`: a call is answered unless a fault ends it, and faults are bounded
as the attempts of one call are.

## Proofs

* `RetentionHistory_proofs`. For every calendar, every set of policies and every
  horizon: `Typing`; `SmartLast`, that the newest snapshot is kept; `CountKeeps`,
  that the newest `count` snapshots are; `ThinningHolds`, that thinning again and
  again ends where one decision would. The first three are inductive together;
  the argument rests on the lemmas that a selected snapshot is listed
  (`PrunableIsListed`), that the newest one listed is never selected
  (`NewestIsProtected`), and that a snapshot with fewer than `count` newer ones
  is not (`NewestCountIsSpared`), where the count over what is listed is at most
  the count over what was ever taken. `ThinningHolds` needs `SparedKept`: what a
  decision over the whole history would spare is still there. Two lemmas carry
  it. `SelectionGrows`: what was selected once is selected from every longer
  list and at every later time - a GFS tier drops buckets only at its old end,
  where it never takes one up again. `SelectionIsLocal`: on a list that still has
  what the whole history would spare, the selection is that of the whole history,
  cut to the list - the tier that spared a snapshot counts the same buckets in
  both, and its newest member of a bucket is in both.
* `BackupRun_proofs`, for every number of processes, buckets, runs and kills and
  every set of configurations, in layers that use each other. The actions are
  unfolded once: for each action `A` a lemma `ADoes` derives `AEffect`, which
  says from where to where the run goes and what is written or erased, and all
  layers but the first two argue from the effects. `Advance` and its likes reduce
  a step that changes one run, and nothing the others depend on, to facts about
  that run.
  * `Control` (in `BackupRunInvariant`), for `Typing`. `TypeOK` is not inductive
    alone: that a marker belongs to a stored snapshot needs what a run at `track`
    knows about its own snapshot. `Control` joins the type, `Shape` (what the
    position of a run says about its fields) and `Tracks` (what it says about the
    snapshots stored and marked so far), and that running processes have
    different ids.
  * `Holds`, for `StoredIsKept` and `DeletionIsSafe`. `Relies` says, for each
    position of a run, which copies it counts on (what it got, what it is about to
    mark shipped, where it may drop the local copy). Its lemmas sort the actions
    by what they do to the places: those that leave them alone (`AdvanceHolds`),
    those that remove a key (`RemovalHolds`: allowed when the snapshot was
    selected, or when another complete copy is known to exist that no other run
    may take away), and those that write one (`WritingHolds`). `Others` carries
    what the other processes count on over each of them.
  * `ListingOrder`, for `ListedIsHeld`: between the two puts the archive is there
    already, between the two deletions the manifest is gone or next.
  * `SuccessKept`, for `SuccessHolds`: a run without an error has left out no place
    and no pending snapshot so far (`Flawless`), its snapshot is the newest, so
    that no policy selects it (`Newest`), and it stays where it was stored (`Kept`).
  * `PendingKept`, for `PendingHolds`: a run about to mark its snapshot is the only
    one that knows of it (`Unmarked`), a marker goes only when its snapshot was
    found in a bucket or selected, and what a marker names can still be shipped.
  * `NewestKept`, for `NewestHolds`: for every listed or stored snapshot there is
    a complete one at least as new (`From`), and a newer one for every selected
    snapshot (`Above`). A policy protects the newest it lists, so what it selects
    has one above it; the places may then delete in any order.
  * `DataDirKept`, for `DataDirHolds`: each manifest in the data dir is marked or
    owed by the run that put it there (`Owes`).

  The hypotheses are those under which TLC checks the properties, and no more.
  `Sequential` (one process): `ListedIsHeld`, `SuccessHolds`, `DataDirHolds`.
  `Sequential \/ NothingTorn`: `StoredIsKept`, `PendingHolds`, since a run that
  ships a pending snapshot may otherwise read an archive another run has just
  torn. `WholeManifests` (`NothingTorn`, or one process and no torn manifest):
  `NewestHolds`. `ManifestLeft = {}`: `DataDirHolds`. Limits says what happens
  without them; `Typing` and `DeletionIsSafe` have none.

* `S3Upload_proofs`, for every number of parts, attempts, faults and late
  requests. `UploadIsPut`: every behaviour of `S3Upload` is, but for fairness, one
  of `Put`. Each step of the client, the server and the network is one of `Put`'s
  or a stutter; only the check of the size lets a put return, and what arrives
  later stores the whole file or nothing. The invariant (`Kinds`) is the shape of
  the client and that nothing is late before the first put. `OutlastsFaults` and
  `OpenUploadsAccountedFor` need to follow one upload through the protocol:
  `Numbered` (requests name uploads that were made, and each was paid for by a
  put or a fault), `Alive` (the upload that is being filled is open, unless it was
  completed unheard, and has the parts the client was told of), `Retried` (each
  attempt but the current one cost a fault) and `Accounted` (of the open uploads
  all but the current one are excused).
* `SharedPlaces_proofs`. For any number of jobs and places and any set of
  configurations in each of which the slugs are distinct: `Typing`, `SingleOwner`,
  `OthersSpared`, `WriterIsOne` and `OwnersShip`. `SingleOwner` is a fact about
  `Owns` (`OwnedByOne`) once the configuration is known to be one of them.
  `OthersSpared` needs more: plans are made now and executed later, and the
  markers change in between. The invariant `Inv` joins the types, with the
  position of `prune` among the jobs (`Positions`), and `Sparing`: a plan only has
  what was its job's own when it was made and may not have become another's
  (`Spares`), and a marker or a writer never contradicts the slug of an id
  (`Agree`). Markers that go away cannot hurt, and a marker is only put on a plain
  id where the configuration has one job, so a plan stays allowed until it is
  carried out. `Authored` adds who wrote what: an id of this second was written
  by the job whose run makes it (`Dated`), and a marker names the writer
  (`Signed`).

  `BackupRemains` (`JobKeepsBackup`) has the hypothesis `NothingTakenOver`: the
  slugs of all jobs differ, also of jobs that are never configured together;
  smart_last is not switched for a job; and the job that stored plain ids is the
  first to use the places where it left them. The invariant `Surviving` follows
  the snapshots of one job over all places: every snapshot on a list has a
  successor, a newer one of the job in the same place or, for the data dir, one
  in a bucket (`Succeeded`, `ListsOutlived`), and what a run will drop at its end
  is its own and off-site (`DropsOwn`). Each step is shown to leave a successor of
  everything it removes (`Lasting`), and a successor of a successor is one, so
  that lists made earlier, by other runs or by `prune`, stay harmless.
* `HealthCheck_proofs`, for any number of jobs, processes, runs and
  configurations, under the hypothesis `TellsApart`: runs of one job do not
  overlap, slugs and record files of different jobs differ, and plain ids in the
  data dir stay with the job that wrote them. `FailuresShow`, `StaleJobsShow` and
  `GoodRunsPass` follow from one invariant: a run that goes on is the newest of its
  job and the only one (`Busy`), a record is as new as the newest run if that one
  came to an end (`Recorded`), and every manifest there is, or the check has read,
  was written by a run at least as old as its job's newest (`Traced`). So a
  manifest, read before the record it is judged with, never speaks against it.
* `Restore_proofs`. For every configuration, any number of sources, buckets,
  commands and faults. The invariants share the layer `Typed` (the command, the
  data dir and the buckets are of their kind) and lemmas that say what each group
  of steps does to the command. `ChecksFirst` rests on `Checked`: from `extract`
  on the selection was restorable, from `pre_restore` on what was extracted is
  whole, and before that the backends are as they were; `HashMatches` alone would
  not do, since the archive may be deleted, but never torn, between the check of
  its hash and its extraction. `RefusesForAReason` rests on `Fetched`: a torn
  archive in the data dir means that hydration is not over yet, that its manifest
  is missing, or that storage has decayed; and behind the last bucket, or with both
  keys fetched, an undisturbed command has found the snapshot or knows that no
  bucket has it. So what it finds and refuses is damaged or a leftover in the
  archive's place. `SuccessIsWhole` rests on `StagedSoFar`: with no error so far,
  every enabled source before the current one has in the staging area a file with
  all it was due (which later gaps, of later sources, do not change), and distinct
  names keep later sources off it. `Typing` adds the backends and the archive (`Held`).
  `SuccessRestores` joins both ends: `Faithful`, that a file of the archive holds
  what its manifest's component was given, and `SoFar`, that the components behind
  the current one are restored and the backends of the others untouched.
* `PostgresRestore_proofs`. `Atomic`, `SparesOthers` and `SparesStranger` are
  proved together with the type and with `PlanInDump` (the plan names only what
  lies in the schemas of the dump), `Untouched` (nothing has changed the target
  while the plan is made) and `NoStranger`. CASCADE is dealt with by `On` being
  closed: what a drop takes along depends on something dropped. `UndoesUpgrade`
  needs the converse, that nothing is left in the way: `NothingInTheWay` shows
  for each object of an upgrade either that the prelude drops it or that the
  clean phase does not trip over it.
* `Daemon_proofs`. `Inductive`: the type, `RunsOK` (for each run, what its position
  says of its record, its alerts so far and its work dir), `DrainInv` (an active
  run has a live daemon, which joins its thread once it was told to stop, and only
  a kill or a third signal cuts one) and `NowInv` (which turns of `create`
  are behind it, and ended well while its loop goes on). `EveryEndReports`,
  `DrainsWhole` and `TellsTheEnd` follow from it. One lemma per group of actions;
  `OneRun` reduces the steps of one run to facts about that run.

The assumptions are those of the modules: `CalendarAssumption` (bucket lengths
are positive), `HistoryAssumption`, `BackupAssumption`, `OwnershipAssumption`,
`SharedAssumption`, `UploadAssumption`, `HealthAssumption`, `JobsAssumption`,
`SelectionsAssumption`, `BoundsAssumption` and `ConfigAssumption` (the types of
the constants, that the data dir is not a bucket, that jobs and the slugs in one
configuration are distinct), `ObjectsAssumption` (dependency is transitive),
`KeysAssumption` (a foreign key depends on the two tables it joins) and
`DumpsAssumption` (a dump holds what its objects depend on). The hypotheses some
theorems have beside them are operators of the models (`Sequential`, `NothingTorn`,
`NothingTakenOver`, `TellsApart`); the instances TLC checks satisfy them, which
`MCSharedPlaces` and `MCHealthCheck` assert.

Every invariant the passing runs check is a theorem. Only model-checked are the
liveness properties, since fairness and ENABLED are out of the prover's reach:
`RunsEnd`, `StopsWhenAsked`, and of `ImplementsPut` that a put ends. So is, by
their nature, that the two documented promises under Findings are violated. The
types of `Restore`, `PostgresRestore`, `Daemon`, `HealthCheck`, `S3Upload` and
`RetentionHistory` are proved and not checked in a run of their own.

## Findings

* `docs/retention.md:66` says retention "can never leave a source with zero
  backups". A snapshot whose component failed holds no data but has a manifest,
  so it counts as the newest and as one of `count`: after as many failing runs as
  `count` says no restorable snapshot of the source is left (`backup_run_failing`,
  where `count` is 1).
* `docs/deployment.md:110` says "every run, an aborted one included, writes" its
  record, and a comment (`runner.py:166-167`) that an aborted run must not fail
  silently. `run_job` makes its work dir in three `mkdir` calls before its guarded
  part (`runner.py:123-125`), and a run that ends removes the common `.work` as
  soon as it is empty (`runner.py:182-183`). When that happens between two of the
  calls, the new run raises with neither record nor alert, and the healthcheck
  judges by the run before (`daemon_silent`). The same silence follows when the
  directory cannot be made at all.

## Limits of what holds

Each of these is where a property stops, seen by TLC when the exception is taken
out of it.

* `PendingOrOffsite` and `DataDirCleared` are claimed while nothing was cut down.
  `docs/destinations.md:37` says a snapshot that should be off-site and is not is
  marked; the copy and the marker are two steps, and a run cut short between them
  leaves an unmarked copy.
* `SuccessIsComplete`, `ListedHasArchive` and `DataDirCleared` are claimed for runs
  in sequence: an overlapping run may prune or re-upload under the one that
  reports.
* `NewestSurvives` is claimed while no failed put leaves a manifest cut short. A
  local copy that runs into a full disk leaves one (`destinations/local.py:31`).
  It is listed, may be the newest, and is then what smart_last protects.
* `DataDirCleared` is claimed while a put of a manifest that raises leaves nothing
  new in the data dir (the copy is there, and then its mode or times cannot be
  set): no run stored that snapshot, so none clears it.
* `JobKeepsBackup` is claimed while `NothingTakenOver`. A job put before one that
  stored plain ids in a place both use takes them over, and its retention decides
  about them; the same happens when another job becomes the only one.
* `FailureShows` is claimed for runs that do not overlap (`Overlap`).
  `docs/deployment.md:76-77` says the check stays unhealthy until a newer run
  ends well; `record_run` replaces the record whatever it says, so the success of
  an older run that ends last hides the failure of a newer one.
* `FailureShows` and the other two are claimed while plain ids in the data dir stay
  with the job that wrote them (`TellsApart`), for the same reason.
* `FailureShows` is claimed for jobs whose record files differ (`RecordFile`).
  `docs/deployment.md:130-131` says a failed job keeps the container unhealthy
  whatever the other jobs do; `_job_file` (`state.py:59-61`) and the slugs of ids
  clean a name differently, so "db hourly" and "db_hourly" share one record.
* `SuccessIsRestored` excepts shadowed components: a postgres source replays the
  first file that matches `<name>.*` (`sources/postgres.py:295`), so next to a
  component `shop.archive` the restore of `shop` replays the dump of the former
  into the database of the latter, and succeeds. `docs/sources.md:18` says a
  component is matched by its name. Where two sources name one backend, the later
  component writes over the earlier, so those are excepted as well (`Alone`). It and
  `SuccessHoldsEverything` are stated for distinct names; nothing in the loader
  enforces them.
* `RefusedForAReason` excepts one leftover, in every encryption mode. A killed
  download leaves `<id>.tar.gz….<random suffix>` in the data dir, and nothing
  removes it. If the archive is not there and a manifest is (the kill came while
  the archive was fetched again beside a manifest that had stayed; or the archive
  went later), `_find_artifact` takes the leftover for the archive
  (`runner.py:340-342`), hydration is skipped (`runner.py:350-353`), its hash does
  not match, and every later `restore` and `verify` refuses although the buckets
  hold the snapshot, until somebody deletes the file. Beside an archive, or without
  a manifest, it does no harm: that is what the property says.
  And it is about commands that nothing disturbs: a download that fails ends the
  command although another bucket may hold the snapshot (only the listing is
  guarded, `runner.py:362-373`).
* `SuccessHoldsEverything` excepts what a directory source does not see (`gaps`).
  `docs/sources.md:249` says an entry "that the backup user cannot read is skipped,
  never silently", and that an unreadable `subdirs` entry is reported. But in a
  directory that may be listed and not searched `is_file` is false for every file,
  and a `subdirs` root below one, like one that is missing, does not exist: both
  are passed over and the run is a success (`sources/filesystem.py:89-90`,
  `103-104`). An unreadable `lost+found` is silent as well (131-132), as
  documented. Links to directories are neither followed nor archived.
* `EndedRunsReport` excepts a work dir that cannot be removed.
  `docs/destinations.md:33` says the staging area "is always removed", and
  `docs/deployment.md:48` that it is "removed after each run"; the removal ignores
  its errors (`runner.py:181`), and neither the record nor an alert tells that the
  plain archive stayed. A kill leaves it as well, and no later run clears it.
* `DrainCutsNothing` excepts a third signal. The handler promises to "WAIT for the
  running job to finish before exiting" (`scheduler.py:25-26`); it does so for two
  signals, and the third, raised while the interpreter joins the workers, cuts the
  runs off (`SignalBreaksOff`).
* `UpgradeIsUndone` excepts a table, view or sequence in a schema the dump creates
  but holds no relations of: unlike a routine or a type there it is not in
  `absent` (`sources/postgres.py:423-425`), so the restore fails on that schema
  when there is no other difference. The documented exceptions
  (`docs/sources.md:77`) are excepted too.
* The startup run of a daemon may be lost: its entry is due before the scheduler
  starts, and has the library's misfire grace of one second (`cli.py:104-106`).
  `Fire` never has to happen; nothing is promised about it.

## Not modelled, and the plan

Not modelled, because it is formatting, string processing or pure I/O without
state the other parts read: logging and redaction, loading and merging of
configuration files (`config/loader.py`), the payload of each alert channel,
discovery of plugins, `list`, `show` and `download`, the text of dumps (which
tables are excluded, routines of MySQL 26 and later, object tags), the scripts
and workflows around the image.

What a continuation would take up, in this order:

1. `Catalogue`: the abstract specification of the engine - a set of restorable
   snapshots, to which runs add and from which only a policy removes -
   implemented by `BackupRun`, as a theorem. Its safety half is `StoredIsKept`.
2. `HealthCheck` with pending markers and rule 1, and runs that begin in the
   same second.
3. The hazards without a property: above all what overlapping runs leave listed
   without its archive.
4. The precedence of file, environment and defaults in the configuration, as
   operators checked against a reference definition.

Out of reach of TLC and left out: the text of logs and alerts, the format of
bundles, the dump tools and the encryption programs. Out of reach of the prover:
liveness under fairness, and what recursive definitions compute.
