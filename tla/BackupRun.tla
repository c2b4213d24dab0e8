------------------------------ MODULE BackupRun ------------------------------
(***************************************************************************)
(* runner.run_job: one run of a backup job, step by step, from staging the *)
(* sources to the record it leaves for the healthcheck, over the places    *)
(* that hold its snapshots (the data dir and the S3 buckets). A process is *)
(* a thread or a program that executes runs of the job: the scheduled job, *)
(* the start-up job of the same daemon, and the --now or create command    *)
(* share the data dir and the buckets and take no lock.                    *)
(*                                                                         *)
(* Every call that changes a place or a file is a step of its own, may     *)
(* fail, and may be the last one before the process is killed. A snapshot  *)
(* id is the time of its run (two runs do not start in the same second).   *)
(***************************************************************************)
EXTENDS Retention

CONSTANTS
  Procs,         \* who executes runs of the job
  S3,            \* the S3 destinations with a bucket
  Local,         \* the data dir
  Jobs,          \* the configurations the job may have between daemon starts
  MaxRuns,       \* bound on the number of runs
  MaxBreaks,     \* bound on kills, unguarded errors and lost records
  Failures,      \* whether a source may fail completely: a subset of BOOLEAN
  ArchiveLeft,   \* what a failed put of an archive may leave under its key
  ManifestLeft   \* the same for a sidecar manifest

Places == S3 \cup {Local}

Sids == 1..MaxRuns

Condition == {"absent", "torn", "whole"}

Job == [local : BOOLEAN, s3 : SUBSET S3, keep_local : BOOLEAN,
        retention : RetentionConfig]

ASSUME BackupAssumption ==
  /\ Local \notin S3
  /\ Jobs \subseteq Job
  /\ MaxRuns \in Nat
  /\ MaxBreaks \in Nat
  /\ Failures \subseteq BOOLEAN
  /\ ArchiveLeft  \subseteq {"torn", "whole"}
  /\ ManifestLeft \subseteq {"torn", "whole"}

VARIABLES
  job,        \* the configuration in force
  clock,      \* time: the id of the last run begun
  archive,    \* archive[d][s]: <s>.tar.gz at place d
  manifest,   \* manifest[d][s]: <s>.manifest.json at place d
  markers,    \* the snapshots with an <s>.offsite-pending.json in the data dir
  run,        \* run[p]: the local state of the run p executes
  last,       \* the job's run record in <data dir>/.state
  stored,     \* history: runs that reported their snapshot stored somewhere
  due,        \* history: those whose job had an S3 destination
  good,       \* history: those that lack no component
  pruned,     \* history: snapshots a retention policy selected
  breaks      \* kills, unguarded errors and lost records so far

env     == <<job, clock, last, breaks>>
places  == <<archive, manifest, markers>>
history == <<stored, due, good, pruned>>
vars    == <<job, clock, archive, manifest, markers, run, last,
             stored, due, good, pruned, breaks>>

-----------------------------------------------------------------------------
(* What the places hold *)

Listed(d) == {s \in Sids : manifest[d][s] # "absent"}

Complete(d, s) == archive[d][s] = "whole" /\ manifest[d][s] = "whole"

Restorable(s) == \E d \in Places : Complete(d, s)

Keys(d, s) ==
  {k \in {"manifest", "marker", "archive"} :
     \/ k = "manifest" /\ manifest[d][s] # "absent"
     \/ k = "marker"   /\ d = Local /\ s \in markers
     \/ k = "archive"  /\ archive[d][s] # "absent"}

Snaps(sids) == {[id |-> s, when |-> s] : s \in sids}

KeepsLocal(j) == j.keep_local /\ j.local

-----------------------------------------------------------------------------
(* The local state of a run *)

Status == {"none", "success", "warning", "error"}

Run ==
  [pc       : {"idle", "produce", "connect", "archive", "sidecar", "track",
               "ship", "clear archive", "clear manifest", "retain", "prune",
               "delete", "drop", "drop manifest", "record"},
   sid      : 0..MaxRuns,
   failed   : BOOLEAN,             \* a component failed completely
   errors   : BOOLEAN,             \* the error list is not empty
   dests    : SUBSET Places,       \* delivery.destinations
   stored   : SUBSET Places,       \* delivery.stored
   phase    : {"deliver", "fallback", "ship"},   \* the caller of _upload
   item     : 0..MaxRuns,          \* the snapshot being uploaded or deleted
   at       : Places,              \* the place being written or pruned
   queue    : SUBSET Places,       \* the places still to go
   got      : SUBSET Places,       \* the places that stored the item
   todo     : SUBSET Sids,         \* pending snapshots still to ship
   plan     : SUBSET Sids,         \* snapshots still to delete at this place
   keys     : SUBSET {"manifest", "marker", "archive"}]

Idle ==
  [pc |-> "idle", sid |-> 0, failed |-> FALSE, errors |-> FALSE,
   dests |-> {}, stored |-> {}, phase |-> "deliver",
   item |-> 0, at |-> Local, queue |-> {}, got |-> {}, todo |-> {},
   plan |-> {}, keys |-> {}]

TypeOK ==
  /\ job \in Jobs
  /\ clock \in 0..MaxRuns
  /\ archive  \in [Places -> [Sids -> Condition]]
  /\ manifest \in [Places -> [Sids -> Condition]]
  /\ markers \subseteq stored
  /\ run \in [Procs -> Run]
  /\ last \in [sid : 0..MaxRuns, status : Status]
  /\ stored \subseteq Sids /\ due \subseteq stored /\ good \subseteq stored
  /\ pruned \subseteq Sids
  /\ breaks \in 0..MaxBreaks

Init ==
  /\ job \in Jobs
  /\ clock = 0
  /\ archive  = [d \in Places |-> [s \in Sids |-> "absent"]]
  /\ manifest = [d \in Places |-> [s \in Sids |-> "absent"]]
  /\ markers = {}
  /\ run = [p \in Procs |-> Idle]
  /\ last = [sid |-> 0, status |-> "none"]
  /\ stored = {} /\ due = {} /\ good = {} /\ pruned = {}
  /\ breaks = 0

At(p, pc) == run[p].pc = pc

Becomes(p, r) == run' = [run EXCEPT ![p] = r]

-----------------------------------------------------------------------------
(* Staging: hooks, sources, bundle, encryption *)

Begin(p) ==
  /\ At(p, "idle")
  /\ clock < MaxRuns
  /\ clock' = clock + 1
  /\ Becomes(p, [run[p] EXCEPT !.pc = "produce", !.sid = clock + 1])
  /\ UNCHANGED <<job, places, last, history, breaks>>

\* A failed component is also an error; a skipped file or a failed encryption
\* is an error only.
Produce(p) ==
  /\ At(p, "produce")
  /\ \E failed \in Failures, warned \in BOOLEAN :
       Becomes(p, [run[p] EXCEPT !.pc = "connect", !.failed = failed,
                                 !.errors = failed \/ warned])
  /\ UNCHANGED <<env, places, history>>

\* The run's outcome for the healthcheck. A data dir that cannot take it never
\* fails the run: the previous record stays.
RecordState(sid, status) ==
  \/ last' = [sid |-> sid, status |-> status] /\ UNCHANGED breaks
  \/ breaks < MaxBreaks /\ breaks' = breaks + 1 /\ UNCHANGED last

\* A raising pre_backup hook, or a disk that fills up while bundling.
AbortRun(p) ==
  /\ At(p, "produce")
  /\ RecordState(run[p].sid, "error")
  /\ Becomes(p, Idle)
  /\ UNCHANGED <<job, clock, places, history>>

-----------------------------------------------------------------------------
(* Delivery *)

\* Mutant: an S3 destination that cannot be built is passed over silently.
ConnectQuietly(p) ==
  /\ At(p, "connect")
  /\ \E up \in SUBSET job.s3 :
       LET built == up \cup (IF job.local THEN {Local} ELSE {})
           dests == IF built = {} /\ job.s3 = {} THEN {Local} ELSE built
       IN  Becomes(p, [run[p] EXCEPT !.pc = "archive", !.phase = "deliver",
                                     !.item = run[p].sid, !.dests = dests,
                                     !.queue = dests, !.got = {}])
  /\ UNCHANGED <<env, places, history>>

\* An S3 destination that cannot be built is an error; with nothing configured
\* the data dir is the silent default.
Connect(p) ==
  /\ At(p, "connect")
  /\ \E up \in SUBSET job.s3 :
       LET built == up \cup (IF job.local THEN {Local} ELSE {})
           dests == IF built = {} /\ job.s3 = {} THEN {Local} ELSE built
       IN  Becomes(p, [run[p] EXCEPT !.pc = "archive", !.phase = "deliver",
                                     !.item = run[p].sid, !.dests = dests,
                                     !.queue = dests, !.got = {},
                                     !.errors = @ \/ up # job.s3])
  /\ UNCHANGED <<env, places, history>>

\* What is uploaded: the files of the work dir, or a pending snapshot's files
\* in the data dir, which another process may have removed.
ArchiveSource(p) ==
  IF run[p].phase = "ship" THEN archive[Local][run[p].item] ELSE "whole"

ManifestSource(p) ==
  IF run[p].phase = "ship" THEN manifest[Local][run[p].item] ELSE "whole"

PutArchive(p, d) ==
  /\ At(p, "archive")
  /\ d \in run[p].queue
  /\ ArchiveSource(p) # "absent"
  /\ archive' = [archive EXCEPT ![d][run[p].item] = ArchiveSource(p)]
  /\ Becomes(p, [run[p] EXCEPT !.pc = "sidecar", !.at = d])
  /\ UNCHANGED <<env, manifest, markers, history>>

PutSidecar(p) ==
  /\ At(p, "sidecar")
  /\ ManifestSource(p) # "absent"
  /\ manifest' = [manifest EXCEPT ![run[p].at][run[p].item] = ManifestSource(p)]
  /\ Becomes(p, [run[p] EXCEPT !.pc = "archive", !.at = Local,
                               !.queue = @ \ {run[p].at},
                               !.got = @ \cup {run[p].at}])
  /\ UNCHANGED <<env, archive, markers, history>>

\* A put that raises: the object may be missing or as it was, stored in full
\* (only the check of its size failed), or cut short. The destination is
\* given up for this snapshot.
ArchivePutFails(p, d) ==
  /\ At(p, "archive")
  /\ d \in run[p].queue
  /\ \/ UNCHANGED archive
     \/ /\ ArchiveSource(p) # "absent"
        /\ \E left \in ArchiveLeft :
             archive' = [archive EXCEPT ![d][run[p].item] =
                           IF left = "whole" THEN ArchiveSource(p) ELSE left]
  /\ Becomes(p, [run[p] EXCEPT !.queue = @ \ {d}, !.errors = TRUE])
  /\ UNCHANGED <<env, manifest, markers, history>>

\* Mutant: the archive alone counts as stored.
SidecarFailureIgnored(p) ==
  /\ At(p, "sidecar")
  /\ Becomes(p, [run[p] EXCEPT !.pc = "archive", !.at = Local,
                               !.queue = @ \ {run[p].at}, !.errors = TRUE,
                               !.got = @ \cup {run[p].at}])
  /\ UNCHANGED <<env, places, history>>

SidecarPutFails(p) ==
  /\ At(p, "sidecar")
  /\ \/ UNCHANGED manifest
     \/ /\ ManifestSource(p) # "absent"
        /\ \E left \in ManifestLeft :
             manifest' = [manifest EXCEPT ![run[p].at][run[p].item] =
                            IF left = "whole" THEN ManifestSource(p) ELSE left]
  /\ Becomes(p, [run[p] EXCEPT !.pc = "archive", !.at = Local,
                               !.queue = @ \ {run[p].at}, !.errors = TRUE])
  /\ UNCHANGED <<env, archive, markers, history>>

Uploaded(p, phase) ==
  At(p, "archive") /\ run[p].queue = {} /\ run[p].phase = phase

\* Destinations are configured, none stored the snapshot and the data dir is not
\* among them: the data dir stands in.
FallBack(p) ==
  /\ Uploaded(p, "deliver")
  /\ run[p].got = {} /\ Local \notin run[p].dests
  /\ Becomes(p, [run[p] EXCEPT !.phase = "fallback", !.queue = {Local}])
  /\ UNCHANGED <<env, places, history>>

Delivered(p) ==
  /\ \/ Uploaded(p, "fallback")
     \/ Uploaded(p, "deliver") /\ (run[p].got # {} \/ Local \in run[p].dests)
  /\ Becomes(p, [run[p] EXCEPT !.pc = "track", !.stored = run[p].got,
                               !.got = {}, !.item = 0])
  /\ LET new == IF run[p].got # {} THEN {run[p].sid} ELSE {}
     IN  /\ stored' = stored \cup new
         /\ due'    = IF job.s3 # {} THEN due \cup new ELSE due
         /\ good'   = IF run[p].failed THEN good ELSE good \cup new
  /\ UNCHANGED <<env, places, pruned>>

-----------------------------------------------------------------------------
(* The off-site copy across an outage (_track_offsite) *)

\* Mutant: the destinations tried instead of those that stored the snapshot.
OffsiteTried(p) == run[p].dests \ {Local}

Offsite(p) == run[p].stored \ {Local}

\* delivery.fallback: the data dir is not a destination, it only stood in.
StoodIn(p) == run[p].phase = "fallback"

\* Mutant: a snapshot no place took is marked pending.
MarkUnstored(p) ==
  /\ At(p, "track")
  /\ Offsite(p) = {}
  /\ markers' = IF job.s3 # {} THEN markers \cup {run[p].sid} ELSE markers
  /\ LET standIn == IF StoodIn(p) THEN {Local} ELSE {}
     IN  Becomes(p, [run[p] EXCEPT !.pc = "retain", !.queue = run[p].dests \cup standIn])
  /\ UNCHANGED <<env, archive, manifest, history>>

\* Mutant: only a snapshot the data dir stood in for is marked pending.
MarkStoodInOnly(p) ==
  /\ At(p, "track")
  /\ Offsite(p) = {}
  /\ markers' = IF StoodIn(p) /\ run[p].stored # {}
                THEN markers \cup {run[p].sid} ELSE markers
  /\ LET standIn == IF StoodIn(p) THEN {Local} ELSE {}
     IN  Becomes(p, [run[p] EXCEPT !.pc = "retain", !.queue = run[p].dests \cup standIn])
  /\ UNCHANGED <<env, archive, manifest, history>>

MarkPending(p) ==
  /\ At(p, "track")
  /\ Offsite(p) = {}
  /\ markers' = IF job.s3 # {} /\ run[p].stored # {}
                THEN markers \cup {run[p].sid} ELSE markers
  /\ LET standIn == IF StoodIn(p) THEN {Local} ELSE {}
     IN  Becomes(p, [run[p] EXCEPT !.pc = "retain", !.queue = run[p].dests \cup standIn])
  /\ UNCHANGED <<env, archive, manifest, history>>

CatchUp(p) ==
  /\ At(p, "track")
  /\ Offsite(p) # {}
  /\ Becomes(p, [run[p] EXCEPT !.pc = "ship", !.todo = markers])
  /\ UNCHANGED <<env, places, history>>

NextPending(p, s) ==
  /\ At(p, "ship")
  /\ s \in run[p].todo
  /\ \A t \in run[p].todo : s <= t

\* Pruned or removed in the meantime: only the marker is left.
ForgetPending(p) ==
  /\ \E s \in run[p].todo :
       /\ NextPending(p, s)
       /\ archive[Local][s] = "absent" \/ manifest[Local][s] = "absent"
       /\ markers' = markers \ {s}
       /\ Becomes(p, [run[p] EXCEPT !.todo = @ \ {s}])
  /\ UNCHANGED <<env, archive, manifest, history>>

ShipPending(p) ==
  /\ \E s \in run[p].todo :
       /\ NextPending(p, s)
       /\ archive[Local][s] # "absent" /\ manifest[Local][s] # "absent"
       /\ Becomes(p, [run[p] EXCEPT !.pc = "archive", !.phase = "ship",
                                    !.item = s, !.queue = Offsite(p),
                                    !.got = {}, !.todo = @ \ {s}])
  /\ UNCHANGED <<env, places, history>>

\* Mutant: the marker goes although the upload failed.
StaysUnmarked(p) ==
  /\ Uploaded(p, "ship")
  /\ run[p].got # Offsite(p)
  /\ markers' = markers \ {run[p].item}
  /\ Becomes(p, [run[p] EXCEPT !.pc = "ship", !.errors = TRUE, !.got = {},
                               !.item = 0])
  /\ UNCHANGED <<env, archive, manifest, history>>

\* Mutant: the run tries the snapshot again at once.
RetriesAtOnce(p) ==
  /\ Uploaded(p, "ship")
  /\ run[p].got # Offsite(p)
  /\ Becomes(p, [run[p] EXCEPT !.pc = "ship", !.errors = TRUE, !.got = {},
                               !.item = 0, !.todo = @ \cup {run[p].item}])
  /\ UNCHANGED <<env, places, history>>

\* Not every off-site destination of this run took it: it stays pending.
StaysPending(p) ==
  /\ Uploaded(p, "ship")
  /\ run[p].got # Offsite(p)
  /\ Becomes(p, [run[p] EXCEPT !.pc = "ship", !.errors = TRUE, !.got = {},
                               !.item = 0])
  /\ UNCHANGED <<env, places, history>>

\* Mutant: shipped whatever the upload came to.
ShippedRegardless(p) ==
  /\ Uploaded(p, "ship")
  /\ markers' = markers \ {run[p].item}
  /\ LET next == IF KeepsLocal(job) THEN "ship" ELSE "clear archive"
     IN  Becomes(p, [run[p] EXCEPT !.pc = next, !.got = {}])
  /\ UNCHANGED <<env, archive, manifest, history>>

Shipped(p) ==
  /\ Uploaded(p, "ship")
  /\ run[p].got = Offsite(p)
  /\ markers' = markers \ {run[p].item}
  /\ LET next == IF KeepsLocal(job) THEN "ship" ELSE "clear archive"
     IN  Becomes(p, [run[p] EXCEPT !.pc = next, !.got = {}])
  /\ UNCHANGED <<env, archive, manifest, history>>

\* The job keeps no local copy: the artifact goes, then the sidecar.
ClearArchive(p) ==
  /\ At(p, "clear archive")
  /\ archive' = [archive EXCEPT ![Local][run[p].item] = "absent"]
  /\ Becomes(p, [run[p] EXCEPT !.pc = "clear manifest"])
  /\ UNCHANGED <<env, manifest, markers, history>>

\* Mutant: the sidecar is forgotten.
ClearArchiveOnly(p) ==
  /\ At(p, "clear manifest")
  /\ Becomes(p, [run[p] EXCEPT !.pc = "ship", !.item = 0])
  /\ UNCHANGED <<env, places, history>>

ClearManifest(p) ==
  /\ At(p, "clear manifest")
  /\ manifest' = [manifest EXCEPT ![Local][run[p].item] = "absent"]
  /\ Becomes(p, [run[p] EXCEPT !.pc = "ship", !.item = 0])
  /\ UNCHANGED <<env, archive, markers, history>>

CaughtUp(p) ==
  /\ At(p, "ship")
  /\ run[p].todo = {}
  /\ Becomes(p, [run[p] EXCEPT !.pc = "retain", !.queue = run[p].dests])
  /\ UNCHANGED <<env, places, history>>

-----------------------------------------------------------------------------
(* Retention, one destination after the other (_apply_retention) *)

\* What the policy judges at d: every snapshot listed there, or, where the data
\* dir only stood in, this job's pending ones.
Candidates(p, d) ==
  IF d = Local /\ StoodIn(p) THEN Listed(d) \cap markers ELSE Listed(d)

NextPlace(p, d) ==
  /\ At(p, "retain")
  /\ d \in run[p].queue
  /\ d = Local /\ StoodIn(p) => run[p].queue = {Local}

SelectSnapshots(p, d) ==
  /\ NextPlace(p, d)
  /\ Becomes(p, [run[p] EXCEPT !.pc = "prune", !.at = d, !.queue = @ \ {d},
                               !.plan = SelectPrunable(Snaps(Candidates(p, d)), job.retention, run[p].sid)])
  /\ UNCHANGED <<env, places, history>>

PruneSnapshot(p, s) ==
  /\ At(p, "prune")
  /\ s \in run[p].plan
  /\ LET keys == Keys(run[p].at, s)
     IN  Becomes(p, [run[p] EXCEPT !.pc = IF keys = {} THEN "prune" ELSE "delete",
                                   !.item = s, !.keys = keys, !.plan = @ \ {s}])
  /\ pruned' = pruned \cup {s}
  /\ UNCHANGED <<env, places, stored, due, good>>

\* Mutant: the archive goes first.
ArchiveFirst(keys) ==
  IF "archive" \in keys THEN "archive"
  ELSE IF "marker" \in keys THEN "marker" ELSE "manifest"

\* The keys of a snapshot come sorted: its manifest, its marker, its archive.
FirstKey(keys) ==
  IF "manifest" \in keys THEN "manifest"
  ELSE IF "marker" \in keys THEN "marker" ELSE "archive"

DeleteKey(p) ==
  /\ At(p, "delete")
  /\ LET d == run[p].at
         s == run[p].item
         k == FirstKey(run[p].keys)
     IN  /\ manifest' = IF k = "manifest"
                        THEN [manifest EXCEPT ![d][s] = "absent"] ELSE manifest
         /\ markers'  = IF k = "marker" THEN markers \ {s} ELSE markers
         /\ archive'  = IF k = "archive"
                        THEN [archive EXCEPT ![d][s] = "absent"] ELSE archive
         /\ Becomes(p, [run[p] EXCEPT !.pc = IF run[p].keys = {k} THEN "prune" ELSE "delete",
                                      !.keys = @ \ {k}])
  /\ UNCHANGED <<env, history>>

PlacePruned(p) ==
  /\ At(p, "prune")
  /\ run[p].plan = {}
  /\ Becomes(p, [run[p] EXCEPT !.pc = "retain", !.at = Local, !.item = 0])
  /\ UNCHANGED <<env, places, history>>

\* A listing or a delete that raises ends the retention of that place.
ListingFails(p, d) ==
  /\ NextPlace(p, d)
  /\ Becomes(p, [run[p] EXCEPT !.queue = @ \ {d}, !.errors = TRUE])
  /\ UNCHANGED <<env, places, history>>

DeletionFails(p) ==
  /\ At(p, "delete") \/ (At(p, "prune") /\ run[p].plan # {})
  /\ Becomes(p, [run[p] EXCEPT !.pc = "retain", !.at = Local, !.item = 0,
                               !.plan = {}, !.keys = {}, !.errors = TRUE])
  /\ UNCHANGED <<env, places, history>>

RetentionDone(p) ==
  /\ At(p, "retain")
  /\ run[p].queue = {}
  /\ Becomes(p, [run[p] EXCEPT !.pc = "drop"])
  /\ UNCHANGED <<env, places, history>>

-----------------------------------------------------------------------------
(* keep_local = false (_maybe_drop_local) *)

\* Mutant: whether an off-site place has the snapshot is not asked.
DropsOnlyCopy(p) == ~job.keep_local /\ job.local /\ Local \in run[p].stored

DropsLocal(p) ==
  ~job.keep_local /\ job.local /\ Local \in run[p].stored /\ Offsite(p) # {}

DropLocalArchive(p) ==
  /\ At(p, "drop")
  /\ DropsLocal(p)
  /\ archive' = [archive EXCEPT ![Local][run[p].sid] = "absent"]
  /\ Becomes(p, [run[p] EXCEPT !.pc = "drop manifest"])
  /\ UNCHANGED <<env, manifest, markers, history>>

DropLocalManifest(p) ==
  /\ At(p, "drop manifest")
  /\ manifest' = [manifest EXCEPT ![Local][run[p].sid] = "absent"]
  /\ Becomes(p, [run[p] EXCEPT !.pc = "record"])
  /\ UNCHANGED <<env, archive, markers, history>>

KeepLocalCopy(p) ==
  /\ At(p, "drop")
  /\ ~DropsLocal(p)
  /\ LET kept == ~job.keep_local /\ job.local /\ Local \in run[p].stored
     IN  Becomes(p, [run[p] EXCEPT !.pc = "record", !.errors = @ \/ kept])
  /\ UNCHANGED <<env, places, history>>

-----------------------------------------------------------------------------
(* The end of a run *)

\* Mutant: stored is success, whatever went wrong.
StoredIsSuccess(r) == IF r.stored = {} \/ r.failed THEN "error" ELSE "success"

JobStatus(r) ==
  IF r.stored = {} \/ r.failed THEN "error"
  ELSE IF r.errors THEN "warning" ELSE "success"

Record(p) ==
  /\ At(p, "record")
  /\ RecordState(run[p].sid, JobStatus(run[p]))
  /\ Becomes(p, Idle)
  /\ UNCHANGED <<job, clock, places, history>>

\* SIGKILL, power loss, or the container's memory limit.
Kill(p) ==
  /\ ~At(p, "idle")
  /\ breaks < MaxBreaks
  /\ breaks' = breaks + 1
  /\ Becomes(p, Idle)
  /\ UNCHANGED <<job, clock, places, last, history>>

\* Writing a marker or unlinking a file in the data dir is not guarded: an
\* OSError aborts the run although its snapshot is stored.
AbortStoredRun(p) ==
  /\ \/ At(p, "track") /\ Offsite(p) = {} /\ job.s3 # {} /\ run[p].stored # {}
     \/ At(p, "ship") /\ run[p].todo # {}
     \/ Uploaded(p, "ship") /\ run[p].got = Offsite(p)
     \/ At(p, "clear archive") \/ At(p, "clear manifest")
     \/ At(p, "drop") /\ DropsLocal(p)
     \/ At(p, "drop manifest")
  /\ breaks < MaxBreaks
  /\ breaks' = breaks + 1
  /\ last' \in {last, [sid |-> run[p].sid, status |-> "error"]}
  /\ Becomes(p, Idle)
  /\ UNCHANGED <<job, clock, places, history>>

\* The daemon is started again with another configuration.
Reconfigure ==
  /\ \A p \in Procs : At(p, "idle")
  /\ job' \in Jobs
  /\ UNCHANGED <<clock, places, run, last, history, breaks>>

Step(p) ==
  \/ Produce(p) \/ AbortRun(p) \/ Connect(p)
  \/ \E d \in Places : PutArchive(p, d) \/ ArchivePutFails(p, d)
  \/ PutSidecar(p) \/ SidecarPutFails(p)
  \/ FallBack(p) \/ Delivered(p)
  \/ MarkPending(p) \/ CatchUp(p) \/ ForgetPending(p) \/ ShipPending(p)
  \/ StaysPending(p) \/ Shipped(p) \/ ClearArchive(p) \/ ClearManifest(p) \/ CaughtUp(p)
  \/ \E d \in Places : SelectSnapshots(p, d) \/ ListingFails(p, d)
  \/ \E s \in Sids : PruneSnapshot(p, s)
  \/ DeleteKey(p) \/ DeletionFails(p) \/ PlacePruned(p) \/ RetentionDone(p)
  \/ DropLocalArchive(p) \/ DropLocalManifest(p) \/ KeepLocalCopy(p) \/ Record(p)

Next ==
  \/ Reconfigure
  \/ \E p \in Procs : Begin(p) \/ Step(p) \/ Kill(p) \/ AbortStoredRun(p)

Spec == Init /\ [][Next]_vars

FairSpec == Spec /\ \A p \in Procs : WF_vars(Step(p))
-----------------------------------------------------------------------------
(***************************************************************************)
(* What a snapshot is lost to: once a run reported it stored, only a       *)
(* retention policy that selected it may take its last complete copy, no   *)
(* catch-up, no dropped local copy, no kill in between (docs/destinations: *)
(* "the only copy is never deleted").                                      *)
(***************************************************************************)
OnlyPolicyRemoves == \A s \in stored : Restorable(s) \/ s \in pruned

(***************************************************************************)
(* smart_last over every place at once: some complete snapshot at least as *)
(* new as the newest one ever stored is always left, whatever each place   *)
(* lists and however the policies of the places and the moves between them *)
(* interleave.                                                             *)
(***************************************************************************)
NewestSurvives ==
  (\A j \in Jobs : j.retention.smart_last) =>
    \A s \in stored : \E t \in Sids : t >= s /\ Restorable(t)

(***************************************************************************)
(* What an S3 place lists it also holds: the archive is put before the     *)
(* manifest and deleted after it, so no failure or kill in between leaves  *)
(* a listed snapshot without its archive.                                  *)
(***************************************************************************)
ListedHasArchive == \A d \in S3 : \A s \in Listed(d) : archive[d][s] # "absent"

Running(s) == \E p \in Procs : ~At(p, "idle") /\ run[p].sid = s

OnS3(s) == \E d \in S3 : Complete(d, s)

(***************************************************************************)
(* A snapshot that should be off-site and is not is marked pending as soon *)
(* as its run is over, and stays so until an S3 place has it or a policy   *)
(* selected it (docs/destinations.md, catching up after an outage). One    *)
(* run that is cut short refutes it.                                       *)
(***************************************************************************)
PendingOrOffsite ==
  breaks = 0 => \A s \in due : OnS3(s) \/ s \in markers \/ s \in pruned \/ Running(s)

(***************************************************************************)
(* A run that reports success has put its snapshot, complete, in every     *)
(* place of the job's configuration that it keeps, and left none of the    *)
(* job's snapshots pending.                                                *)
(***************************************************************************)
SuccessIsComplete ==
  \A p \in Procs : At(p, "record") /\ JobStatus(run[p]) = "success" =>
    /\ \A d \in job.s3 : Complete(d, run[p].sid)
    /\ KeepsLocal(job) \/ job.s3 = {} => Complete(Local, run[p].sid)
    /\ job.s3 # {} => markers = {}

(***************************************************************************)
(* A job that keeps no local copies leaves the data dir free of snapshots  *)
(* once a run succeeded (docs/destinations.md: "no snapshot is left in the *)
(* data dir once S3 is back").                                             *)
(***************************************************************************)
DataDirCleared ==
  breaks = 0 /\ (\A j \in Jobs : j.s3 # {} /\ ~KeepsLocal(j)) =>
    \A p \in Procs : At(p, "record") /\ JobStatus(run[p]) = "success" =>
      Listed(Local) = {}

(***************************************************************************)
(* A source that was ever backed up stays backed up: some restorable       *)
(* snapshot holds all its components (docs/retention.md: smart-last means  *)
(* "retention can never leave a source with zero backups").                *)
(***************************************************************************)
SourceKeepsBackup == good # {} => \E s \in good : Restorable(s)

(***************************************************************************)
(* Every run comes to its end: it leaves a record or aborts.               *)
(***************************************************************************)
RunsEnd == \A p \in Procs : ~At(p, "idle") ~> At(p, "idle")
=============================================================================
