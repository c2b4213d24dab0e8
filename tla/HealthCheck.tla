------------------------------ MODULE HealthCheck ------------------------------
(***************************************************************************)
(* The healthcheck (healthcheck.py) over what runs leave for it: the run   *)
(* record of each job (state.py), the manifests in the data dir and the    *)
(* recorded start of the daemon. Runs write and remove these files while   *)
(* the check, a process of its own, reads first the manifests and then the *)
(* records, and judges each configured job.                                *)
(***************************************************************************)
EXTENDS Ownership, FiniteSets

CONSTANTS
  Procs,        \* who executes runs
  Configs,      \* the configurations the daemon may be started with
  Files,        \* the names of record files
  RecordFile,   \* RecordFile[n]: _job_file for job n
  Overlap,      \* whether two runs of one job may overlap
  MaxTime,      \* bound on time
  MaxLost       \* bound on kills and on records that cannot be written

Job == [name : Names, s3 : SUBSET S3, local : BOOLEAN, keep_local : BOOLEAN,
        max_age : Nat]

ASSUME HealthAssumption ==
  /\ Configs \subseteq Seq(Job)
  /\ \A c \in Configs : DistinctNames(c)
  /\ RecordFile \in [Names -> Files]
  /\ Overlap \in BOOLEAN
  /\ MaxTime \in Nat \ {0} /\ MaxLost \in Nat

\* The names are as distinct as the documentation asks (docs/configuration.md),
\* two runs of one job do not overlap, and plain ids in the data dir stay with
\* the only job of the configuration that made them when jobs are added to it.
TellsApart ==
  /\ ~Overlap
  /\ \A m, n \in Names : Slug[m] = Slug[n] \/ RecordFile[m] = RecordFile[n] => m = n
  /\ \A c, k \in Configs : \A i \in DOMAIN k :
       Len(c) = 1 /\ Len(k) > 1 /\ PlainAt(k, i, Local) => k[i].name = c[1].name

Id == [at : 1..MaxTime, slug : Slugs \cup {Plain}]

NoRecord == [job |-> Nobody, at |-> 0, failed |-> FALSE]

VARIABLES
  cfg,        \* the configuration in force
  now,        \* time
  started,    \* .state/daemon.json: when the daemon started, 0 if not recorded
  record,     \* record[f]: the run record in file f of .state
  manifest,   \* manifest[id]: "none", "good" or "failed" in the data dir
  run,        \* run[p]: the run p executes
  check,      \* the healthcheck, if one is going on
  outcome,    \* history: outcome[n].end, what the newest run of job n came to:
              \* "none", "open", "good", "failed" or "lost" (its record)
  lost        \* kills and lost records so far

files == <<started, record, manifest>>
vars  == <<cfg, now, started, record, manifest, run, check, outcome, lost>>

NoId == [at |-> 1, slug |-> Plain]

\* pc: "idle", "running", "stored" or "dropped" (its manifest).
Idle == [pc |-> "idle", job |-> 0, id |-> NoId, failed |-> FALSE]

\* manifests: what the check has read.
NoCheck == [pc |-> "idle", at |-> 1, manifests |-> {}]

Init ==
  /\ cfg \in Configs
  /\ now = 1
  /\ started \in {0, 1}
  /\ record = [f \in Files |-> NoRecord]
  /\ manifest = [id \in Id |-> "none"]
  /\ run = [p \in Procs |-> Idle]
  /\ check = NoCheck
  /\ outcome = [n \in Names |-> [at |-> 0, end |-> "none"]]
  /\ lost = 0

At(p, pc) == run[p].pc = pc

Becomes(p, r) == run' = [run EXCEPT ![p] = r]

NameOf(p) == cfg[run[p].job].name

\* History: the newest run of p's job came to this end.
CameTo(p, end) ==
  outcome' = [outcome EXCEPT ![NameOf(p)] =
                IF @.at = run[p].id.at THEN [@ EXCEPT !.end = end] ELSE @]

Tick ==
  /\ now < MaxTime
  /\ now' = now + 1
  /\ UNCHANGED <<cfg, files, run, check, outcome, lost>>

\* A data dir that cannot take the record of the start keeps the previous one.
DaemonStart ==
  /\ \A p \in Procs : At(p, "idle")
  /\ cfg' \in Configs
  /\ started' \in {started, now}
  /\ check' = NoCheck
  /\ UNCHANGED <<now, record, manifest, run, outcome, lost>>

-----------------------------------------------------------------------------
(* What a run leaves *)

Begin(p, i) ==
  LET n == cfg[i].name
  IN  /\ At(p, "idle")
      /\ outcome[n].at < now
      /\ Overlap \/ \A q \in Procs : ~At(q, "idle") => NameOf(q) # n
      /\ Becomes(p, [pc |-> "running", job |-> i, id |-> NewId(cfg, cfg[i], now),
                     failed |-> FALSE])
      /\ outcome' = [outcome EXCEPT ![n] = [at |-> now, end |-> "open"]]
      /\ UNCHANGED <<cfg, now, files, check, lost>>

\* The sidecar reaches the data dir: the status in it is that of the content.
StoreManifest(p) ==
  /\ At(p, "running")
  /\ \E failed \in BOOLEAN :
       /\ manifest' = [manifest EXCEPT ![run[p].id] = IF failed THEN "failed" ELSE "good"]
       /\ Becomes(p, [run[p] EXCEPT !.pc = "stored", !.failed = failed])
  /\ UNCHANGED <<cfg, now, started, record, check, outcome, lost>>

\* keep_local = false, once an off-site destination has the snapshot.
DropManifest(p) ==
  /\ At(p, "stored")
  /\ ~cfg[run[p].job].keep_local
  /\ cfg[run[p].job].s3 # {}
  /\ manifest' = [manifest EXCEPT ![run[p].id] = "none"]
  /\ Becomes(p, [run[p] EXCEPT !.pc = "dropped"])
  /\ UNCHANGED <<cfg, now, started, record, check, outcome, lost>>

\* A run's retention, or its catch-up of a pending snapshot, takes an older one.
RemoveManifest(p, id) ==
  /\ At(p, "running") \/ At(p, "stored")
  /\ manifest[id] # "none"
  /\ id.at < run[p].id.at
  /\ Owns(cfg, run[p].job, id, Local, Nobody)
  /\ manifest' = [manifest EXCEPT ![id] = "none"]
  /\ UNCHANGED <<cfg, now, started, record, run, check, outcome, lost>>

\* record_run, and what _record_state makes of a data dir that cannot take it.
Ends(p, failed) ==
  \/ LET n == NameOf(p)
     IN  /\ record' = [record EXCEPT ![RecordFile[n]] =
                         [job |-> n, at |-> run[p].id.at, failed |-> failed]]
         /\ CameTo(p, IF failed THEN "failed" ELSE "good")
         /\ UNCHANGED lost
  \/ /\ lost < MaxLost
     /\ lost' = lost + 1
     /\ CameTo(p, "lost")
     /\ UNCHANGED record

\* The end of a run: stored off-site only, or in the data dir too.
Finish(p) ==
  /\ \/ At(p, "running") /\ cfg[run[p].job].s3 # {} /\ \E failed \in BOOLEAN : Ends(p, failed)
     \/ (At(p, "stored") \/ At(p, "dropped")) /\ Ends(p, run[p].failed)
  /\ Becomes(p, Idle)
  /\ UNCHANGED <<cfg, now, started, manifest, check>>

\* Aborted, or stored nowhere: an error whatever the manifest says.
Abort(p) ==
  /\ ~At(p, "idle")
  /\ Ends(p, TRUE)
  /\ Becomes(p, Idle)
  /\ UNCHANGED <<cfg, now, started, manifest, check>>

Kill(p) ==
  /\ ~At(p, "idle")
  /\ lost < MaxLost
  /\ lost' = lost + 1
  /\ CameTo(p, "lost")
  /\ Becomes(p, Idle)
  /\ UNCHANGED <<cfg, now, files, check>>

-----------------------------------------------------------------------------
(* The check *)

CheckBegins ==
  /\ check.pc = "idle"
  /\ check' = [pc |-> "reading", at |-> now,
               manifests |-> {[id |-> id, failed |-> manifest[id] = "failed"] :
                                id \in {m \in Id : manifest[m] # "none"}}]
  /\ UNCHANGED <<cfg, now, files, run, outcome, lost>>

\* _Run: what a manifest or a record says of a run.
ManifestReports ==
  {[at |-> m.id.at, rank |-> 0, failed |-> m.failed, job |-> Nobody, sid |-> m.id] :
     m \in check.manifests}

RecordReports ==
  {[at |-> record[f].at, rank |-> 1, failed |-> record[f].failed, job |-> record[f].job,
    sid |-> NoId] : f \in {g \in Files : record[g] # NoRecord}}

\* Mutant: a run is known by its manifest only.
ManifestsOnly == ManifestReports

\* The manifests read before, the records read now.
Reports == ManifestReports \cup RecordReports

OwnReports(i) ==
  {r \in Reports :
     \/ Len(cfg) <= 1
     \/ r.job = cfg[i].name
     \/ r.job = Nobody /\ Owns(cfg, i, r.sid, Local, Nobody)}

\* Mutant: the record and the manifest of one run in the wrong order.
ManifestFirst(reports) ==
  {r \in reports : \A q \in reports :
     q.at < r.at \/ (q.at = r.at /\ q.rank >= r.rank)}

Latest(reports) ==
  {r \in reports : \A q \in reports :
     q.at < r.at \/ (q.at = r.at /\ q.rank <= r.rank)}

\* Mutant: an old run is as good as a fresh one.
JudgeByOutcome(reports, limit, t, start) ==
  IF reports = {} THEN {start # 0 /\ t - start <= limit}
  ELSE {~r.failed : r \in Latest(reports)}

\* Rules 2 to 4. Of several latest reports the one that is listed first counts.
Judge(reports, limit, t, start) ==
  IF reports = {} THEN {start # 0 /\ t - start <= limit}
  ELSE {~r.failed /\ t - r.at <= limit : r \in Latest(reports)}

\* What the check may answer. The data dir is writable (rule 1 holds); without
\* a job everything is judged together, by the default limit.
Verdicts ==
  {\A i \in DOMAIN cfg : healthy[i] : healthy \in
     {h \in [DOMAIN cfg -> BOOLEAN] : \A i \in DOMAIN cfg :
        h[i] \in Judge(OwnReports(i), cfg[i].max_age, check.at, started)}}

CheckEnds ==
  /\ check.pc = "reading"
  /\ check' = NoCheck
  /\ UNCHANGED <<cfg, now, files, run, outcome, lost>>

Next ==
  \/ Tick \/ DaemonStart
  \/ \E p \in Procs, i \in DOMAIN cfg : Begin(p, i)
  \/ \E p \in Procs : StoreManifest(p) \/ DropManifest(p) \/ Finish(p) \/ Abort(p) \/ Kill(p)
  \/ \E p \in Procs, id \in Id : RemoveManifest(p, id)
  \/ CheckBegins \/ CheckEnds

Spec == Init /\ [][Next]_vars
-----------------------------------------------------------------------------
MayAnswer(healthy) == check.pc = "reading" /\ healthy \in Verdicts

\* A single job is judged by everything in the data dir, as documented: the
\* properties speak of it while no other job has left anything there.
ByItself(i) == Len(cfg) > 1 \/ \A n \in Names \ {cfg[i].name} : outcome[n].at = 0

(***************************************************************************)
(* A configured job whose newest run ended in error, and was recorded,     *)
(* keeps the check unhealthy until a newer run of that job exists,         *)
(* whatever other jobs and their runs do (docs/deployment.md: "stays       *)
(* unhealthy until a newer run ends in success or warning").               *)
(***************************************************************************)
FailureShows ==
  \A i \in DOMAIN cfg :
    LET n == cfg[i].name
    IN  ByItself(i) /\ outcome[n].end = "failed" => ~MayAnswer(TRUE)

(***************************************************************************)
(* A job that has stopped running turns the check unhealthy: a healthy     *)
(* verdict means that each job began a run within its max age, or that     *)
(* nothing is known of its runs and the daemon is that young.              *)
(***************************************************************************)
StalenessShows ==
  \A i \in DOMAIN cfg :
    LET n      == cfg[i].name
        oldest == check.at - cfg[i].max_age
        young  == /\ started # 0 /\ started >= oldest
                  /\ outcome[n].end \notin {"good", "failed"}
    IN  ByItself(i) /\ outcome[n].at < oldest /\ ~young => ~MayAnswer(TRUE)

(***************************************************************************)
(* No false alarm: when the newest run of every job ended well, was        *)
(* recorded and is fresh, the check says so, though a run's manifest may   *)
(* be gone before its record is there.                                     *)
(***************************************************************************)
GoodRunsAreHealthy ==
  (\A i \in DOMAIN cfg :
     LET n == cfg[i].name
     IN  /\ ByItself(i)
         /\ outcome[n].end = "good"
         /\ outcome[n].at >= check.at - cfg[i].max_age)
  => ~MayAnswer(FALSE)
=============================================================================
