------------------------------ MODULE Snapshot ------------------------------
(***************************************************************************)
(* How a run makes its snapshot (runner.run_job from the first source to    *)
(* the sidecar): each source of the job stages a file or fails, the files   *)
(* are bundled, and the bundle is encrypted. A backend (a database, a       *)
(* directory, a bucket) is a function from its parts (tables, files,        *)
(* objects) to their version; a file is named by its component and by an    *)
(* extension that only depends on the kind of the source.                   *)
(***************************************************************************)
EXTENDS Naturals, Sequences, FiniteSets

CONSTANTS
  Backends,  \* what the sources back up and restore
  Names,     \* names of components
  Parts,     \* the parts of a backend
  Buckets,   \* the S3 destinations
  Jobs       \* the configurations a job may have

Extension == [postgres |-> "dump", mariadb |-> "sql.gz", filesystem |-> "tar.gz",
              s3 |-> "tar.gz", env |-> "json"]
Kinds     == DOMAIN Extension
Modes     == {"none", "age", "gpg"}

SourceSpec == [backend : Backends, name : Names, kind : Kinds, enabled : BOOLEAN]
Job == [sources : Seq(SourceSpec), mode : Modes, identity : BOOLEAN,
        buckets : Seq(Buckets)]

\* A part is told apart by its backend and its version: 0 is absent, 1 what it
\* was when the backup was made.
Content       == [Parts -> Backends \X (0..2)]
Version(b, v) == [p \in Parts |-> <<b, v>>]

Files     == Names \X {Extension[k] : k \in Kinds}
Staged    == [file : Files, content : Content]
Component == [name : Names, kind : Kinds, error : BOOLEAN, content : Content]
Archive   == [mode : Modes, files : SUBSET Staged, components : Seq(Component)]
NoArchive == [mode |-> "none", files |-> {}, components |-> <<>>]

ASSUME JobsAssumption == Jobs \subseteq Job

VARIABLES
  live,     \* live[b]: what backend b holds
  job,      \* the job's configuration
  phase,    \* "produce", "encrypt", "store", then "stored"
  source,   \* the index of the source to produce next
  staging,  \* the staging area: the files the sources wrote
  comps,    \* the components so far
  errors,   \* whether the run's list of errors holds an entry
  snap,     \* the archive and its manifest, stored as they are taken to be
  gaps      \* history: the parts of each source that it passed over without a word

runVars      == <<source, staging, comps, errors, gaps>>
snapshotVars == <<live, job, phase, runVars, snap>>

-----------------------------------------------------------------------------
File(s)      == <<s.name, Extension[s.kind]>>
Others(f)    == {x \in staging : x.file # f}
Good(s, c)   == [name |-> s.name, kind |-> s.kind, error |-> FALSE, content |-> c]
Failed(s)    == [name |-> s.name, kind |-> s.kind, error |-> TRUE,
                 content |-> Version(s.backend, 0)]

SnapshotInit ==
  /\ live = [b \in Backends |-> Version(b, 1)]
  /\ job \in Jobs
  /\ phase = "produce"
  /\ source = 1
  /\ staging = {}
  /\ comps = <<>>
  /\ errors = FALSE
  /\ snap = NoArchive
  /\ gaps = {}

\* The source whose turn it is, and the step to the next one.
Turn       == phase = "produce" /\ source \in DOMAIN job.sources
Current    == job.sources[source]
NextSource == source' = source + 1 /\ UNCHANGED <<live, job, phase, snap>>

SkipSource ==
  /\ Turn
  /\ ~Current.enabled
  /\ NextSource
  /\ UNCHANGED <<staging, comps, errors, gaps>>

\* A directory is archived without what nobody may read: `lost` ends in a
\* warning, `unseen` in nothing. That is a subdirs root that is missing, a file
\* in a directory that may be listed and not searched (is_file is false), an
\* unreadable lost+found. What is not ours to back up may cause a warning too.
Without(b, parts) == [p \in Parts |-> IF p \in parts THEN <<b, 0>> ELSE live[b][p]]

Warns(s, lost, warns) ==
  IF lost # {} THEN warns ELSE warns => s.kind \in {"filesystem", "s3"}

ProduceSource ==
  /\ Turn
  /\ Current.enabled
  /\ \E lost, unseen \in SUBSET Parts, warns \in BOOLEAN :
       /\ Current.kind # "filesystem" => lost = {} /\ unseen = {}
       /\ lost \cap unseen = {}
       /\ Warns(Current, lost, warns)
       /\ LET c == Without(Current.backend, lost \cup unseen) IN
          /\ staging' = Others(File(Current)) \cup {[file |-> File(Current), content |-> c]}
          /\ comps' = Append(comps, Good(Current, c))
       /\ errors' = (errors \/ warns)
       /\ gaps' = gaps \cup ({source} \X unseen)
  /\ NextSource

Fails ==
  /\ Turn
  /\ Current.enabled
  /\ comps' = Append(comps, Failed(Current))
  /\ errors' = TRUE
  /\ NextSource
  /\ UNCHANGED gaps

\* A dump or mirror that fails takes its file away; a missing path had none.
SourceReportsError ==
  /\ Fails
  /\ Current.kind # "env"
  /\ staging' = IF Current.kind = "filesystem" THEN staging ELSE Others(File(Current))

\* Only entries the raising source added are removed: a file of the same name
\* that an earlier source staged stays, overwritten or not.
SourceRaises ==
  /\ Fails
  /\ \/ staging' = staging
     \/ /\ staging # Others(File(Current))
        /\ staging' = Others(File(Current)) \cup {[file |-> File(Current), content |-> Version(Current.backend, 0)]}

Produced ==
  /\ phase = "produce"
  /\ source > Len(job.sources)
  /\ phase' = "encrypt"
  /\ UNCHANGED <<live, job, runVars, snap>>

JobStatus ==
  IF \E i \in DOMAIN comps : comps[i].error THEN "error"
  ELSE IF errors THEN "warning" ELSE "success"

Bundle(mode, entries) ==
  /\ phase = "encrypt"
  /\ phase' = "store"
  /\ errors' = entries
  /\ snap' = [mode |-> mode, files |-> staging, components |-> comps]
  /\ UNCHANGED <<live, job, source, staging, comps, gaps>>

Encrypt == Bundle(job.mode, errors)

\* Mutant: the plain bundle goes unreported.
EncryptionFailsQuietly == job.mode # "none" /\ Bundle("none", errors)

\* Availability over confidentiality: the plain bundle is stored.
EncryptionFails == job.mode # "none" /\ Bundle("none", TRUE)

MakeSnapshot ==
  \/ SkipSource \/ ProduceSource \/ SourceReportsError \/ SourceRaises
  \/ Produced \/ Encrypt \/ EncryptionFails
=============================================================================
