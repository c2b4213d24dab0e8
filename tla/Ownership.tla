------------------------------ MODULE Ownership ------------------------------
(***************************************************************************)
(* Which job a snapshot belongs to (snapshots.py): what retention, prune   *)
(* and the healthcheck may count as a job's own in the places several jobs *)
(* share. A configuration is the sequence of its jobs; a snapshot id is    *)
(* the second its run began and, in a configuration with several jobs, the *)
(* slug of the job's name.                                                 *)
(***************************************************************************)
EXTENDS Integers, Sequences

CONSTANTS
  Names,      \* the names jobs may have
  Slugs,      \* what an id carries of a name
  Slug,       \* Slug[n]: job_slug(n)
  S3,         \* the S3 places: endpoint, bucket and prefix
  Local,      \* the data dir
  Plain,      \* stands for the slug an id does not carry
  Nobody      \* the owner a missing marker names

ASSUME OwnershipAssumption ==
  /\ Slug \in [Names -> Slugs]
  /\ Plain \notin Slugs
  /\ Nobody \notin Names
  /\ Local \notin S3

Places == S3 \cup {Local}

\* The documentation asks for names that are distinct as slugs; no code checks
\* it (docs/configuration.md).
DistinctNames(c) ==
  \A i, k \in DOMAIN c : Slug[c[i].name] = Slug[c[k].name] => i = k

\* With no bucket configured, the data dir is where the runner falls back to.
JobPlaces(j) == j.s3 \cup (IF j.local \/ j.s3 = {} THEN {Local} ELSE {})

\* Mutant: ids do not name the job.
NewIdPlain(c, j, t) == [at |-> t, slug |-> Plain]

NewId(c, j, t) == [at |-> t, slug |-> IF Len(c) > 1 THEN Slug[j.name] ELSE Plain]

\* Mutant: a plain id belongs to every job that stores in its place.
StoresThere(c, i, d) == d \in JobPlaces(c[i])

\* Plain ids belong to the first job, in the order of the configuration, that
\* stores snapshots in the place.
PlainAt(c, i, d) ==
  /\ d \in JobPlaces(c[i])
  /\ \A k \in 1..(i - 1) : d \notin JobPlaces(c[k])

\* Mutant: the id's job is not asked for.
OwnsByPlace(c, i, id, d, marked) == PlainAt(c, i, d)

\* Whether the i-th job of c owns snapshot id at d; marked is the job its
\* pending marker names.
Owns(c, i, id, d, marked) ==
  \/ id.slug = Slug[c[i].name]
  \/ /\ id.slug = Plain
     /\ \/ Len(c) <= 1
        \/ marked = c[i].name
        \/ marked = Nobody /\ PlainAt(c, i, d)
=============================================================================
