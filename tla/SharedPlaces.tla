----------------------------- MODULE SharedPlaces -----------------------------
(***************************************************************************)
(* Several jobs over the places they share: each run stores a snapshot     *)
(* under an id of its own, ships what its job has pending, applies its     *)
(* job's retention place by place and drops the local copy; the prune      *)
(* command lists the data dir once and then goes through the jobs. Runs of *)
(* different jobs, and prune, go on at the same time. How one run fails    *)
(* half-way is BackupRun's subject; here a run stores or misses a place.   *)
(***************************************************************************)
EXTENDS Ownership, Retention

CONSTANTS
  Configs,    \* the configurations the daemon may be started with
  MaxTime,    \* bound on time, in seconds in which a run may begin
  Command     \* the process that executes prune

Job == [name : Names, s3 : SUBSET S3, local : BOOLEAN, keep_local : BOOLEAN,
        retention : RetentionConfig]

ASSUME SharedAssumption ==
  /\ Configs \subseteq Seq(Job)
  /\ \A c \in Configs : DistinctNames(c)
  /\ MaxTime \in Nat \ {0}
  /\ Command \notin Names

Id == [at : 1..MaxTime, slug : Slugs \cup {Plain}]

VARIABLES
  cfg,      \* the configuration in force
  now,      \* time
  held,     \* held[d]: the snapshots listed at place d
  marker,   \* marker[id]: the job <id>.offsite-pending.json names, or Nobody
  ran,      \* the jobs that began a run in this second
  actor,    \* what each job's run, and prune, is at
  writer    \* history: writer[id] is the job that first stored id, or Nobody

vars == <<cfg, now, held, marker, ran, actor, writer>>

Actors == Names \cup {Command}

Actor ==
  [pc    : {"idle", "thin", "remove"},
   job   : Nat,               \* its job, or the one prune is at
   queue : SUBSET Places,     \* places still to thin
   only  : BOOLEAN,           \* the data dir stood in: only what is pending
   drop  : SUBSET Id,         \* what the run takes from the data dir in the end
   at    : Places,
   plan  : SUBSET Id,
   plans : Seq(SUBSET Id)]    \* prune: the plans of the jobs after that one

NoMarks == [id \in Id |-> Nobody]

Resting ==
  [pc |-> "idle", job |-> 0, queue |-> {}, only |-> FALSE, drop |-> {},
   at |-> Local, plan |-> {}, plans |-> <<>>]

TypeOK ==
  /\ cfg \in Configs
  /\ now \in 1..MaxTime
  /\ held \in [Places -> SUBSET Id]
  /\ marker \in [Id -> Names \cup {Nobody}]
  /\ ran \subseteq Names
  /\ actor \in [Actors -> Actor]
  /\ \A a \in Actors : actor[a].pc # "idle" => actor[a].job \in DOMAIN cfg
  /\ writer \in [Id -> Names \cup {Nobody}]
  /\ \A d \in Places : \A id \in held[d] : writer[id] # Nobody

Init ==
  /\ cfg \in Configs
  /\ now = 1
  /\ held = [d \in Places |-> {}]
  /\ marker = NoMarks
  /\ ran = {}
  /\ actor = [a \in Actors |-> Resting]
  /\ writer = NoMarks

Becomes(a, r) == actor' = [actor EXCEPT ![a] = r]

Tick ==
  /\ now < MaxTime
  /\ now' = now + 1
  /\ ran' = {}
  /\ UNCHANGED <<cfg, held, marker, actor, writer>>

\* Mutant: the configuration is read again while runs go on.
ReconfigureBusy ==
  /\ now < MaxTime
  /\ now' = now + 1
  /\ cfg' \in Configs
  /\ ran' = {}
  /\ UNCHANGED <<held, marker, actor, writer>>

\* The daemon is started again, not within the second of a run it just made.
Reconfigure ==
  /\ \A a \in Actors : actor[a].pc = "idle"
  /\ now < MaxTime
  /\ now' = now + 1
  /\ cfg' \in Configs
  /\ ran' = {}
  /\ UNCHANGED <<held, marker, actor, writer>>

-----------------------------------------------------------------------------
(* A run of the i-th job *)

KeepsLocal(j) == j.keep_local /\ j.local

\* Mutant: whatever is pending is shipped.
AnyPending(j) == {id \in Id : marker[id] # Nobody}

PendingOf(j) == {id \in Id : marker[id] = j.name}

Snaps(ids) == {[id |-> id.at, when |-> id.at] : id \in ids}

Prunable(j, ids) ==
  {id \in ids : id.at \in SelectPrunable(Snaps(ids), j.retention, now)}

ThinningRun(i, queue, only, drop) ==
  [pc |-> "thin", job |-> i, queue |-> queue, only |-> only, drop |-> drop,
   at |-> Local, plan |-> {}, plans |-> <<>>]

\* The snapshot reaches some of its places. Reaching an S3 place ships what the
\* job has pending; reaching none marks the local copy.
BackUp(i) ==
  LET j       == cfg[i]
      id      == NewId(cfg, j, now)
      pending == PendingOf(j) \cap held[Local]
  IN  /\ actor[j.name].pc = "idle"
      /\ j.name \notin ran
      /\ ran' = ran \cup {j.name}
      /\ writer' = [writer EXCEPT ![id] = IF @ = Nobody THEN j.name ELSE @]
      /\ \E up \in SUBSET j.s3 :
           LET copies == up \cup (IF j.local \/ up = {} THEN {Local} ELSE {})
               gone   == IF up # {} /\ ~KeepsLocal(j) THEN pending ELSE {}
           IN  /\ held' = [d \in Places |->
                             CASE d = Local -> (held[d] \ gone) \cup (IF d \in copies THEN {id} ELSE {})
                               [] d \in up  -> held[d] \cup pending \cup {id}
                               [] OTHER     -> held[d]]
               /\ marker' = IF up # {}
                            THEN [m \in Id |-> IF m \in PendingOf(j) THEN Nobody ELSE marker[m]]
                            ELSE IF j.s3 # {} THEN [marker EXCEPT ![id] = j.name]
                            ELSE marker
               /\ Becomes(j.name, ThinningRun(i, j.s3 \cup copies, Local \notin JobPlaces(j),
                    IF ~j.keep_local /\ j.local /\ up # {} THEN {id} ELSE {}))
      /\ UNCHANGED <<cfg, now>>

\* What the run's policy judges at d.
Candidates(r, d) ==
  IF d = Local /\ r.only
  THEN held[d] \cap PendingOf(cfg[r.job])
  ELSE {id \in held[d] :
          Owns(cfg, r.job, id, d, IF d = Local THEN marker[id] ELSE Nobody)}

Thin(a, d) ==
  LET r == actor[a]
  IN  /\ a # Command
      /\ r.pc = "thin"
      /\ d \in r.queue
      /\ Becomes(a, [r EXCEPT !.pc = "remove", !.queue = @ \ {d}, !.at = d,
                              !.plan = Prunable(cfg[r.job], Candidates(r, d))])
      /\ UNCHANGED <<cfg, now, held, marker, ran, writer>>

Remove(a, id) ==
  LET r == actor[a]
  IN  /\ r.pc = "remove"
      /\ id \in r.plan
      /\ held' = [held EXCEPT ![r.at] = @ \ {id}]
      /\ marker' = IF r.at = Local THEN [marker EXCEPT ![id] = Nobody] ELSE marker
      /\ Becomes(a, [r EXCEPT !.plan = @ \ {id}])
      /\ UNCHANGED <<cfg, now, ran, writer>>

Thinned(a) ==
  LET r == actor[a]
  IN  /\ a # Command
      /\ r.pc = "remove"
      /\ r.plan = {}
      /\ Becomes(a, [r EXCEPT !.pc = "thin"])
      /\ UNCHANGED <<cfg, now, held, marker, ran, writer>>

\* A listing or a deletion that raises ends the retention of the place, and
\* prune altogether.
Fails(a) ==
  LET r == actor[a]
  IN  /\ \/ r.pc = "thin" /\ \E d \in r.queue : Becomes(a, [r EXCEPT !.queue = @ \ {d}])
         \/ /\ r.pc = "remove" /\ r.plan # {}
            /\ Becomes(a, IF a = Command THEN Resting
                          ELSE [r EXCEPT !.pc = "thin", !.plan = {}])
      /\ UNCHANGED <<cfg, now, held, marker, ran, writer>>

RunEnds(a) ==
  LET r == actor[a]
  IN  /\ a # Command
      /\ r.pc = "thin"
      /\ r.queue = {}
      /\ held' = [held EXCEPT ![Local] = @ \ r.drop]
      /\ Becomes(a, Resting)
      /\ UNCHANGED <<cfg, now, marker, ran, writer>>

-----------------------------------------------------------------------------
(* The prune command *)

PlanOf(i) ==
  Prunable(cfg[i], {id \in held[Local] : Owns(cfg, i, id, Local, marker[id])})

\* The manifests and the markers are listed once: what each job's turn deletes
\* is decided before the first job's deletions.
PruneCommand ==
  /\ actor[Command].pc = "idle"
  /\ cfg # <<>>
  /\ Becomes(Command, [Resting EXCEPT !.pc = "remove", !.job = 1, !.plan = PlanOf(1),
                                      !.plans = [i \in 1..(Len(cfg) - 1) |-> PlanOf(i + 1)]])
  /\ UNCHANGED <<cfg, now, held, marker, ran, writer>>

PruneNextJob ==
  LET r == actor[Command]
  IN  /\ r.pc = "remove" /\ r.plan = {}
      /\ r.plans # <<>>
      /\ Becomes(Command, [r EXCEPT !.job = @ + 1, !.plan = Head(r.plans),
                                    !.plans = Tail(r.plans)])
      /\ UNCHANGED <<cfg, now, held, marker, ran, writer>>

PruneEnds ==
  LET r == actor[Command]
  IN  /\ r.pc = "remove" /\ r.plan = {}
      /\ r.plans = <<>>
      /\ Becomes(Command, Resting)
      /\ UNCHANGED <<cfg, now, held, marker, ran, writer>>

Next ==
  \/ Tick \/ Reconfigure
  \/ \E i \in DOMAIN cfg : BackUp(i)
  \/ \E a \in Actors, d \in Places : Thin(a, d)
  \/ \E a \in Actors, id \in Id : Remove(a, id)
  \/ \E a \in Actors : Thinned(a) \/ Fails(a) \/ RunEnds(a)
  \/ PruneCommand \/ PruneNextJob \/ PruneEnds

Spec == Init /\ [][Next]_vars
-----------------------------------------------------------------------------
(***************************************************************************)
(* Two jobs never claim the same snapshot, whatever ids earlier            *)
(* configurations left in a place: what one job's retention spares, no     *)
(* other job's retention decides about (docs/retention.md: "a job's policy *)
(* only sees that job's own snapshots").                                   *)
(***************************************************************************)
OneOwner ==
  \A d \in Places : \A id \in held[d] : \A i, k \in DOMAIN cfg :
    LET m == IF d = Local THEN marker[id] ELSE Nobody
    IN  Owns(cfg, i, id, d, m) /\ Owns(cfg, k, id, d, m) => i = k

(***************************************************************************)
(* Jobs that share a place and start in the same second never write the    *)
(* files of one snapshot: each id has one writer                           *)
(* (docs/configuration.md, snapshot ids).                                  *)
(***************************************************************************)
OneWriter ==
  \A i \in DOMAIN cfg :
    cfg[i].name \in ran => writer[NewId(cfg, cfg[i], now)] = cfg[i].name

(***************************************************************************)
(* No run and no prune has another configured job's snapshot on its list,  *)
(* if its id names the job or its marker does.                             *)
(***************************************************************************)
PlansSpareOthers ==
  \A a \in Actors : \A id \in actor[a].plan : \A i \in DOMAIN cfg :
    /\ i # actor[a].job
    /\ writer[id] = cfg[i].name
    => id.slug = Plain /\ (actor[a].at = Local => marker[id] # cfg[i].name)

(***************************************************************************)
(* A pending snapshot is only shipped to places of the job that took it.   *)
(***************************************************************************)
ShippedToOwner ==
  \A d \in S3 : \A id \in held[d] :
    \E c \in Configs : \E i \in DOMAIN c :
      c[i].name = writer[id] /\ d \in c[i].s3

\* The name of an id's job is never another's.
SlugsDiffer == \A m, n \in Names : Slug[m] = Slug[n] => m = n

\* smart_last is not switched on or off for a job.
SteadySmart ==
  \A b, c \in Configs : \A i \in DOMAIN b, k \in DOMAIN c :
    b[i].name = c[k].name => b[i].retention.smart_last = c[k].retention.smart_last

\* In some configuration, a run of job n leaves snapshots at d without a marker.
Leaves(n, d) ==
  \E c \in Configs : \E i \in DOMAIN c :
    /\ c[i].name = n
    /\ \/ d \in c[i].s3
       \/ d = Local /\ (c[i].s3 = {} \/ KeepsLocal(c[i]))

\* The job that stores plain ids, being alone in a configuration, is the only
\* one that ever is, and where it leaves snapshots no job comes before it.
PlainIdsStay ==
  \A b \in Configs : Len(b) = 1 =>
    LET n == b[1].name IN
    \A c \in Configs :
      /\ Len(c) = 1 => c[1].name = n
      /\ \A d \in Places : \A i \in DOMAIN c :
           Leaves(n, d) /\ d \in JobPlaces(c[i]) =>
             \E k \in 1..i : c[k].name = n /\ d \in JobPlaces(c[k])

NothingTakenOver == SlugsDiffer /\ SteadySmart /\ PlainIdsStay

(***************************************************************************)
(* Every configured job with smart_last that ever stored a snapshot still  *)
(* has one (config/models.py: "never prune the sole/last backup of a       *)
(* source"), as long as NothingTakenOver.                                  *)
(***************************************************************************)
JobKeepsBackup ==
  \A i \in DOMAIN cfg :
    /\ cfg[i].retention.smart_last
    /\ \E id \in Id : writer[id] = cfg[i].name
    => \E d \in Places : \E id \in held[d] : writer[id] = cfg[i].name
=============================================================================
