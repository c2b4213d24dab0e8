--------------------------- MODULE HealthCheck_proofs ---------------------------
(***************************************************************************)
(* The healthcheck tells good jobs from failed and from stale ones, for    *)
(* any number of jobs, runs and configurations, as long as two runs of one *)
(* job do not overlap and each job has names of its own (TellsApart).      *)
(***************************************************************************)
EXTENDS HealthCheck, TLAPS

JobSeq(c) == c \in Seq(Job) /\ DistinctNames(c)

LEMMA JobsOf ==
  ASSUME NEW c \in Configs
  PROVE  /\ Len(c) \in Nat /\ DOMAIN c = 1..Len(c)
         /\ \A i \in DOMAIN c : c[i] \in Job /\ c[i].name \in Names /\ c[i].max_age \in Nat
                                /\ Slug[c[i].name] \in Slugs /\ Slug[c[i].name] # Plain
         /\ \A i, k \in DOMAIN c : c[i].name = c[k].name => i = k
  <1>1. c \in Seq(Job) /\ DistinctNames(c)
    BY HealthAssumption
  <1>2. Len(c) \in Nat /\ DOMAIN c = 1..Len(c) /\ \A i \in DOMAIN c : c[i] \in Job
    BY <1>1
  <1>3. \A j \in Job : j.name \in Names /\ j.max_age \in Nat
    BY DEF Job
  <1> QED
    BY <1>1, <1>2, <1>3, OwnershipAssumption DEF DistinctNames

-----------------------------------------------------------------------------
(* The invariant *)

Report  == [job : Names \cup {Nobody}, at : Nat, failed : BOOLEAN]
Outcome == [at : Nat, end : {"none", "open", "good", "failed", "lost"}]
Run     == [pc : {"idle", "running", "stored", "dropped"}, job : Nat, id : Id, failed : BOOLEAN]

Typed ==
  /\ cfg \in Configs /\ now \in 1..MaxTime
  /\ started \in Nat /\ check.at \in Nat
  /\ record \in [Files -> Report]
  /\ manifest \in [Id -> {"none", "good", "failed"}]
  /\ run \in [Procs -> Run]
  /\ outcome \in [Names -> Outcome]

\* A run that goes on is the newest of its job, and the only one.
Busy(p) ==
  ~At(p, "idle") =>
    /\ run[p].job \in DOMAIN cfg
    /\ run[p].id = NewId(cfg, cfg[run[p].job], outcome[NameOf(p)].at)
    /\ 1 <= outcome[NameOf(p)].at
    /\ outcome[NameOf(p)].end = "open"
    /\ \A q \in Procs : ~At(q, "idle") /\ run[q].job = run[p].job => q = p

\* A record is the job's whose file it is in, and as new as its newest run if
\* that one came to an end.
Recorded ==
  /\ \A f \in Files : record[f] # NoRecord =>
       /\ record[f].job \in Names /\ f = RecordFile[record[f].job]
       /\ 1 <= record[f].at /\ record[f].at <= outcome[record[f].job].at
  /\ \A n \in Names : outcome[n].end \in {"good", "failed"} =>
       record[RecordFile[n]] = [job |-> n, at |-> outcome[n].at,
                                failed |-> outcome[n].end = "failed"]

\* Job n, configured so that its runs make such ids, ran at least as late as id.
Wrote(n, id) ==
  /\ id.at <= outcome[n].at
  /\ \/ id.slug = Slug[n]
     \/ id.slug = Plain /\ \E c \in Configs : Len(c) = 1 /\ c[1].name = n

Written(id) == \E n \in Names : Wrote(n, id)

Traced ==
  /\ \A id \in Id : manifest[id] # "none" => Written(id)
  /\ check.pc = "reading" =>
       \A m \in check.manifests :
         m.id \in Id /\ m.failed \in BOOLEAN /\ Written(m.id)

Inv == Typed /\ (\A p \in Procs : Busy(p)) /\ Recorded /\ Traced

LEMMA Ids ==
  ASSUME NEW c \in Configs, NEW i \in DOMAIN c, NEW t \in 1..MaxTime
  PROVE  NewId(c, c[i], t) \in Id /\ NewId(c, c[i], t).at = t
  BY JobsOf DEF NewId, Id

\* What was written stays written: the newest run of a job only gets newer.
LEMMA WrittenStays ==
  ASSUME Typed, Typed', \A n \in Names : outcome[n].at <= outcome'[n].at,
         NEW id \in Id, Written(id)
  PROVE  Written(id)'
  <1>1. PICK n \in Names : Wrote(n, id)
    BY DEF Written
  <1>2. outcome[n].at \in Nat /\ outcome'[n].at \in Nat /\ id.at \in Nat
    BY DEF Typed, Outcome, Id
  <1>3. id.at <= outcome[n].at /\ outcome[n].at <= outcome'[n].at
    BY <1>1 DEF Wrote
  <1>4. id.at <= outcome'[n].at
    BY <1>2, <1>3
  <1>5. Wrote(n, id)'
    BY <1>1, <1>4 DEF Wrote
  <1> QED
    BY <1>5 DEF Written

\* The same for all that the data dir and the check hold.
LEMMA TracedStays ==
  ASSUME Typed, Typed', Traced, \A n \in Names : outcome[n].at <= outcome'[n].at,
         \A id \in Id : manifest'[id] # "none" => manifest[id] # "none" \/ Written(id),
         check'.pc = "reading" => check' = check
  PROVE  Traced'
  <1>1. ASSUME NEW id \in Id, manifest'[id] # "none"
        PROVE  Written(id)'
    BY <1>1, WrittenStays DEF Traced
  <1>2. ASSUME check'.pc = "reading", NEW m \in check'.manifests
        PROVE  m.id \in Id /\ m.failed \in BOOLEAN /\ Written(m.id)'
    <2>1. check' = check
      BY <1>2
    <2>2. m.id \in Id /\ m.failed \in BOOLEAN /\ Written(m.id)
      BY <1>2, <2>1 DEF Traced
    <2> QED
      BY <2>2, WrittenStays
  <1> QED
    BY <1>1, <1>2 DEF Traced

\* The id of a run that goes on is one its job has written.
LEMMA BusyWrote ==
  ASSUME Typed, NEW p \in Procs, Busy(p), ~At(p, "idle")
  PROVE  run[p].id \in Id /\ Written(run[p].id)
  <1> DEFINE n == NameOf(p)
  <1>1. cfg \in Configs /\ run[p] \in Run /\ run[p].job \in DOMAIN cfg
        /\ run[p].id = NewId(cfg, cfg[run[p].job], outcome[n].at)
    BY DEF Typed, Busy
  <1>2. n \in Names /\ run[p].id \in Id
    BY <1>1, JobsOf DEF NameOf, Run
  <1>3. run[p].id.at = outcome[n].at /\ outcome[n].at \in Nat
    BY <1>1, <1>2 DEF NewId, Typed, Outcome
  <1>4. run[p].id.slug = IF Len(cfg) > 1 THEN Slug[n] ELSE Plain
    BY <1>1 DEF NewId, NameOf
  <1>5. Len(cfg) > 1 \/ (Len(cfg) = 1 /\ run[p].job = 1)
    <2>1. Len(cfg) \in Nat /\ run[p].job \in 1..Len(cfg)
      BY <1>1, JobsOf
    <2>2. ASSUME NEW len \in Nat, NEW j \in 1..len
          PROVE  len > 1 \/ (len = 1 /\ j = 1)
      OBVIOUS
    <2> QED
      BY <2>1, <2>2
  <1>6. CASE Len(cfg) > 1
    BY <1>2, <1>3, <1>4, <1>6 DEF Wrote, Written
  <1>7. CASE Len(cfg) = 1 /\ run[p].job = 1
    <2>1. cfg[1].name = n /\ run[p].id.slug = Plain
      BY <1>4, <1>7 DEF NameOf
    <2>2. Wrote(n, run[p].id)
      BY <1>1, <1>3, <1>7, <2>1 DEF Wrote
    <2> QED
      BY <1>2, <2>2 DEF Written
  <1> QED
    BY <1>5, <1>6, <1>7

LEMMA InvInit ==
  ASSUME Init
  PROVE  Inv
  <1>1. Typed
    <2>1. NoId \in Id /\ Idle \in Run /\ NoRecord \in Report
      BY HealthAssumption DEF NoId, Id, Idle, Run, NoRecord, Report
    <2>2. record \in [Files -> Report] /\ run \in [Procs -> Run]
      BY <2>1 DEF Init
    <2>3. outcome \in [Names -> Outcome] /\ manifest \in [Id -> {"none", "good", "failed"}]
      BY DEF Init, Outcome
    <2>4. cfg \in Configs /\ now \in 1..MaxTime /\ started \in Nat /\ check.at \in Nat
      BY HealthAssumption DEF Init, NoCheck
    <2> QED
      BY <2>2, <2>3, <2>4 DEF Typed
  <1>2. \A p \in Procs : Busy(p)
    BY DEF Init, Busy, At, Idle
  <1>3. Recorded
    BY DEF Init, Recorded
  <1>4. Traced
    BY DEF Init, Traced, NoCheck
  <1> QED
    BY <1>1, <1>2, <1>3, <1>4 DEF Inv

-----------------------------------------------------------------------------
(* The steps *)

LEMMA TickKeeps ==
  ASSUME Inv, Tick
  PROVE  Inv'
  <1>1. Typed'
    BY HealthAssumption DEF Inv, Typed, Tick, files
  <1>2. UNCHANGED <<cfg, record, manifest, run, check, outcome>>
    BY DEF Tick, files
  <1>3. \A p \in Procs : Busy(p)'
    BY <1>2 DEF Inv, Busy, At, NameOf
  <1>4. Recorded' /\ Traced'
    BY <1>2 DEF Inv, Recorded, Traced, Written, Wrote
  <1> QED
    BY <1>1, <1>3, <1>4 DEF Inv

LEMMA DaemonStartKeeps ==
  ASSUME Inv, DaemonStart
  PROVE  Inv'
  <1>1. Typed'
    BY DEF Inv, Typed, DaemonStart, NoCheck
  <1>2. UNCHANGED <<record, manifest, run, outcome>> /\ check' = NoCheck
    BY DEF DaemonStart
  <1>3. \A p \in Procs : Busy(p)'
    BY <1>2 DEF DaemonStart, Busy, At
  <1>4. Recorded' /\ Traced'
    BY <1>2 DEF Inv, Recorded, Traced, Written, Wrote, NoCheck
  <1> QED
    BY <1>1, <1>3, <1>4 DEF Inv

LEMMA BeginKeeps ==
  ASSUME TellsApart, Inv, NEW p \in Procs, NEW i \in DOMAIN cfg, Begin(p, i)
  PROVE  Inv'
  <1> DEFINE n  == cfg[i].name
             id == NewId(cfg, cfg[i], now)
  <1>1. /\ n \in Names /\ id \in Id /\ id.at = now /\ now \in 1..MaxTime /\ cfg \in Configs
        /\ i \in Nat
    BY JobsOf, Ids DEF Inv, Typed
  <1>2. /\ outcome[n].at < now
        /\ \A q \in Procs : ~At(q, "idle") => NameOf(q) # n
        /\ run' = [run EXCEPT ![p] = [pc |-> "running", job |-> i, id |-> id, failed |-> FALSE]]
        /\ outcome' = [outcome EXCEPT ![n] = [at |-> now, end |-> "open"]]
        /\ UNCHANGED <<cfg, now, started, record, manifest, check>>
        /\ At(p, "idle")
    BY DEF Begin, TellsApart, Becomes, files
  <1> HIDE DEF n, id
  <1>3. Typed'
    <2>1. [pc |-> "running", job |-> i, id |-> id, failed |-> FALSE] \in Run
          /\ [at |-> now, end |-> "open"] \in Outcome
      BY <1>1, HealthAssumption DEF Run, Outcome
    <2>2. run' \in [Procs -> Run] /\ outcome' \in [Names -> Outcome]
      BY <1>1, <1>2, <2>1 DEF Inv, Typed
    <2> QED
      BY <1>2, <2>2 DEF Inv, Typed
  <1>4. /\ outcome'[n] = [at |-> now, end |-> "open"]
        /\ \A m \in Names \ {n} : outcome'[m] = outcome[m]
        /\ run'[p] = [pc |-> "running", job |-> i, id |-> id, failed |-> FALSE]
        /\ \A q \in Procs \ {p} : run'[q] = run[q]
    BY <1>1, <1>2 DEF Inv, Typed
  <1>5. \A m \in Names : outcome[m].at <= outcome'[m].at
    <2>1. \A m \in Names : outcome[m].at \in Nat
      BY DEF Inv, Typed, Outcome
    <2> QED
      BY <1>1, <1>2, <1>4, <2>1
  <1>6. \A q \in Procs \ {p} : ~At(q, "idle") => NameOf(q) \in Names \ {n} /\ run[q].job # i
    <2> SUFFICES ASSUME NEW q \in Procs \ {p}, ~At(q, "idle")
                 PROVE  NameOf(q) \in Names \ {n} /\ run[q].job # i
      OBVIOUS
    <2>1. run[q].job \in DOMAIN cfg /\ NameOf(q) # n
      BY <1>2 DEF Inv, Busy
    <2> QED
      BY <1>1, <2>1, JobsOf DEF NameOf, n
  <1>7. ASSUME NEW q \in Procs
        PROVE  Busy(q)'
    <2>1. CASE q = p
      <3>1. NameOf(p)' = n /\ cfg' = cfg
        BY <1>2, <1>4 DEF NameOf, n
      <3>2. run'[p].id = NewId(cfg, cfg[i], outcome'[n].at) /\ run'[p].job = i
            /\ 1 <= outcome'[n].at /\ outcome'[n].end = "open"
        BY <1>1, <1>4 DEF id
      <3>3. \A r \in Procs : ~At(r, "idle")' /\ run'[r].job = i => r = p
        BY <1>4, <1>6 DEF At
      <3> QED
        BY <2>1, <3>1, <3>2, <3>3 DEF Busy
    <2>2. CASE q # p
      <3> SUFFICES ASSUME ~At(q, "idle")'
                   PROVE  Busy(q)'
        BY DEF Busy
      <3>1. run'[q] = run[q] /\ cfg' = cfg /\ ~At(q, "idle")
        BY <1>2, <1>4, <2>2 DEF At
      <3>2. NameOf(q)' = NameOf(q) /\ NameOf(q) \in Names \ {n} /\ run[q].job # i
        BY <1>6, <2>2, <3>1 DEF NameOf
      <3>3. outcome'[NameOf(q)] = outcome[NameOf(q)]
        BY <1>4, <3>2
      <3>4. \A r \in Procs : ~At(r, "idle")' /\ run'[r].job = run'[q].job => r = q
        BY <1>4, <3>1, <3>2 DEF Inv, Busy, At
      <3> QED
        BY <3>1, <3>2, <3>3, <3>4 DEF Inv, Busy
    <2> QED
      BY <2>1, <2>2
  <1>8. Recorded'
    <2>1. \A f \in Files : record'[f] # NoRecord =>
            /\ record'[f].job \in Names /\ f = RecordFile[record'[f].job]
            /\ 1 <= record'[f].at /\ record'[f].at <= outcome'[record'[f].job].at
      <3> SUFFICES ASSUME NEW f \in Files, record[f] # NoRecord
                   PROVE  /\ record[f].job \in Names /\ f = RecordFile[record[f].job]
                          /\ 1 <= record[f].at /\ record[f].at <= outcome'[record[f].job].at
        BY <1>2
      <3>1. /\ record[f].job \in Names /\ f = RecordFile[record[f].job]
            /\ 1 <= record[f].at /\ record[f].at <= outcome[record[f].job].at
        BY DEF Inv, Recorded
      <3>2. record[f].at \in Nat /\ outcome[record[f].job].at \in Nat
            /\ outcome'[record[f].job].at \in Nat
        BY <1>3, <3>1 DEF Inv, Typed, Report, Outcome
      <3>3. outcome[record[f].job].at <= outcome'[record[f].job].at
        BY <1>5, <3>1
      <3> QED
        BY <3>1, <3>2, <3>3
    <2>2. \A m \in Names : outcome'[m].end \in {"good", "failed"} =>
            record'[RecordFile[m]] = [job |-> m, at |-> outcome'[m].at,
                                      failed |-> outcome'[m].end = "failed"]
      BY <1>2, <1>4 DEF Inv, Recorded
    <2> QED
      BY <2>1, <2>2 DEF Recorded
  <1>9. Traced'
    BY <1>2, <1>3, <1>5, TracedStays DEF Inv
  <1> QED
    BY <1>3, <1>7, <1>8, <1>9 DEF Inv

\* What a run does to the manifests while it goes on.
LEMMA ManifestKeeps ==
  ASSUME Inv, NEW p \in Procs, ~At(p, "idle"), NEW r \in Run,
         r.job = run[p].job, r.id = run[p].id, r.pc # "idle",
         run' = [run EXCEPT ![p] = r],
         NEW id \in Id, NEW m \in {"none", "good", "failed"},
         manifest' = [manifest EXCEPT ![id] = m],
         m # "none" => id = run[p].id,
         UNCHANGED <<cfg, now, started, record, check, outcome>>
  PROVE  Inv'
  <1>1. Typed'
    BY DEF Inv, Typed
  <1>2. run'[p] = r /\ \A q \in Procs \ {p} : run'[q] = run[q]
    BY DEF Inv, Typed
  <1>3. \A q \in Procs : /\ run'[q].job = run[q].job /\ run'[q].id = run[q].id
                         /\ At(q, "idle")' <=> At(q, "idle")
    BY <1>2 DEF At
  <1>4. \A q \in Procs : Busy(q)'
    <2> SUFFICES ASSUME NEW q \in Procs, ~At(q, "idle")
                 PROVE  Busy(q)'
      BY <1>3 DEF Busy
    <2>1. Busy(q)
      BY DEF Inv
    <2>2. NameOf(q)' = NameOf(q)
      BY <1>3 DEF NameOf
    <2> QED
      BY <1>3, <2>1, <2>2 DEF Busy
  <1>5. Recorded'
    BY DEF Inv, Recorded
  <1>6. Written(run[p].id)
    BY BusyWrote DEF Inv
  <1>7. \A k \in Id : manifest'[k] # "none" => manifest[k] # "none" \/ Written(k)
    BY <1>6 DEF Inv, Typed
  <1>8. \A n \in Names : outcome[n].at <= outcome'[n].at
    BY DEF Inv, Typed, Outcome
  <1>9. Traced'
    BY <1>1, <1>7, <1>8, TracedStays DEF Inv
  <1> QED
    BY <1>1, <1>4, <1>5, <1>9 DEF Inv

LEMMA StoreManifestKeeps ==
  ASSUME Inv, NEW p \in Procs, StoreManifest(p)
  PROVE  Inv'
  <1>1. PICK failed \in BOOLEAN :
          /\ manifest' = [manifest EXCEPT ![run[p].id] = IF failed THEN "failed" ELSE "good"]
          /\ run' = [run EXCEPT ![p] = [run[p] EXCEPT !.pc = "stored", !.failed = failed]]
    BY DEF StoreManifest, Becomes
  <1>2. run[p] \in Run
    BY DEF Inv, Typed
  <1>3. PICK r : r = [run[p] EXCEPT !.pc = "stored", !.failed = failed]
    OBVIOUS
  <1>4. r \in Run /\ r.job = run[p].job /\ r.id = run[p].id /\ r.pc # "idle" /\ run[p].id \in Id
    BY <1>2, <1>3 DEF Run
  <1>5. ~At(p, "idle") /\ UNCHANGED <<cfg, now, started, record, check, outcome>>
    BY DEF StoreManifest, At
  <1>6. PICK m \in {"none", "good", "failed"} : m = IF failed THEN "failed" ELSE "good"
    OBVIOUS
  <1>7. /\ run' = [run EXCEPT ![p] = r]
        /\ manifest' = [manifest EXCEPT ![run[p].id] = m]
    BY <1>1, <1>3, <1>6
  <1> QED
    BY <1>4, <1>5, <1>7, ManifestKeeps

LEMMA DropManifestKeeps ==
  ASSUME Inv, NEW p \in Procs, DropManifest(p)
  PROVE  Inv'
  <1>2. run[p] \in Run
    BY DEF Inv, Typed
  <1>3. PICK r : r = [run[p] EXCEPT !.pc = "dropped"]
    OBVIOUS
  <1>4. r \in Run /\ r.job = run[p].job /\ r.id = run[p].id /\ r.pc # "idle" /\ run[p].id \in Id
    BY <1>2, <1>3 DEF Run
  <1>5. ~At(p, "idle") /\ UNCHANGED <<cfg, now, started, record, check, outcome>>
    BY DEF DropManifest, At
  <1>7. /\ run' = [run EXCEPT ![p] = r]
        /\ manifest' = [manifest EXCEPT ![run[p].id] = "none"]
    BY <1>3 DEF DropManifest, Becomes
  <1> QED
    BY <1>4, <1>5, <1>7, ManifestKeeps

LEMMA RemoveManifestKeeps ==
  ASSUME Inv, NEW p \in Procs, NEW id \in Id, RemoveManifest(p, id)
  PROVE  Inv'
  <1>1. run[p] \in Run /\ run' = [run EXCEPT ![p] = run[p]]
    BY DEF Inv, Typed, RemoveManifest
  <1>2. ~At(p, "idle") /\ UNCHANGED <<cfg, now, started, record, check, outcome>>
    BY DEF RemoveManifest, At
  <1>3. manifest' = [manifest EXCEPT ![id] = "none"]
    BY DEF RemoveManifest
  <1>4. run[p].pc # "idle"
    BY <1>2 DEF At
  <1> QED
    BY <1>1, <1>2, <1>3, <1>4, ManifestKeeps

\* How a run ends: its record says what it came to, or is lost.
LEMMA EndKeeps ==
  ASSUME TellsApart, Inv, NEW p \in Procs, ~At(p, "idle"),
         UNCHANGED <<cfg, now, started, manifest, check>>,
         Becomes(p, Idle), NEW failed \in BOOLEAN,
         Ends(p, failed) \/ (CameTo(p, "lost") /\ UNCHANGED record)
  PROVE  Inv'
  <1> DEFINE n == NameOf(p)
  <1>1. /\ cfg \in Configs /\ run[p] \in Run /\ run[p].job \in DOMAIN cfg
        /\ run[p].id = NewId(cfg, cfg[run[p].job], outcome[n].at)
        /\ 1 <= outcome[n].at /\ outcome[n].end = "open"
        /\ \A q \in Procs : ~At(q, "idle") /\ run[q].job = run[p].job => q = p
    BY DEF Inv, Typed, Busy
  <1>2. n \in Names /\ outcome[n] \in Outcome /\ outcome[n].at \in Nat
    BY <1>1, JobsOf DEF NameOf, Inv, Typed, Outcome
  <1>3. run[p].id.at = outcome[n].at
    BY <1>1 DEF NewId
  <1>4. PICK end \in {"good", "failed", "lost"} :
          /\ CameTo(p, end)
          /\ \/ /\ end = IF failed THEN "failed" ELSE "good"
                /\ record' = [record EXCEPT ![RecordFile[n]] =
                                [job |-> n, at |-> run[p].id.at, failed |-> failed]]
             \/ end = "lost" /\ record' = record
    <2>1. CASE /\ record' = [record EXCEPT ![RecordFile[n]] =
                               [job |-> n, at |-> run[p].id.at, failed |-> failed]]
               /\ CameTo(p, IF failed THEN "failed" ELSE "good")
      BY <2>1
    <2>2. CASE CameTo(p, "lost") /\ record' = record
      BY <2>2
    <2> QED
      BY <2>1, <2>2 DEF Ends
  <1> DEFINE ended == [at |-> outcome[n].at, end |-> end]
  <1>5. outcome' = [outcome EXCEPT ![n] = ended]
    <2>1. outcome' = [outcome EXCEPT ![n] = [outcome[n] EXCEPT !.end = end]]
      BY <1>2, <1>3, <1>4 DEF CameTo, Inv, Typed
    <2>2. [outcome[n] EXCEPT !.end = end] = ended
      BY <1>2 DEF Outcome
    <2> QED
      BY <2>1, <2>2
  <1>6. /\ run' = [run EXCEPT ![p] = Idle] /\ run'[p] = Idle
        /\ \A q \in Procs \ {p} : run'[q] = run[q]
    BY DEF Becomes, Inv, Typed
  <1>7. /\ outcome'[n] = ended
        /\ \A m \in Names \ {n} : outcome'[m] = outcome[m]
        /\ \A m \in Names : outcome'[m].at = outcome[m].at
    BY <1>2, <1>5 DEF Inv, Typed
  <1> DEFINE rec == [job |-> n, at |-> outcome[n].at, failed |-> failed]
  <1>8. \/ /\ end = IF failed THEN "failed" ELSE "good"
           /\ record' = [record EXCEPT ![RecordFile[n]] = rec]
        \/ end = "lost" /\ record' = record
    BY <1>3, <1>4
  <1>9. RecordFile[n] \in Files /\ rec \in Report /\ ended \in Outcome
    BY <1>2, HealthAssumption DEF Report, Outcome
  <1>10. Typed'
    <2>1. Idle \in Run
      BY HealthAssumption DEF Idle, NoId, Id, Run
    <2>2. run' \in [Procs -> Run]
      BY <2>1, <1>6 DEF Inv, Typed
    <2>3. outcome' \in [Names -> Outcome]
      BY <1>5, <1>9 DEF Inv, Typed
    <2>4. record' \in [Files -> Report]
      BY <1>8, <1>9 DEF Inv, Typed
    <2> QED
      BY <2>2, <2>3, <2>4 DEF Inv, Typed
  <1>11. ASSUME NEW q \in Procs
         PROVE  Busy(q)'
    <2> SUFFICES ASSUME ~At(q, "idle")'
                 PROVE  Busy(q)'
      BY DEF Busy
    <2>1. q # p
      BY <1>6 DEF At, Idle
    <2>2. run'[q] = run[q] /\ ~At(q, "idle") /\ NameOf(q)' = NameOf(q)
      BY <1>6, <2>1 DEF At, NameOf
    <2>3. Busy(q) /\ run[q].job \in DOMAIN cfg /\ run[q].job # run[p].job
      BY <1>1, <2>1, <2>2 DEF Inv, Busy
    <2>4. NameOf(q) \in Names \ {n}
      BY <1>1, <2>3, JobsOf DEF NameOf
    <2>5. outcome'[NameOf(q)] = outcome[NameOf(q)]
      BY <1>7, <2>4
    <2>6. \A r \in Procs : ~At(r, "idle")' => ~At(r, "idle") /\ run'[r].job = run[r].job
      BY <1>6 DEF At, Idle
    <2> QED
      BY <2>2, <2>3, <2>5, <2>6 DEF Busy
  <1>12. Recorded'
    <2>1. ASSUME NEW f \in Files, record'[f] # NoRecord
          PROVE  /\ record'[f].job \in Names /\ f = RecordFile[record'[f].job]
                 /\ 1 <= record'[f].at /\ record'[f].at <= outcome'[record'[f].job].at
      <3>1. CASE record'[f] = record[f]
        BY <1>7, <2>1, <3>1 DEF Inv, Recorded
      <3>2. CASE f = RecordFile[n] /\ record'[f] = rec
        BY <1>1, <1>2, <1>7, <3>2
      <3> QED
        BY <1>8, <3>1, <3>2 DEF Inv, Typed
    <2>2. ASSUME NEW m \in Names, outcome'[m].end \in {"good", "failed"}
          PROVE  record'[RecordFile[m]] = [job |-> m, at |-> outcome'[m].at,
                                           failed |-> outcome'[m].end = "failed"]
      <3>1. CASE m = n
        <4>1. outcome'[n].end = end /\ end # "lost"
          BY <1>7, <2>2, <3>1
        <4>2. record'[RecordFile[n]] = rec /\ (failed <=> end = "failed")
          BY <1>8, <1>9, <4>1 DEF Inv, Typed
        <4>3. failed = (end = "failed")
          BY <4>2
        <4>4. outcome'[n].at = outcome[n].at
          BY <1>7
        <4> QED
          BY <3>1, <4>1, <4>2, <4>3, <4>4
      <3>2. CASE m # n
        <4>1. RecordFile[m] # RecordFile[n] /\ RecordFile[m] \in Files
          BY <1>2, <3>2, HealthAssumption DEF TellsApart
        <4>2. record'[RecordFile[m]] = record[RecordFile[m]] /\ outcome'[m] = outcome[m]
          BY <1>7, <1>8, <3>2, <4>1 DEF Inv, Typed
        <4> QED
          BY <2>2, <4>2 DEF Inv, Recorded
      <3> QED
        BY <3>1, <3>2
    <2> QED
      BY <2>1, <2>2 DEF Recorded
  <1>13. Traced'
    <2>1. \A m \in Names : outcome[m].at <= outcome'[m].at
      BY <1>7 DEF Inv, Typed, Outcome
    <2> QED
      BY <1>10, <2>1, TracedStays DEF Inv
  <1> QED
    BY <1>10, <1>11, <1>12, <1>13 DEF Inv

LEMMA FinishKeeps ==
  ASSUME TellsApart, Inv, NEW p \in Procs, Finish(p)
  PROVE  Inv'
  <1>1. /\ ~At(p, "idle") /\ Becomes(p, Idle)
        /\ UNCHANGED <<cfg, now, started, manifest, check>>
    BY DEF Finish, At
  <1>2. run[p].failed \in BOOLEAN
    BY DEF Inv, Typed, Run
  <1>3. \E failed \in BOOLEAN : Ends(p, failed)
    BY <1>2 DEF Finish
  <1> QED
    BY <1>1, <1>3, EndKeeps

LEMMA AbortKeeps ==
  ASSUME TellsApart, Inv, NEW p \in Procs, Abort(p)
  PROVE  Inv'
  <1>1. /\ ~At(p, "idle") /\ Becomes(p, Idle) /\ Ends(p, TRUE)
        /\ UNCHANGED <<cfg, now, started, manifest, check>>
    BY DEF Abort
  <1> QED
    BY <1>1, EndKeeps

LEMMA KillKeeps ==
  ASSUME TellsApart, Inv, NEW p \in Procs, Kill(p)
  PROVE  Inv'
  <1>1. /\ ~At(p, "idle") /\ Becomes(p, Idle) /\ CameTo(p, "lost") /\ UNCHANGED record
        /\ UNCHANGED <<cfg, now, started, manifest, check>>
    BY DEF Kill, files
  <1>2. TRUE \in BOOLEAN
    OBVIOUS
  <1> QED
    BY <1>1, <1>2, EndKeeps

\* What changes nothing but the check itself.
LEMMA CheckKeeps ==
  ASSUME Inv, CheckBegins \/ CheckEnds
  PROVE  Inv'
  <1>1. UNCHANGED <<cfg, now, started, record, manifest, run, outcome>>
    BY DEF CheckBegins, CheckEnds, files
  <1>2. \/ check' = NoCheck
        \/ check' = [pc |-> "reading", at |-> now,
                     manifests |-> {[id |-> id, failed |-> manifest[id] = "failed"] :
                                      id \in {m \in Id : manifest[m] # "none"}}]
    BY DEF CheckBegins, CheckEnds
  <1>3. Typed'
    BY <1>1, <1>2, HealthAssumption DEF Inv, Typed, NoCheck
  <1>4. \A p \in Procs : Busy(p)'
    BY <1>1 DEF Inv, Busy, At, NameOf
  <1>5. Recorded'
    BY <1>1 DEF Inv, Recorded
  <1>6. ASSUME check'.pc = "reading", NEW m \in check'.manifests
        PROVE  m.id \in Id /\ m.failed \in BOOLEAN /\ Written(m.id)
    <2>1. PICK id \in Id : manifest[id] # "none"
                           /\ m = [id |-> id, failed |-> manifest[id] = "failed"]
      BY <1>2, <1>6 DEF NoCheck
    <2> QED
      BY <2>1 DEF Inv, Traced
  <1>7. Traced'
    BY <1>1, <1>6 DEF Inv, Traced, Written, Wrote
  <1> QED
    BY <1>3, <1>4, <1>5, <1>7 DEF Inv

LEMMA InvStep ==
  ASSUME TellsApart, Inv, [Next]_vars
  PROVE  Inv'
  <1>1. CASE Tick \/ DaemonStart
    BY <1>1, TickKeeps, DaemonStartKeeps
  <1>2. CASE \E p \in Procs, i \in DOMAIN cfg : Begin(p, i)
    BY <1>2, BeginKeeps
  <1>3. CASE \E p \in Procs : StoreManifest(p) \/ DropManifest(p)
    BY <1>3, StoreManifestKeeps, DropManifestKeeps
  <1>4. CASE \E p \in Procs : Finish(p) \/ Abort(p) \/ Kill(p)
    BY <1>4, FinishKeeps, AbortKeeps, KillKeeps
  <1>5. CASE \E p \in Procs, id \in Id : RemoveManifest(p, id)
    BY <1>5, RemoveManifestKeeps
  <1>6. CASE CheckBegins \/ CheckEnds
    BY <1>6, CheckKeeps
  <1>7. CASE UNCHANGED vars
    BY <1>7 DEF vars, Inv, Typed, Busy, At, NameOf, Recorded, Traced, Written, Wrote
  <1> QED
    BY <1>1, <1>2, <1>3, <1>4, <1>5, <1>6, <1>7 DEF Next

\* The invariant the theorems rest on.
LEMMA Invariant ==
  ASSUME TellsApart
  PROVE  Spec => []Inv
  <1>1. Init => Inv
    BY InvInit
  <1>2. Inv /\ [Next]_vars => Inv'
    BY InvStep
  <1> QED
    BY <1>1, <1>2, PTL DEF Spec

-----------------------------------------------------------------------------
(* What the check makes of it *)

\* Only the job wrote what the check counts as its own.
LEMMA WriterIsJob ==
  ASSUME TellsApart, Inv, NEW i \in DOMAIN cfg, ByItself(i),
         NEW id \in Id, Written(id),
         Len(cfg) <= 1 \/ Owns(cfg, i, id, Local, Nobody)
  PROVE  id.at <= outcome[cfg[i].name].at
  <1> DEFINE n == cfg[i].name
  <1>1. cfg \in Configs /\ n \in Names /\ Len(cfg) \in Nat
    BY JobsOf DEF Inv, Typed
  <1>2. PICK m \in Names : Wrote(m, id)
    BY DEF Written
  <1>3. m = n
    <2>1. CASE Len(cfg) <= 1
      <3>1. ~(Len(cfg) > 1)
        BY <1>1, <2>1
      <3>2. id.at >= 1 /\ id.at \in Nat /\ outcome[m].at \in Nat
        BY DEF Id, Inv, Typed, Outcome
      <3>3. id.at <= outcome[m].at
        BY <1>2 DEF Wrote
      <3>4. outcome[m].at # 0
        BY <3>2, <3>3
      <3> QED
        BY <3>1, <3>4 DEF ByItself
    <2>2. CASE Len(cfg) > 1 /\ Owns(cfg, i, id, Local, Nobody)
      <3>1. Slug[n] # Plain /\ Slug[m] # Plain /\ Nobody # n
        BY <1>1, OwnershipAssumption
      <3>2. CASE id.slug = Slug[n]
        BY <1>1, <1>2, <3>1, <3>2 DEF Wrote, TellsApart
      <3>3. CASE id.slug = Plain
        <4>1. PlainAt(cfg, i, Local)
          BY <2>2, <3>1, <3>3, <1>1 DEF Owns
        <4>2. PICK c \in Configs : Len(c) = 1 /\ c[1].name = m
          BY <1>2, <3>1, <3>3 DEF Wrote
        <4> QED
          BY <1>1, <2>2, <4>1, <4>2 DEF TellsApart
      <3> QED
        BY <2>2, <3>2, <3>3 DEF Owns
    <2> QED
      BY <1>1, <2>1, <2>2
  <1> QED
    BY <1>2, <1>3 DEF Wrote

\* A report of the job is at most as new as its newest run, and a record of it
\* is the one in the job's file.
LEMMA OwnReport ==
  ASSUME TellsApart, Inv, check.pc = "reading", NEW i \in DOMAIN cfg, ByItself(i),
         NEW r \in OwnReports(i)
  PROVE  LET n == cfg[i].name
         IN  /\ r.at \in Nat /\ r.failed \in BOOLEAN /\ r.rank \in {0, 1}
             /\ r.at <= outcome[n].at
             /\ r.rank = 1 => r.failed = record[RecordFile[n]].failed
  <1> DEFINE n == cfg[i].name
  <1>1. cfg \in Configs /\ n \in Names /\ Len(cfg) \in Nat /\ Nobody \notin Names
    BY JobsOf, OwnershipAssumption DEF Inv, Typed
  <1>2. r \in ManifestReports \/ r \in RecordReports
    BY DEF OwnReports, Reports
  <1>3. \/ Len(cfg) <= 1
        \/ r.job = n
        \/ r.job = Nobody /\ Owns(cfg, i, r.sid, Local, Nobody)
    BY DEF OwnReports
  <1>4. CASE r \in ManifestReports
    <2>1. PICK m \in check.manifests :
            r = [at |-> m.id.at, rank |-> 0, failed |-> m.failed, job |-> Nobody, sid |-> m.id]
      BY <1>4 DEF ManifestReports
    <2>2. m.id \in Id /\ m.failed \in BOOLEAN /\ Written(m.id)
      BY DEF Inv, Traced
    <2>3. Len(cfg) <= 1 \/ Owns(cfg, i, m.id, Local, Nobody)
      BY <1>1, <1>3, <2>1
    <2>4. m.id.at <= outcome[n].at
      BY <2>2, <2>3, WriterIsJob
    <2>5. m.id.at \in Nat
      BY <2>2 DEF Id
    <2> QED
      BY <2>1, <2>2, <2>4, <2>5
  <1>5. CASE r \in RecordReports
    <2>1. PICK f \in Files :
            /\ record[f] # NoRecord
            /\ r = [at |-> record[f].at, rank |-> 1, failed |-> record[f].failed,
                    job |-> record[f].job, sid |-> NoId]
      BY <1>5 DEF RecordReports
    <2>2. /\ record[f].job \in Names /\ f = RecordFile[record[f].job]
          /\ 1 <= record[f].at /\ record[f].at <= outcome[record[f].job].at
      BY <2>1 DEF Inv, Recorded
    <2>3. record[f].at \in Nat /\ record[f].failed \in BOOLEAN
          /\ outcome[record[f].job].at \in Nat
      BY <2>2 DEF Inv, Typed, Report, Outcome
    <2>4. record[f].job = n
      <3>1. CASE Len(cfg) <= 1
        <4>1. ~(Len(cfg) > 1)
          BY <1>1, <3>1
        <4>2. outcome[record[f].job].at # 0
          BY <2>2, <2>3
        <4> QED
          BY <2>2, <4>1, <4>2 DEF ByItself
      <3>2. CASE r.job = n
        BY <2>1, <3>2
      <3>3. CASE r.job = Nobody
        BY <1>1, <2>1, <2>2, <3>3
      <3> QED
        BY <1>3, <3>1, <3>2, <3>3
    <2> QED
      BY <2>1, <2>2, <2>3, <2>4
  <1> QED
    BY <1>2, <1>4, <1>5

\* A newest run that was recorded is what the check judges the job by.
LEMMA RecordCounts ==
  ASSUME TellsApart, Inv, check.pc = "reading", NEW i \in DOMAIN cfg, ByItself(i),
         outcome[cfg[i].name].end \in {"good", "failed"}
  PROVE  LET n == cfg[i].name
         IN  /\ OwnReports(i) # {}
             /\ \A r \in Latest(OwnReports(i)) :
                  r.at = outcome[n].at /\ r.failed = (outcome[n].end = "failed")
  <1> DEFINE n   == cfg[i].name
             own == [at |-> outcome[n].at, rank |-> 1, failed |-> outcome[n].end = "failed",
                     job |-> n, sid |-> NoId]
  <1>1. n \in Names /\ RecordFile[n] \in Files /\ n # Nobody /\ outcome[n].at \in Nat
    BY JobsOf, OwnershipAssumption, HealthAssumption DEF Inv, Typed, Outcome
  <1>2. record[RecordFile[n]] = [job |-> n, at |-> outcome[n].at,
                                 failed |-> outcome[n].end = "failed"]
    BY <1>1 DEF Inv, Recorded
  <1>3. record[RecordFile[n]].job = n /\ record[RecordFile[n]].at = outcome[n].at
        /\ record[RecordFile[n]].failed = (outcome[n].end = "failed")
    BY <1>2
  <1>4. record[RecordFile[n]] # NoRecord
    BY <1>1, <1>3 DEF NoRecord
  <1>5. own \in RecordReports
    BY <1>1, <1>3, <1>4 DEF RecordReports
  <1>6. own \in OwnReports(i)
    BY <1>5 DEF OwnReports, Reports
  <1>7. ASSUME NEW r \in Latest(OwnReports(i))
        PROVE  r.at = outcome[n].at /\ r.failed = (outcome[n].end = "failed")
    <2>1. r \in OwnReports(i) /\ (own.at < r.at \/ (own.at = r.at /\ own.rank <= r.rank))
      BY <1>6 DEF Latest
    <2>2. /\ r.at \in Nat /\ r.rank \in {0, 1} /\ r.at <= outcome[n].at
          /\ r.rank = 1 => r.failed = record[RecordFile[n]].failed
      BY <2>1, OwnReport
    <2>3. own.at = outcome[n].at /\ own.rank = 1
      OBVIOUS
    <2>4. r.at = outcome[n].at /\ 1 <= r.rank
      BY <1>1, <2>1, <2>2, <2>3
    <2>5. r.rank = 1
      BY <2>2, <2>4
    <2> QED
      BY <1>3, <2>2, <2>4, <2>5
  <1> QED
    BY <1>6, <1>7

\* A job that can only be judged unhealthy makes the verdict so.
LEMMA OneIsEnough ==
  ASSUME NEW i \in DOMAIN cfg,
         TRUE \notin Judge(OwnReports(i), cfg[i].max_age, check.at, started)
  PROVE  ~MayAnswer(TRUE)
  <1> SUFFICES ASSUME TRUE \in Verdicts
               PROVE  FALSE
    BY DEF MayAnswer
  <1>1. PICK h \in [DOMAIN cfg -> BOOLEAN] :
          /\ \A k \in DOMAIN cfg :
               h[k] \in Judge(OwnReports(k), cfg[k].max_age, check.at, started)
          /\ TRUE = \A k \in DOMAIN cfg : h[k]
    BY DEF Verdicts
  <1>2. h[i] \in BOOLEAN /\ h[i]
    BY <1>1
  <1>3. h[i] = TRUE
    BY <1>2
  <1> QED
    BY <1>1, <1>3

LEMMA FailureFromInv ==
  ASSUME TellsApart, Inv
  PROVE  FailureShows
  <1> SUFFICES ASSUME NEW i \in DOMAIN cfg, ByItself(i),
                      outcome[cfg[i].name].end = "failed", check.pc = "reading"
               PROVE  ~MayAnswer(TRUE)
    BY DEF FailureShows, MayAnswer
  <1> DEFINE reports == OwnReports(i)
  <1>1. reports # {} /\ \A r \in Latest(reports) : r.failed = TRUE
    BY RecordCounts
  <1>2. TRUE \notin Judge(reports, cfg[i].max_age, check.at, started)
    BY <1>1 DEF Judge
  <1> QED
    BY <1>2, OneIsEnough

LEMMA StalenessFromInv ==
  ASSUME TellsApart, Inv
  PROVE  StalenessShows
  <1> DEFINE oldest(i) == check.at - cfg[i].max_age
             young(i)  == /\ started # 0 /\ started >= oldest(i)
                          /\ outcome[cfg[i].name].end \notin {"good", "failed"}
  <1> SUFFICES ASSUME NEW i \in DOMAIN cfg, ByItself(i),
                      outcome[cfg[i].name].at < oldest(i), ~young(i), check.pc = "reading"
               PROVE  ~MayAnswer(TRUE)
    BY DEF StalenessShows, MayAnswer
  <1> DEFINE reports == OwnReports(i)
  <1>1. /\ cfg[i].max_age \in Nat /\ check.at \in Nat /\ started \in Nat
        /\ outcome[cfg[i].name].at \in Nat
    BY JobsOf DEF Inv, Typed, Outcome
  <1>2. TRUE \notin Judge(reports, cfg[i].max_age, check.at, started)
    <2>1. CASE reports = {}
      <3>1. outcome[cfg[i].name].end \notin {"good", "failed"}
        BY <2>1, RecordCounts
      <3>2. started = 0 \/ started < oldest(i)
        BY <1>1, <3>1
      <3>3. ~(started # 0 /\ check.at - started <= cfg[i].max_age)
        BY <1>1, <3>2
      <3> QED
        BY <2>1, <3>3 DEF Judge
    <2>2. CASE reports # {}
      <3>1. ASSUME NEW r \in Latest(reports)
            PROVE  ~(check.at - r.at <= cfg[i].max_age)
        <4>1. r \in reports
          BY DEF Latest
        <4>2. r.at \in Nat /\ r.at <= outcome[cfg[i].name].at
          BY <4>1, OwnReport
        <4> QED
          BY <1>1, <4>2
      <3> QED
        BY <2>2, <3>1 DEF Judge
    <2> QED
      BY <2>1, <2>2
  <1> QED
    BY <1>2, OneIsEnough

LEMMA HealthyFromInv ==
  ASSUME TellsApart, Inv
  PROVE  GoodRunsAreHealthy
  <1> SUFFICES ASSUME \A i \in DOMAIN cfg :
                        /\ ByItself(i)
                        /\ outcome[cfg[i].name].end = "good"
                        /\ outcome[cfg[i].name].at >= check.at - cfg[i].max_age,
                      check.pc = "reading", FALSE \in Verdicts
               PROVE  FALSE
    BY DEF GoodRunsAreHealthy, MayAnswer
  <1>1. ASSUME NEW i \in DOMAIN cfg
        PROVE  \A h \in Judge(OwnReports(i), cfg[i].max_age, check.at, started) : h
    <2> DEFINE reports == OwnReports(i)
    <2>1. reports # {} /\ \A r \in Latest(reports) :
            r.at = outcome[cfg[i].name].at /\ r.failed = FALSE
      BY RecordCounts
    <2>2. /\ cfg[i].max_age \in Nat /\ check.at \in Nat /\ outcome[cfg[i].name].at \in Nat
          /\ outcome[cfg[i].name].at >= check.at - cfg[i].max_age
      BY JobsOf DEF Inv, Typed, Outcome
    <2>3. check.at - outcome[cfg[i].name].at <= cfg[i].max_age
      BY <2>2
    <2>4. \A r \in Latest(reports) : ~r.failed /\ check.at - r.at <= cfg[i].max_age
      BY <2>1, <2>3
    <2> QED
      BY <2>1, <2>4 DEF Judge
  <1>2. PICK h \in [DOMAIN cfg -> BOOLEAN] :
          /\ \A k \in DOMAIN cfg :
               h[k] \in Judge(OwnReports(k), cfg[k].max_age, check.at, started)
          /\ FALSE = \A k \in DOMAIN cfg : h[k]
    BY DEF Verdicts
  <1>3. \A k \in DOMAIN cfg : h[k]
    BY <1>1, <1>2
  <1> QED
    BY <1>2, <1>3

(***************************************************************************)
(* healthcheck.py, _judge: a recorded failure of a job's newest run keeps  *)
(* the check unhealthy, whatever the other jobs and the files of earlier   *)
(* configurations say.                                                     *)
(***************************************************************************)
THEOREM FailuresShow ==
  ASSUME TellsApart
  PROVE  Spec => []FailureShows
  <1>1. Inv => FailureShows
    BY FailureFromInv
  <1> QED
    BY <1>1, Invariant, PTL

(***************************************************************************)
(* healthcheck.py, _judge: a job that has begun no run within its max age  *)
(* makes the check unhealthy, unless nothing is known of its runs and the  *)
(* daemon has not been up for as long.                                     *)
(***************************************************************************)
THEOREM StaleJobsShow ==
  ASSUME TellsApart
  PROVE  Spec => []StalenessShows
  <1>1. Inv => StalenessShows
    BY StalenessFromInv
  <1> QED
    BY <1>1, Invariant, PTL

(***************************************************************************)
(* healthcheck.py, _judge: fresh and successful runs of every job are not  *)
(* reported as unhealthy, though manifests come and go while it reads.     *)
(***************************************************************************)
THEOREM GoodRunsPass ==
  ASSUME TellsApart
  PROVE  Spec => []GoodRunsAreHealthy
  <1>1. Inv => GoodRunsAreHealthy
    BY HealthyFromInv
  <1> QED
    BY <1>1, Invariant, PTL
=============================================================================
