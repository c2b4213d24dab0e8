-------------------------- MODULE Restore_proofs --------------------------
(* Nothing unproven reaches a backend, a refusal has a reason, and a success *)
(* holds everything, for every configuration and any number of commands.     *)
EXTENDS Restore, TLAPS

Typed ==
  /\ cmd \in Cmd
  /\ data \in DataDir
  /\ held \in [Buckets -> Store]
  /\ job \in Jobs
  /\ rotten \in BOOLEAN
  /\ cmd.pc = "get" => Bucket \in Buckets

(* The fields of the command after the assignments most steps make.          *)
Keeps == /\ cmd'.verb = cmd.verb /\ cmd'.only = cmd.only /\ cmd'.bucket = cmd.bucket
         /\ cmd'.left = cmd.left /\ cmd'.read = cmd.read
Counts == cmd'.component = cmd.component /\ cmd'.ok = cmd.ok

LEMMA CmdMoves ==
  ASSUME cmd \in Cmd
  PROVE  /\ \A x \in Pcs : Goes(x) =>
              /\ cmd' \in Cmd /\ Keeps /\ Counts /\ cmd'.pc = x
              /\ cmd'.result = cmd.result /\ cmd'.disturbed = cmd.disturbed
         /\ \A res \in Results : Ends(res) =>
              /\ cmd' \in Cmd /\ Keeps /\ Counts /\ cmd'.pc = "idle"
              /\ cmd'.result = res /\ cmd'.disturbed = cmd.disturbed
         /\ \A res \in Results : EndsDisturbed(res) =>
              /\ cmd' \in Cmd /\ Keeps /\ Counts /\ cmd'.pc = "idle"
              /\ cmd'.result = res /\ cmd'.disturbed
<1>r. PICK r : r = cmd
  OBVIOUS
<1>0. r \in Cmd /\ "idle" \in Pcs
  BY <1>r DEF Pcs
<1>1. ASSUME NEW x \in Pcs, Goes(x)
      PROVE  /\ cmd' \in Cmd /\ Keeps /\ Counts /\ cmd'.pc = x
             /\ cmd'.result = cmd.result /\ cmd'.disturbed = cmd.disturbed
  <2>1. PICK q : q = [r EXCEPT !.pc = x]
    OBVIOUS
  <2>2. cmd' = q
    BY <1>r, <1>1, <2>1 DEF Goes
  <2> QED BY <1>r, <1>0, <2>1, <2>2 DEF Cmd, Keeps, Counts
<1>2. ASSUME NEW res \in Results, Ends(res)
      PROVE  /\ cmd' \in Cmd /\ Keeps /\ Counts /\ cmd'.pc = "idle"
             /\ cmd'.result = res /\ cmd'.disturbed = cmd.disturbed
  <2>1. PICK q : q = [r EXCEPT !.pc = "idle", !.result = res]
    OBVIOUS
  <2>2. cmd' = q
    BY <1>r, <1>2, <2>1 DEF Ends
  <2> QED BY <1>r, <1>0, <2>1, <2>2 DEF Cmd, Keeps, Counts
<1>3. ASSUME NEW res \in Results, EndsDisturbed(res)
      PROVE  /\ cmd' \in Cmd /\ Keeps /\ Counts /\ cmd'.pc = "idle"
             /\ cmd'.result = res /\ cmd'.disturbed
  <2>1. PICK q : q = [r EXCEPT !.pc = "idle", !.result = res, !.disturbed = TRUE]
    OBVIOUS
  <2>2. cmd' = q
    BY <1>r, <1>3, <2>1 DEF EndsDisturbed
  <2> QED BY <1>r, <1>0, <2>1, <2>2 DEF Cmd, Keeps, Counts
<1> QED BY <1>1, <1>2, <1>3

LEMMA Fresh ==
  /\ NoCommand.pc = "idle" /\ NoCommand.result = "none" /\ NoCommand.bucket = 1
  /\ NoCommand.component = 1 /\ NoCommand.ok
  /\ NoCommand \in Cmd
<1>1. {} \in Selections /\ <<>> \in Seq(Keys)
  BY SelectionsAssumption
<1> QED BY <1>1 DEF NoCommand, Cmd, Pcs, Verbs, Copies, Results

-----------------------------------------------------------------------------
(* What steps of every kind do to the command.                               *)
Making   == MakeStep \/ StoreSnapshot
Fetching == TryBucket \/ ListingFails \/ NoBucketLeft \/ GetKey \/ Hydrated \/ GetFails \/ KeyGone
Opening  == Open \/ Extract \/ DecryptionFails \/ PreRestoreHook \/ HookRaises
OneComponent == SkipComponent \/ ReplayComponent \/ NothingToReplay \/ ComponentFails
Replaying == OneComponent \/ ComponentsDone \/ RestoreEnds
Begins   == \E verb \in Verbs, only \in Selections : Command(verb, only)

LEMMA Cases ==
  Next <=> \/ Making \/ Reconfigure \/ Begins \/ Fetching \/ Opening \/ Replaying
           \/ Kill \/ Interference
BY DEF Next, Making, Begins, Fetching, Opening, Replaying, OneComponent

LEMMA Begun ==
  ASSUME Begins
  PROVE  \E verb \in Verbs, only \in Selections :
           /\ phase = "stored" /\ cmd.pc = "idle"
           /\ cmd' \in Cmd /\ cmd'.verb = verb /\ cmd'.only = only
           /\ cmd'.pc = (IF IsLocal THEN "open" ELSE "hydrate")
           /\ cmd'.bucket = 1 /\ cmd'.result = "none"
           /\ cmd'.component = 1 /\ cmd'.ok
           /\ before' = live
           /\ UNCHANGED <<snapshotVars, storeVars, faults, rotten>>
<1>1. PICK verb \in Verbs, only \in Selections : Command(verb, only)
  BY DEF Begins
<1>2. PICK pc \in {"open", "hydrate"} : pc = IF IsLocal THEN "open" ELSE "hydrate"
  OBVIOUS
<1>3. PICK r : r = NoCommand
  OBVIOUS
<1>4. PICK q : q = [r EXCEPT !.pc = pc, !.verb = verb, !.only = only]
  OBVIOUS
<1>5. cmd' = q
  BY <1>1, <1>2, <1>3, <1>4 DEF Command
<1>6. /\ r \in Cmd /\ r.bucket = 1 /\ r.result = "none" /\ pc \in Pcs
      /\ r.component = 1 /\ r.ok
  BY <1>2, <1>3, Fresh DEF Pcs
<1>7. /\ q \in Cmd /\ q.verb = verb /\ q.only = only /\ q.pc = pc
      /\ q.bucket = 1 /\ q.result = "none" /\ q.component = 1 /\ q.ok
  BY <1>4, <1>6 DEF Cmd
<1> QED BY <1>1, <1>2, <1>5, <1>7 DEF Command

(* The steps that take the hydration a bucket, or a key, further.            *)
Further == cmd'.verb = cmd.verb /\ cmd'.only = cmd.only /\ cmd'.read = cmd.read
           /\ cmd'.result = cmd.result /\ Counts

LEMMA Tries ==
  ASSUME Typed, TryBucket \/ ListingFails
  PROVE  /\ cmd' \in Cmd /\ Further
         /\ \/ /\ TryBucket /\ held[Bucket].manifest /\ held[Bucket].archive # "none"
               /\ cmd'.pc = "get" /\ cmd'.left = HydrationKeys /\ cmd'.bucket = cmd.bucket
               /\ cmd'.disturbed = cmd.disturbed
            \/ /\ cmd'.pc = "hydrate" /\ cmd'.bucket = cmd.bucket + 1
               /\ \/ /\ ~(held[Bucket].manifest /\ held[Bucket].archive # "none")
                     /\ cmd'.disturbed = cmd.disturbed
                  \/ cmd'.disturbed
<1>r. PICK r : r = cmd
  OBVIOUS
<1>0. r \in Cmd /\ r.pc = "hydrate" /\ r.bucket \in Nat /\ "get" \in Pcs /\ HydrationKeys \in Seq(Keys)
  <2>1. HydrationKeys \in Seq(Keys)
    BY DEF HydrationKeys, Keys
  <2>2. r \in Cmd /\ r.pc = "hydrate"
    BY <1>r DEF Typed, TryBucket, ListingFails
  <2> QED BY <2>1, <2>2 DEF Pcs, Cmd
<1>1. CASE TryBucket /\ held[Bucket].manifest /\ held[Bucket].archive # "none"
  <2>1. PICK q : q = [r EXCEPT !.pc = "get", !.left = HydrationKeys]
    OBVIOUS
  <2>2. cmd' = q
    BY <1>r, <1>1, <2>1 DEF TryBucket
  <2>3. /\ q \in Cmd /\ q.pc = "get" /\ q.left = HydrationKeys /\ q.bucket = r.bucket
        /\ q.verb = r.verb /\ q.only = r.only /\ q.read = r.read
        /\ q.component = r.component /\ q.ok = r.ok
        /\ q.result = r.result /\ q.disturbed = r.disturbed
    BY <1>0, <2>1 DEF Cmd
  <2> QED BY <1>r, <1>1, <2>2, <2>3 DEF Further, Counts
<1>2. CASE TryBucket /\ ~(held[Bucket].manifest /\ held[Bucket].archive # "none")
  <2>1. PICK q : q = [r EXCEPT !.bucket = r.bucket + 1]
    OBVIOUS
  <2>2. cmd' = q
    BY <1>r, <1>2, <2>1 DEF TryBucket
  <2>3. /\ q \in Cmd /\ q.pc = r.pc /\ q.bucket = r.bucket + 1
        /\ q.verb = r.verb /\ q.only = r.only /\ q.read = r.read
        /\ q.component = r.component /\ q.ok = r.ok
        /\ q.result = r.result /\ q.disturbed = r.disturbed
    BY <1>0, <2>1 DEF Cmd
  <2> QED BY <1>r, <1>0, <1>2, <2>2, <2>3 DEF Further, Counts
<1>3. CASE ListingFails
  <2>1. PICK q : q = [r EXCEPT !.bucket = r.bucket + 1, !.disturbed = TRUE]
    OBVIOUS
  <2>2. cmd' = q
    BY <1>r, <1>3, <2>1 DEF ListingFails
  <2>3. /\ q \in Cmd /\ q.pc = r.pc /\ q.bucket = r.bucket + 1
        /\ q.verb = r.verb /\ q.only = r.only /\ q.read = r.read
        /\ q.component = r.component /\ q.ok = r.ok
        /\ q.result = r.result /\ q.disturbed = TRUE
    <3>1. r.bucket + 1 \in Nat /\ TRUE \in BOOLEAN
      BY <1>0
    <3> QED BY <1>0, <2>1, <3>1 DEF Cmd
  <2> QED BY <1>r, <1>0, <2>2, <2>3 DEF Further, Counts
<1> QED BY <1>1, <1>2, <1>3

LEMMA Gets ==
  ASSUME Typed, GetKey
  PROVE  /\ cmd' \in Cmd /\ Further /\ cmd'.pc = "get"
         /\ cmd'.bucket = cmd.bucket /\ cmd'.left = Tail(cmd.left)
         /\ cmd'.disturbed = cmd.disturbed
         /\ data' \in DataDir /\ data'.cut_off = data.cut_off
         /\ \/ /\ Head(cmd.left) = "archive"
               /\ held[Bucket].archive # "none"
               /\ data'.archive = held[Bucket].archive /\ data'.manifest = data.manifest
            \/ /\ Head(cmd.left) = "manifest"
               /\ data'.archive = data.archive /\ data'.manifest
<1>r. PICK r : r = cmd
  OBVIOUS
<1>0. r \in Cmd /\ r.pc = "get" /\ Tail(r.left) \in Seq(Keys)
  <2>1. r \in Cmd /\ r.pc = "get" /\ r.left # <<>>
    BY <1>r DEF Typed, GetKey
  <2>2. r.left \in Seq(Keys)
    BY <2>1 DEF Cmd
  <2> QED BY <2>1, <2>2
<1>1. PICK q : q = [r EXCEPT !.left = Tail(r.left)]
  OBVIOUS
<1>2. cmd' = q
  BY <1>r, <1>1 DEF GetKey
<1>3. /\ q \in Cmd /\ q.pc = r.pc /\ q.left = Tail(r.left) /\ q.bucket = r.bucket
      /\ q.verb = r.verb /\ q.only = r.only /\ q.read = r.read
      /\ q.component = r.component /\ q.ok = r.ok
        /\ q.result = r.result /\ q.disturbed = r.disturbed
  BY <1>0, <1>1 DEF Cmd
<1>4. data \in DataDir
  BY DEF Typed
<1>5. CASE Head(cmd.left) = "archive" /\ held[Bucket].archive # "none"
           /\ data' = [data EXCEPT !.archive = held[Bucket].archive]
  <2>1. held[Bucket].archive \in Copies
    BY <1>r, <1>0 DEF Typed, Store
  <2>2. /\ data' \in DataDir /\ data'.cut_off = data.cut_off
        /\ data'.archive = held[Bucket].archive /\ data'.manifest = data.manifest
    BY <1>4, <1>5, <2>1 DEF DataDir
  <2> QED BY <1>r, <1>0, <1>2, <1>3, <1>5, <2>2 DEF Further, Counts
<1>6. CASE Head(cmd.left) = "manifest" /\ data' = [data EXCEPT !.manifest = TRUE]
  <2>1. /\ data' \in DataDir /\ data'.cut_off = data.cut_off
        /\ data'.archive = data.archive /\ data'.manifest
    BY <1>4, <1>6 DEF DataDir
  <2> QED BY <1>r, <1>0, <1>2, <1>3, <1>6, <2>1 DEF Further, Counts
<1> QED BY <1>5, <1>6 DEF GetKey

LEMMA Extracts ==
  ASSUME Typed, Extract
  PROVE  /\ cmd' \in Cmd /\ cmd'.verb = cmd.verb /\ cmd'.only = cmd.only
         /\ cmd'.bucket = cmd.bucket /\ Counts
         /\ cmd'.disturbed \/ cmd'.disturbed = cmd.disturbed
         /\ \/ cmd'.pc = "idle" /\ cmd'.result \in {"invalid", "raised"}
            \/ /\ cmd'.pc = "pre_restore" /\ cmd'.read = data.archive /\ data.archive # "none"
               /\ cmd'.result = cmd.result
<1>r. PICK r : r = cmd
  OBVIOUS
<1>0. r \in Cmd /\ data.archive \in Copies
  BY <1>r DEF Typed, DataDir
<1>1. CASE Ends("invalid") \/ EndsDisturbed("raised")
  BY <1>r, <1>0, <1>1, CmdMoves DEF Keeps, Results
<1>2. CASE data.archive # "none" /\ cmd' = [cmd EXCEPT !.pc = "pre_restore", !.read = data.archive]
  <2>1. PICK q : q = [r EXCEPT !.pc = "pre_restore", !.read = data.archive]
    OBVIOUS
  <2>2. cmd' = q
    BY <1>r, <1>2, <2>1
  <2>3. /\ q \in Cmd /\ q.pc = "pre_restore" /\ q.read = data.archive
        /\ q.verb = r.verb /\ q.only = r.only /\ q.bucket = r.bucket
        /\ q.component = r.component /\ q.ok = r.ok
        /\ q.result = r.result /\ q.disturbed = r.disturbed
    BY <1>0, <2>1 DEF Cmd, Pcs
  <2> QED BY <1>r, <1>2, <2>2, <2>3 DEF Counts
<1> QED BY <1>1, <1>2 DEF Extract

LEMMA Components ==
  ASSUME cmd \in Cmd, OneComponent
  PROVE  /\ cmd' \in Cmd /\ Keeps /\ cmd'.pc = "components" /\ cmd'.result = cmd.result
         /\ cmd'.component = cmd.component + 1
         /\ \/ SkipComponent \/ ReplayComponent
            \/ ~cmd'.ok
         /\ cmd'.ok => cmd.ok
<1>r. PICK r : r = cmd
  OBVIOUS
<1>0. r \in Cmd /\ r.pc = "components" /\ r.component + 1 \in Nat
  <2>1. r \in Cmd /\ r.pc = "components"
    BY <1>r DEF OneComponent, SkipComponent, ReplayComponent, NothingToReplay, ComponentFails,
                AtComponent
  <2>2. r.component \in Nat
    BY <2>1 DEF Cmd
  <2> QED BY <2>1, <2>2
<1>1. CASE SkipComponent \/ ReplayComponent
  <2>1. PICK q : q = [r EXCEPT !.component = r.component + 1]
    OBVIOUS
  <2>2. cmd' = q
    BY <1>r, <1>1, <2>1 DEF SkipComponent, ReplayComponent
  <2> QED BY <1>r, <1>0, <1>1, <2>1, <2>2 DEF Cmd, Keeps
<1>2. CASE NothingToReplay
  <2>1. PICK q : q = [r EXCEPT !.component = r.component + 1, !.ok = FALSE]
    OBVIOUS
  <2>2. cmd' = q
    BY <1>r, <1>2, <2>1 DEF NothingToReplay
  <2> QED BY <1>r, <1>0, <2>1, <2>2 DEF Cmd, Keeps
<1>3. CASE ComponentFails
  <2>1. PICK q : q = [r EXCEPT !.component = r.component + 1, !.ok = FALSE, !.disturbed = TRUE]
    OBVIOUS
  <2>2. cmd' = q
    BY <1>r, <1>3, <2>1 DEF ComponentFails
  <2> QED BY <1>r, <1>0, <2>1, <2>2 DEF Cmd, Keeps
<1> QED BY <1>1, <1>2, <1>3 DEF OneComponent

LEMMA Interferes ==
  ASSUME Typed, Interference
  PROVE  /\ cmd' \in Cmd /\ Keeps /\ Counts /\ cmd'.pc = cmd.pc /\ cmd'.result = cmd.result
         /\ cmd'.disturbed
         /\ data' \in DataDir /\ held' \in [Buckets -> Store]
         /\ data'.archive \in {data.archive, "none"} /\ (data'.manifest => data.manifest)
         /\ rotten' \in BOOLEAN /\ (rotten => rotten')
         /\ \/ rotten'
            \/ \A b \in Buckets : held'[b].archive \in {held[b].archive, "none"}
         /\ UNCHANGED <<snapshotVars, commands, before>>
<1>r. PICK r : r = cmd
  OBVIOUS
<1>1. PICK q : q = [r EXCEPT !.disturbed = TRUE]
  OBVIOUS
<1>2. cmd' = q /\ r \in Cmd
  BY <1>r, <1>1 DEF Interference, Typed
<1>3. /\ cmd' \in Cmd /\ Keeps /\ Counts /\ cmd'.pc = cmd.pc /\ cmd'.result = cmd.result
      /\ cmd'.disturbed
  BY <1>r, <1>1, <1>2 DEF Cmd, Keeps, Counts
<1>4. data \in DataDir /\ held \in [Buckets -> Store] /\ rotten \in BOOLEAN
  BY DEF Typed
<1>5. UNCHANGED <<snapshotVars, commands, before>>
  BY DEF Interference
<1>6. CASE /\ \/ data' = [data EXCEPT !.archive = "none"]
              \/ data' = [data EXCEPT !.manifest = FALSE]
           /\ UNCHANGED <<held, rotten>>
  <2>1. data' \in DataDir /\ data'.archive \in {data.archive, "none"}
        /\ (data'.manifest => data.manifest)
    BY <1>4, <1>6 DEF DataDir, Copies
  <2> QED BY <1>3, <1>4, <1>5, <1>6, <2>1
<1>7. ASSUME NEW b \in Buckets,
             \/ held' = [held EXCEPT ![b].archive = "none"] /\ UNCHANGED <<data, rotten>>
             \/ held' = [held EXCEPT ![b].manifest = FALSE] /\ UNCHANGED <<data, rotten>>
             \/ held' = [held EXCEPT ![b].archive = "torn"] /\ rotten' = TRUE /\ UNCHANGED data
      PROVE  /\ data' \in DataDir /\ held' \in [Buckets -> Store]
             /\ data'.archive \in {data.archive, "none"} /\ (data'.manifest => data.manifest)
             /\ rotten' \in BOOLEAN /\ (rotten => rotten')
             /\ \/ rotten'
                \/ \A x \in Buckets : held'[x].archive \in {held[x].archive, "none"}
  <2>1. PICK h : h = held[b]
    OBVIOUS
  <2>2. h \in Store
    BY <1>4, <2>1
  <2>3. PICK g \in Store :
          /\ held' = [held EXCEPT ![b] = g]
          /\ g.archive \in {h.archive, "none"} \/ rotten'
    <3>1. CASE held' = [held EXCEPT ![b].archive = "none"]
      <4>1. PICK g : g = [h EXCEPT !.archive = "none"]
        OBVIOUS
      <4>2. g \in Store /\ g.archive = "none"
        BY <2>2, <4>1 DEF Store, Copies
      <4>3. held' = [held EXCEPT ![b] = g]
        BY <2>1, <3>1, <4>1
      <4> QED BY <4>2, <4>3
    <3>2. CASE held' = [held EXCEPT ![b].manifest = FALSE]
      <4>1. PICK g : g = [h EXCEPT !.manifest = FALSE]
        OBVIOUS
      <4>2. g \in Store /\ g.archive = h.archive
        BY <2>2, <4>1 DEF Store, Copies
      <4>3. held' = [held EXCEPT ![b] = g]
        BY <2>1, <3>2, <4>1
      <4> QED BY <4>2, <4>3
    <3>3. CASE held' = [held EXCEPT ![b].archive = "torn"] /\ rotten' = TRUE
      <4>1. PICK g : g = [h EXCEPT !.archive = "torn"]
        OBVIOUS
      <4>2. g \in Store
        BY <2>2, <4>1 DEF Store, Copies
      <4>3. held' = [held EXCEPT ![b] = g]
        BY <2>1, <3>3, <4>1
      <4> QED BY <3>3, <4>2, <4>3
    <3> QED BY <1>7, <3>1, <3>2, <3>3
  <2>4. held' \in [Buckets -> Store] /\ held'[b] = g
        /\ \A x \in Buckets \ {b} : held'[x] = held[x]
    BY <1>4, <2>3
  <2>5. data' = data /\ rotten' \in {rotten, TRUE}
    BY <1>7
  <2>6. rotten' \/ \A x \in Buckets : held'[x].archive \in {held[x].archive, "none"}
    BY <2>1, <2>3, <2>4
  <2> QED BY <1>4, <2>4, <2>5, <2>6
<1> QED BY <1>3, <1>4, <1>5, <1>6, <1>7 DEF Interference

-----------------------------------------------------------------------------
(* The command stays typed, and the bucket it downloads from is the job's.   *)
LEMMA Kills ==
  ASSUME Typed, Kill
  PROVE  /\ cmd' \in Cmd /\ Keeps /\ Counts /\ cmd'.pc = "idle" /\ cmd'.result = "killed"
         /\ cmd'.disturbed
         /\ data' \in DataDir /\ data'.archive = data.archive /\ data'.manifest = data.manifest
         /\ cmd.pc # "components" => UNCHANGED live
         /\ UNCHANGED <<job, phase, runVars, snap, held, commands, before, rotten>>
<1>1. cmd \in Cmd /\ data \in DataDir /\ "killed" \in Results
  BY DEF Typed, Results
<1>2. EndsDisturbed("killed")
  BY DEF Kill
<1>3. data' = data \/ data' = [data EXCEPT !.cut_off = TRUE]
  BY DEF Kill
<1>4. data' \in DataDir /\ data'.archive = data.archive /\ data'.manifest = data.manifest
  BY <1>1, <1>3 DEF DataDir
<1>5. /\ cmd.pc # "components" => UNCHANGED live
      /\ UNCHANGED <<job, phase, runVars, snap, held, commands, before, rotten>>
  BY DEF Kill, AtComponent
<1> QED BY <1>1, <1>2, <1>4, <1>5, CmdMoves

LEMMA TypedNext ==
  ASSUME Typed, [Next]_vars
  PROVE  Typed'
<1> DEFINE Rest == /\ data' \in DataDir /\ held' \in [Buckets -> Store]
                   /\ job' \in Jobs /\ rotten' \in BOOLEAN
<1>0. cmd \in Cmd
  BY DEF Typed
<1>1. CASE UNCHANGED vars \/ MakeStep
  <2>1. UNCHANGED <<cmd, storeVars, rotten>> /\ job' = job
    BY <1>1 DEF vars, snapshotVars, MakeStep, MakeSnapshot, SkipSource, ProduceSource,
                SourceReportsError, Fails, SourceRaises, Produced, Encrypt, EncryptionFails, Bundle,
                NextSource
  <2> QED BY <2>1 DEF Typed, Bucket, storeVars
<1>2. CASE StoreSnapshot
  <2>1. UNCHANGED <<cmd, rotten, job>>
    BY <1>2 DEF StoreSnapshot
  <2>2. held' \in [Buckets -> Store]
    <3>1. Stored \subseteq Store /\ held' \in [Buckets -> Stored]
      BY <1>2 DEF StoreSnapshot, Stored
    <3> QED BY <3>1
  <2>3. data' \in DataDir
    <3>1. PICK s \in LeftHere :
            data' = [archive |-> s.archive, manifest |-> s.manifest, cut_off |-> FALSE]
      BY <1>2 DEF StoreSnapshot
    <3>2. s \in Store
      BY DEF LeftHere
    <3> QED BY <3>1, <3>2 DEF Store, DataDir
  <2> QED BY <2>1, <2>2, <2>3 DEF Typed, Bucket
<1>3. CASE Reconfigure
  <2>1. job' \in Jobs /\ cmd' = NoCommand /\ UNCHANGED <<storeVars, rotten>>
    BY <1>3 DEF Reconfigure
  <2> QED BY <2>1, Fresh DEF Typed, storeVars
<1>4. CASE Begins
  BY <1>4, Begun DEF Typed, storeVars, snapshotVars
<1>5. CASE TryBucket \/ ListingFails
  <2>1. UNCHANGED <<storeVars, rotten, job>>
    BY <1>5 DEF TryBucket, ListingFails, Quiet, snapshotVars
  <2>2. Bucket \in Buckets
    <3>1. cmd.bucket \in DOMAIN job.buckets
      BY <1>5 DEF TryBucket, ListingFails
    <3>2. job.buckets \in Seq(Buckets)
      BY JobsAssumption DEF Typed, Job
    <3> QED BY <3>1, <3>2 DEF Bucket
  <2>3. cmd' \in Cmd /\ (cmd'.pc = "get" => cmd'.bucket = cmd.bucket)
    BY <1>5, Tries
  <2> QED BY <2>1, <2>2, <2>3 DEF Typed, Bucket, storeVars
<1>6. CASE GetKey
  <2>1. UNCHANGED <<held, rotten, job>> /\ cmd.pc = "get"
    BY <1>6 DEF GetKey, Quiet, snapshotVars
  <2>2. cmd' \in Cmd /\ cmd'.bucket = cmd.bucket /\ data' \in DataDir
    BY <1>6, Gets
  <2>3. Bucket' = Bucket
    BY <2>1, <2>2 DEF Bucket
  <2> QED BY <2>1, <2>2, <2>3 DEF Typed
<1>7. CASE NoBucketLeft \/ Hydrated \/ GetFails \/ KeyGone \/ Opening \/ Replaying
  <2>1. cmd' \in Cmd /\ cmd'.pc # "get"
    <3>1. CASE NoBucketLeft \/ Hydrated \/ GetFails \/ KeyGone
      BY <1>0, <3>1, CmdMoves DEF NoBucketLeft, Hydrated, GetFails, KeyGone, Pcs, Results
    <3>2. CASE Open \/ DecryptionFails \/ PreRestoreHook \/ HookRaises
      BY <1>0, <3>2, CmdMoves DEF Open, DecryptionFails, PreRestoreHook, HookRaises, Pcs, Results
    <3>3. CASE Extract
      BY <3>3, Extracts
    <3>4. CASE OneComponent
      BY <1>0, <3>4, Components
    <3>5. CASE ComponentsDone \/ RestoreEnds
      <4>1. CASE ComponentsDone
        BY <1>0, <4>1, CmdMoves DEF ComponentsDone, Pcs
      <4>2. CASE RestoreEnds
        <5>1. PICK res \in {"ok", "failed"} : Ends(res)
          BY <4>2 DEF RestoreEnds
        <5> QED BY <1>0, <5>1, CmdMoves DEF Results
      <4> QED BY <3>5, <4>1, <4>2
    <3> QED BY <1>7, <3>1, <3>2, <3>3, <3>4, <3>5 DEF Opening, Replaying
  <2>2. UNCHANGED <<storeVars, rotten, job>>
    BY <1>7 DEF NoBucketLeft, Hydrated, GetFails, KeyGone, Opening, Open, Extract,
                DecryptionFails, PreRestoreHook, HookRaises, Replaying, OneComponent,
                SkipComponent, ReplayComponent, NothingToReplay, ComponentFails,
                ComponentsDone, RestoreEnds, Quiet, Unshared, snapshotVars
  <2> QED BY <2>1, <2>2 DEF Typed, storeVars
<1>8. CASE Kill
  BY <1>8, Kills DEF Typed
<1>9. CASE Interference
  BY <1>9, Interferes DEF Typed, Keeps, Bucket, snapshotVars
<1> QED BY <1>1, <1>2, <1>3, <1>4, <1>5, <1>6, <1>7, <1>8, <1>9, Cases DEF Making, Fetching

LEMMA TypedInit == Init => Typed
<1> SUFFICES ASSUME Init PROVE Typed
  OBVIOUS
<1>1. /\ data \in DataDir /\ held \in [Buckets -> Store]
      /\ job \in Jobs /\ rotten \in BOOLEAN
  BY DEF Init, SnapshotInit, DataDir, Store, Copies
<1> QED BY <1>1, Fresh DEF Init, Typed

-----------------------------------------------------------------------------
(* Where the command is tells what it has checked so far.                    *)
Checked ==
  /\ phase # "stored" => cmd.pc = "idle" /\ live = before
  /\ cmd.pc \in {"hydrate", "get", "open", "extract", "pre_restore"} => live = before
  /\ cmd.pc \in {"extract", "pre_restore", "components", "post_restore"} =>
       cmd.verb = "restore" /\ OnlyIsRestorable
  /\ cmd.pc = "extract" => data.archive \in {"whole", "none"}
  /\ cmd.pc \in {"pre_restore", "components", "post_restore"} => cmd.read = "whole"
  /\ cmd.pc # "idle" => cmd.result = "none"
  /\ ChecksComeFirst

LEMMA SameSelection ==
  ASSUME cmd'.only = cmd.only, UNCHANGED <<snap, job>>
  PROVE  OnlyIsRestorable' = OnlyIsRestorable
BY DEF OnlyIsRestorable, Named, LastOf, Configured

LEMMA CheckedNext ==
  ASSUME Typed, Checked, [Next]_vars
  PROVE  Checked'
<1> USE DEF Checked, ChecksComeFirst
<1>0. cmd \in Cmd
  BY DEF Typed
<1>1. CASE UNCHANGED vars
  BY <1>1, SameSelection DEF vars, snapshotVars, storeVars
<1>2. CASE MakeStep
  <2>1. /\ UNCHANGED <<cmd, data, live, before, job>> /\ phase # "stored"
    BY <1>2 DEF MakeStep, storeVars, MakeSnapshot, SkipSource, ProduceSource, Turn,
                SourceReportsError, Fails, SourceRaises, Produced, Encrypt, EncryptionFails, Bundle,
                NextSource
  <2> QED BY <2>1
<1>3. CASE StoreSnapshot
  <2>1. UNCHANGED cmd /\ cmd.pc = "idle" /\ live' = before'
    BY <1>3 DEF StoreSnapshot
  <2> QED BY <2>1
<1>4. CASE Reconfigure
  BY <1>4, Fresh DEF Reconfigure
<1>5. CASE Begins
  BY <1>5, Begun DEF snapshotVars
<1>6. CASE Fetching
  <2>1. /\ cmd'.pc \in {"get", "hydrate", "open"} /\ cmd'.result = cmd.result
        \/ cmd'.pc = "idle"
    <3>1. CASE TryBucket \/ ListingFails
      BY <3>1, Tries DEF Further
    <3>2. CASE NoBucketLeft \/ Hydrated
      BY <1>0, <3>2, CmdMoves DEF NoBucketLeft, Hydrated, Pcs
    <3>3. CASE GetKey
      BY <3>3, Gets DEF Further
    <3>4. CASE GetFails \/ KeyGone
      BY <1>0, <3>4, CmdMoves DEF GetFails, KeyGone, Results
    <3> QED BY <1>6, <3>1, <3>2, <3>3, <3>4 DEF Fetching
  <2>2. UNCHANGED <<live, before, phase>> /\ cmd.pc \in {"hydrate", "get"}
    BY <1>6 DEF Fetching, TryBucket, ListingFails, NoBucketLeft, GetKey, Hydrated, GetFails,
                KeyGone, Quiet, snapshotVars
  <2> QED BY <2>1, <2>2
<1>7. CASE Open
  <2>1. UNCHANGED <<live, before, phase, snap, job, data>> /\ cmd.pc = "open"
    BY <1>7 DEF Open, Quiet, snapshotVars, storeVars
  <2>2. CASE Goes("extract") /\ cmd.verb # "verify" /\ OnlyIsRestorable /\ HashMatches
    <3>1. /\ cmd'.pc = "extract" /\ cmd'.verb = cmd.verb /\ cmd'.only = cmd.only
          /\ cmd'.result = cmd.result
      BY <1>0, <2>2, CmdMoves DEF Pcs, Keeps
    <3>2. cmd.verb = "restore"
      BY <1>0, <2>2 DEF Cmd, Verbs
    <3>3. data.archive = "whole"
      BY <2>2 DEF HashMatches, Found
    <3> QED BY <2>1, <2>2, <3>1, <3>2, <3>3, SameSelection
  <2>3. CASE \E res \in Results : Ends(res)
    BY <1>0, <2>1, <2>3, CmdMoves
  <2> QED BY <1>7, <2>2, <2>3 DEF Open, Results
<1>8. CASE Extract
  <2>1. UNCHANGED <<live, before, phase, snap, job, data>> /\ cmd.pc = "extract"
    BY <1>8 DEF Extract, Quiet, snapshotVars, storeVars
  <2> QED BY <1>8, <2>1, Extracts, SameSelection
<1>9. CASE DecryptionFails
  <2>1. UNCHANGED <<live, before, phase>> /\ cmd.pc = "extract" /\ EndsDisturbed("invalid")
    BY <1>9 DEF DecryptionFails, Quiet, snapshotVars
  <2> QED BY <1>0, <2>1, CmdMoves DEF Results
<1>10. CASE PreRestoreHook \/ ComponentsDone
  <2>1. UNCHANGED <<live, before, phase, snap, job, data>>
    BY <1>10 DEF PreRestoreHook, ComponentsDone, Quiet, snapshotVars, storeVars
  <2>2. \/ cmd.pc = "pre_restore" /\ Goes("components")
        \/ cmd.pc = "components" /\ Goes("post_restore")
    BY <1>10 DEF PreRestoreHook, ComponentsDone
  <2>3. /\ cmd'.pc \in {"components", "post_restore"} /\ Keeps /\ cmd'.result = cmd.result
    BY <1>0, <2>2, CmdMoves DEF Pcs
  <2> QED BY <2>1, <2>2, <2>3, SameSelection DEF Keeps
<1>11. CASE HookRaises
  <2>1. UNCHANGED <<live, before, phase, snap, job>> /\ EndsDisturbed("raised")
        /\ cmd.pc \in {"pre_restore", "post_restore"}
    BY <1>11 DEF HookRaises, Quiet, snapshotVars
  <2>2. cmd'.pc = "idle" /\ Keeps /\ cmd'.result = "raised"
    BY <1>0, <2>1, CmdMoves DEF Results
  <2> QED BY <2>1, <2>2, SameSelection DEF Keeps
<1>12. CASE OneComponent
  <2>1. UNCHANGED <<before, phase, snap, job, data>> /\ cmd.pc = "components"
    BY <1>12 DEF OneComponent, SkipComponent, ReplayComponent, NothingToReplay, ComponentFails,
                 AtComponent, Unshared, storeVars
  <2> QED BY <1>0, <1>12, <2>1, Components, SameSelection DEF Keeps
<1>13. CASE RestoreEnds
  <2>1. UNCHANGED <<live, before, phase, snap, job>> /\ cmd.pc = "post_restore"
    BY <1>13 DEF RestoreEnds, Quiet, snapshotVars
  <2>2. PICK res \in {"ok", "failed"} : Ends(res)
    BY <1>13 DEF RestoreEnds
  <2>3. cmd'.pc = "idle" /\ Keeps /\ cmd'.result = res
    BY <1>0, <2>2, CmdMoves DEF Results
  <2> QED BY <2>1, <2>2, <2>3, SameSelection DEF Keeps
<1>14. CASE Kill
  <2>1. cmd.pc # "idle"
    BY <1>14 DEF Kill
  <2> QED BY <1>14, <2>1, Kills, SameSelection DEF Keeps
<1>15. CASE Interference
  <2>1. phase = "stored"
    BY <1>15 DEF Interference
  <2> QED BY <1>15, <2>1, Interferes, SameSelection DEF Keeps, snapshotVars
<1> QED BY <1>1, <1>2, <1>3, <1>4, <1>5, <1>6, <1>7, <1>8, <1>9, <1>10, <1>11, <1>12, <1>13,
           <1>14, <1>15, Cases DEF Making, Opening, Replaying

(* What is not proven good reaches no backend.                               *)
THEOREM ChecksFirst == Spec => []ChecksComeFirst
<1>1. Init => Checked
  BY Fresh DEF Init, SnapshotInit, Checked, ChecksComeFirst
<1>2. Typed /\ Checked /\ [Next]_vars => (Typed /\ Checked)'
  BY TypedNext, CheckedNext
<1>3. Checked => ChecksComeFirst
  BY DEF Checked
<1> QED BY <1>1, <1>2, <1>3, TypedInit, PTL DEF Spec

-----------------------------------------------------------------------------
(* What the buckets before the current one, and the data dir, hold of the    *)
(* snapshot; what a disturbed command saw may be gone.                       *)
Both(b) == held[b].manifest /\ held[b].archive # "none"
TornLocal == data.archive = "torn"

Fetched ==
  /\ \A b \in Buckets : held[b].archive = "torn" => rotten
  /\ TornLocal /\ data.manifest => rotten
  /\ phase # "stored" => cmd.pc = "idle" /\ cmd.result = "none"
  /\ cmd.pc # "idle" => cmd.result = "none"
  /\ cmd.bucket \in Nat /\ cmd.bucket >= 1
  /\ cmd.pc = "hydrate" /\ ~cmd.disturbed =>
       \A i \in DOMAIN job.buckets : i < cmd.bucket => ~Both(job.buckets[i])
  /\ cmd.pc = "get" =>
       /\ cmd.left \in {HydrationKeys, <<"manifest">>, <<>>}
       /\ cmd.left = <<"manifest">> /\ TornLocal => rotten
       /\ cmd.left # HydrationKeys /\ ~cmd.disturbed => data.archive # "none"
       /\ cmd.left = <<>> /\ ~cmd.disturbed => data.manifest
  /\ cmd.pc = "open" /\ ~cmd.disturbed =>
       IsLocal \/ \A i \in DOMAIN job.buckets : ~Both(job.buckets[i])
  /\ RefusedForAReason

LEMMA TheKeys ==
  /\ HydrationKeys # <<>> /\ Head(HydrationKeys) = "archive" /\ Tail(HydrationKeys) = <<"manifest">>
  /\ HydrationKeys # <<"manifest">> /\ <<"manifest">> # <<>>
  /\ Head(<<"manifest">>) = "manifest" /\ Tail(<<"manifest">>) = <<>>
BY DEF HydrationKeys

LEMMA Unmoved ==
  ASSUME UNCHANGED <<storeVars, job, snap, rotten>>
  PROVE  /\ IsLocal' = IsLocal /\ TornLocal' = TornLocal /\ Found' = Found
         /\ \A b : Both(b)' = Both(b)
BY DEF IsLocal, TornLocal, Found, Both, storeVars

(* The command was no refusal, or it stays the one it was.                   *)
LEMMA NotRefused ==
  ASSUME cmd'.result = "refused" => cmd'.disturbed
  PROVE  RefusedForAReason'
BY DEF RefusedForAReason

LEMMA StillRefused ==
  ASSUME RefusedForAReason, UNCHANGED <<storeVars, job, snap, rotten>>,
         cmd'.result = cmd.result, cmd'.disturbed = cmd.disturbed
  PROVE  RefusedForAReason'
BY DEF RefusedForAReason, storeVars, IsLocal, Found, Blocked

LEMMA FetchedNext ==
  ASSUME Typed, Fetched, [Next]_vars
  PROVE  Fetched'
<1> USE DEF Fetched
<1>0. cmd \in Cmd /\ data \in DataDir
  BY DEF Typed
<1>1. CASE UNCHANGED vars \/ MakeStep
  <2>1. UNCHANGED <<cmd, storeVars, job, rotten>>
        /\ ((UNCHANGED snap /\ UNCHANGED phase) \/ phase # "stored")
    BY <1>1 DEF vars, snapshotVars, MakeStep, MakeSnapshot, SkipSource, ProduceSource, Turn,
                SourceReportsError, Fails, SourceRaises, Produced, Encrypt, EncryptionFails, Bundle,
                NextSource
  <2>2. CASE UNCHANGED snap /\ UNCHANGED phase
    BY <2>1, <2>2, Unmoved, StillRefused DEF storeVars
  <2>3. CASE phase # "stored"
    <3>1. cmd'.pc = "idle" /\ cmd'.result = "none"
      BY <2>1, <2>3
    <3> QED BY <2>1, <3>1, NotRefused DEF storeVars, TornLocal
  <2> QED BY <2>1, <2>2, <2>3
<1>2. CASE StoreSnapshot
  <2>1. UNCHANGED <<cmd, rotten>> /\ cmd.pc = "idle" /\ cmd.result = "none"
    BY <1>2 DEF StoreSnapshot
  <2>2. \A b \in Buckets : held'[b].archive # "torn"
    <3>1. held' \in [Buckets -> Stored]
      BY <1>2 DEF StoreSnapshot
    <3> QED BY <3>1 DEF Stored
  <2>3. ~(TornLocal' /\ data'.manifest)
    BY <1>2 DEF StoreSnapshot, LeftHere, TornLocal
  <2> QED BY <2>1, <2>2, <2>3, NotRefused
<1>3. CASE Reconfigure
  <2>1. UNCHANGED <<storeVars, phase, rotten>> /\ cmd' = NoCommand
    BY <1>3 DEF Reconfigure
  <2>2. RefusedForAReason'
    BY <2>1, Fresh, NotRefused
  <2> QED BY <2>1, <2>2, Fresh DEF storeVars, TornLocal
<1>4. CASE Begins
  <2>1. /\ phase = "stored" /\ cmd'.pc = (IF IsLocal THEN "open" ELSE "hydrate")
        /\ cmd'.bucket = 1 /\ cmd'.result = "none"
        /\ UNCHANGED <<storeVars, phase, job, snap, rotten>>
    BY <1>4, Begun DEF snapshotVars
  <2>2. RefusedForAReason'
    BY <2>1, NotRefused
  <2>3. \A i \in DOMAIN job.buckets : ~(i < 1)
    <3>1. job.buckets \in Seq(Buckets)
      BY JobsAssumption DEF Typed, Job
    <3> QED BY <3>1
  <2> QED BY <2>1, <2>2, <2>3, Unmoved DEF storeVars
<1>5. CASE TryBucket \/ ListingFails
  <2>1. UNCHANGED <<storeVars, phase, job, snap, rotten>> /\ cmd.pc = "hydrate"
    BY <1>5 DEF TryBucket, ListingFails, Quiet, snapshotVars
  <2>2. cmd'.result = "none"
    BY <1>5, <2>1, Tries DEF Further
  <2>3. RefusedForAReason'
    BY <2>2, NotRefused
  <2>4. CASE cmd'.pc = "get" /\ cmd'.left = HydrationKeys /\ cmd'.bucket = cmd.bucket
    BY <2>1, <2>2, <2>3, <2>4, TheKeys, Unmoved DEF storeVars
  <2>5. CASE /\ cmd'.pc = "hydrate" /\ cmd'.bucket = cmd.bucket + 1
             /\ (~Both(Bucket) /\ cmd'.disturbed = cmd.disturbed) \/ cmd'.disturbed
    <3>1. ~cmd'.disturbed => \A i \in DOMAIN job.buckets : i < cmd.bucket + 1 => ~Both(job.buckets[i])
      <4> SUFFICES ASSUME ~cmd'.disturbed, NEW i \in DOMAIN job.buckets, i < cmd.bucket + 1
                   PROVE  ~Both(job.buckets[i])
        OBVIOUS
      <4>1. i \in Nat
        <5>1. job.buckets \in Seq(Buckets)
          BY JobsAssumption DEF Typed, Job
        <5> QED BY <5>1
      <4>2. CASE i = cmd.bucket
        BY <2>5, <4>2 DEF Bucket
      <4>3. CASE i < cmd.bucket
        BY <2>1, <2>5, <4>3
      <4> QED BY <4>1, <4>2, <4>3
    <3> QED BY <2>1, <2>2, <2>3, <2>5, <3>1, Unmoved DEF storeVars
  <2> QED BY <1>5, <2>4, <2>5, Tries DEF Both
<1>6. CASE NoBucketLeft
  <2>1. UNCHANGED <<storeVars, phase, job, snap, rotten>> /\ cmd.pc = "hydrate"
        /\ cmd.bucket \notin DOMAIN job.buckets
    BY <1>6 DEF NoBucketLeft, Quiet, snapshotVars
  <2>2. cmd'.pc = "open" /\ cmd'.result = "none" /\ cmd'.disturbed = cmd.disturbed
        /\ cmd'.bucket = cmd.bucket
    BY <1>0, <1>6, <2>1, CmdMoves DEF NoBucketLeft, Pcs, Keeps
  <2>3. RefusedForAReason'
    BY <2>2, NotRefused
  <2>4. \A i \in DOMAIN job.buckets : i < cmd.bucket
    <3>1. job.buckets \in Seq(Buckets)
      BY JobsAssumption DEF Typed, Job
    <3>2. DOMAIN job.buckets = 1..Len(job.buckets) /\ Len(job.buckets) \in Nat
      BY <3>1
    <3> QED BY <2>1, <3>2
  <2> QED BY <2>1, <2>2, <2>3, <2>4, Unmoved DEF storeVars
<1>7. CASE GetKey
  <2>1. UNCHANGED <<held, phase, job, snap, rotten>> /\ cmd.pc = "get" /\ cmd.left # <<>>
    BY <1>7 DEF GetKey, Quiet, snapshotVars
  <2>2. /\ cmd'.pc = "get" /\ cmd'.bucket = cmd.bucket /\ cmd'.left = Tail(cmd.left)
        /\ cmd'.disturbed = cmd.disturbed /\ cmd'.result = "none"
    BY <1>7, <2>1, Gets DEF Further
  <2>3. RefusedForAReason'
    BY <2>2, NotRefused
  <2>4. CASE cmd.left = HydrationKeys
    <3>1. /\ data'.archive = held[Bucket].archive /\ held[Bucket].archive # "none"
          /\ data'.manifest = data.manifest
      BY <1>7, <2>4, Gets, TheKeys
    <3>2. TornLocal' => rotten
      BY <2>1, <3>1 DEF TornLocal, Typed
    <3>3. cmd'.left = <<"manifest">>
      BY <2>2, <2>4, TheKeys
    <3> QED BY <2>1, <2>2, <2>3, <3>1, <3>2, <3>3, TheKeys
  <2>5. CASE cmd.left = <<"manifest">>
    <3>1. data'.archive = data.archive /\ data'.manifest
      BY <1>7, <2>5, Gets, TheKeys
    <3>2. cmd'.left = <<>>
      BY <2>2, <2>5, TheKeys
    <3>3. TornLocal' = TornLocal
      BY <3>1 DEF TornLocal
    <3> QED BY <2>1, <2>2, <2>3, <2>5, <3>1, <3>2, <3>3, TheKeys
  <2> QED BY <2>1, <2>4, <2>5
<1>8. CASE Hydrated
  <2>1. UNCHANGED <<storeVars, phase, job, snap, rotten>> /\ cmd.pc = "get" /\ cmd.left = <<>>
    BY <1>8 DEF Hydrated, Quiet, snapshotVars
  <2>2. cmd'.pc = "open" /\ cmd'.result = "none" /\ cmd'.disturbed = cmd.disturbed
        /\ cmd'.bucket = cmd.bucket
    BY <1>0, <1>8, <2>1, CmdMoves DEF Hydrated, Pcs, Keeps
  <2>3. RefusedForAReason'
    BY <2>2, NotRefused
  <2>4. ~cmd.disturbed => IsLocal
    BY <2>1, TheKeys DEF IsLocal, Found
  <2> QED BY <2>1, <2>2, <2>3, <2>4, Unmoved DEF storeVars
<1>9. CASE Open
  <2>1. UNCHANGED <<storeVars, phase, job, snap, rotten>> /\ cmd.pc = "open"
    BY <1>9 DEF Open, Quiet, snapshotVars
  <2>2. CASE Ends("refused") /\ (~IsLocal \/ ~HashMatches)
    <3>1. cmd'.pc = "idle" /\ Keeps /\ cmd'.disturbed = cmd.disturbed
      BY <1>0, <2>2, CmdMoves DEF Results
    <3>2. IsLocal /\ ~HashMatches => Blocked \/ (TornLocal /\ data.manifest)
      BY <1>0 DEF IsLocal, Found, HashMatches, TornLocal, DataDir, Copies, Blocked
    <3>3. Blocked' = Blocked
      BY <2>1 DEF Blocked, storeVars
    <3>4. RefusedForAReason'
      BY <2>1, <2>2, <3>1, <3>2, <3>3, Unmoved DEF RefusedForAReason, storeVars, Both
    <3> QED BY <2>1, <3>1, <3>4, Unmoved DEF storeVars, Keeps
  <2>3. CASE Goes("extract") \/ \E res \in {"ok", "invalid"} : Ends(res)
    <3>1. /\ cmd'.pc \in {"extract", "idle"} /\ Keeps /\ cmd'.result # "refused"
          /\ cmd'.pc # "idle" => cmd'.result = "none"
      BY <1>0, <2>1, <2>3, CmdMoves DEF Pcs, Results
    <3> QED BY <2>1, <3>1, NotRefused, Unmoved DEF storeVars, Keeps
  <2> QED BY <1>9, <2>2, <2>3 DEF Open
<1>10. CASE GetFails \/ KeyGone \/ DecryptionFails \/ PreRestoreHook \/ HookRaises \/ Replaying
  <2>1. UNCHANGED <<storeVars, phase, job, snap, rotten>> /\ cmd.pc # "idle"
    BY <1>10 DEF GetFails, KeyGone, DecryptionFails, PreRestoreHook, HookRaises, Replaying,
                 OneComponent, SkipComponent, ReplayComponent, NothingToReplay, ComponentFails,
                 AtComponent, ComponentsDone, RestoreEnds, Quiet, Unshared, snapshotVars
  <2>2. /\ cmd'.pc \in {"components", "post_restore", "idle"} /\ Keeps
        /\ cmd'.result # "refused" /\ (cmd'.pc # "idle" => cmd'.result = "none")
    <3>1. CASE GetFails \/ KeyGone \/ DecryptionFails \/ HookRaises
      BY <1>0, <3>1, CmdMoves DEF GetFails, KeyGone, DecryptionFails, HookRaises, Results
    <3>2. CASE PreRestoreHook \/ ComponentsDone
      <4>1. \E x \in {"components", "post_restore"} : Goes(x)
        BY <3>2 DEF PreRestoreHook, ComponentsDone
      <4> QED BY <1>0, <2>1, <4>1, CmdMoves DEF Pcs
    <3>3. CASE OneComponent
      BY <1>0, <2>1, <3>3, Components
    <3>4. CASE RestoreEnds
      <4>1. PICK res \in {"ok", "failed"} : Ends(res)
        BY <3>4 DEF RestoreEnds
      <4> QED BY <1>0, <4>1, CmdMoves DEF Results
    <3> QED BY <1>10, <3>1, <3>2, <3>3, <3>4 DEF Replaying
  <2> QED BY <2>1, <2>2, NotRefused, Unmoved DEF storeVars, Keeps
<1>11. CASE Extract
  <2>1. UNCHANGED <<storeVars, phase, job, snap, rotten>> /\ cmd.pc # "idle"
    BY <1>11 DEF Extract, Quiet, snapshotVars
  <2> QED BY <1>11, <2>1, Extracts, NotRefused, Unmoved DEF storeVars
<1>12. CASE Kill
  <2>1. cmd.pc # "idle"
    BY <1>12 DEF Kill
  <2>2. cmd'.result # "refused"
    BY <1>12, Kills
  <2> QED BY <1>12, <2>1, <2>2, Kills, NotRefused DEF Keeps, TornLocal
<1>13. CASE Interference
  <2>1. phase = "stored"
    BY <1>13 DEF Interference
  <2>2. /\ cmd' \in Cmd /\ Keeps /\ cmd'.pc = cmd.pc /\ cmd'.result = cmd.result
        /\ cmd'.disturbed
        /\ data'.archive \in {data.archive, "none"} /\ (data'.manifest => data.manifest)
        /\ (rotten => rotten')
        /\ \/ rotten'
           \/ \A b \in Buckets : held'[b].archive \in {held[b].archive, "none"}
        /\ UNCHANGED <<snapshotVars, commands, before>>
    BY <1>13, Interferes
  <2>3. TornLocal' => TornLocal
    BY <2>2 DEF TornLocal
  <2>4. RefusedForAReason'
    BY <2>2, NotRefused
  <2> QED BY <2>1, <2>2, <2>3, <2>4 DEF Keeps, snapshotVars
<1> QED BY <1>1, <1>2, <1>3, <1>4, <1>5, <1>6, <1>7, <1>8, <1>9, <1>10, <1>11, <1>12, <1>13,
           Cases DEF Making, Fetching, Opening

(* A command nobody disturbed refuses a snapshot only when it has a reason:  *)
(* nothing to find, damage, or a killed download's leftover beside a manifest. *)
THEOREM RefusesForAReason == Spec => []RefusedForAReason
<1>1. Init => Fetched
  <2> SUFFICES ASSUME Init PROVE Fetched
    OBVIOUS
  <2>1. /\ cmd.pc = "idle" /\ cmd.result = "none" /\ cmd.bucket = 1
        /\ data.archive = "none" /\ \A b \in Buckets : held[b].archive = "none"
    BY Fresh DEF Init
  <2> QED BY <2>1 DEF Fetched, TornLocal, RefusedForAReason
<1>2. Typed /\ Fetched /\ [Next]_vars => (Typed /\ Fetched)'
  BY TypedNext, FetchedNext
<1>3. Fetched => RefusedForAReason
  BY DEF Fetched
<1> QED BY <1>1, <1>2, <1>3, TypedInit, PTL DEF Spec

-----------------------------------------------------------------------------
(* As long as the run has no error to report, it has staged every enabled    *)
(* source it has passed but for what that one did not see, and nothing has   *)
(* taken the file away again.                                                *)
IsStaged(i) == [file |-> File(job.sources[i]), content |-> Due(i)] \in staging

StagedSoFar ==
  /\ job \in Jobs
  /\ source \in Nat
  /\ phase # "stored" => \A i \in Nat, p \in Parts : <<i, p>> \in gaps => i < source
  /\ phase \in {"produce", "encrypt"} /\ ~errors /\ Distinct(job.sources) =>
       \A i \in DOMAIN job.sources : i < source /\ job.sources[i].enabled => IsStaged(i)
  /\ phase = "encrypt" => \A i \in DOMAIN job.sources : i < source
  /\ SuccessHoldsEverything

LEMMA SameDue ==
  ASSUME UNCHANGED <<job, live, gaps>> PROVE \A i : Due(i)' = Due(i)
BY DEF Due

LEMMA StagedNext ==
  ASSUME Checked, StagedSoFar, [Next]_vars
  PROVE  StagedSoFar'
<1> USE DEF StagedSoFar
<1>0. DOMAIN job.sources = 1..Len(job.sources) /\ Len(job.sources) \in Nat
  <2>1. job.sources \in Seq(SourceSpec)
    BY JobsAssumption DEF Job
  <2> QED BY <2>1
<1>1. CASE UNCHANGED vars
  <2>1. UNCHANGED <<job, phase, source, staging, comps, errors, snap, live, gaps>>
    BY <1>1 DEF vars, snapshotVars, runVars
  <2> QED BY <2>1, SameDue DEF SuccessHoldsEverything, IsStaged, Distinct, JobStatus, File
<1>2. CASE StoreSnapshot
  BY <1>2 DEF StoreSnapshot, SuccessHoldsEverything
<1>3. CASE Reconfigure \/ Begins \/ Fetching \/ Opening \/ Replaying \/ Kill \/ Interference
  <2>1. phase = "stored"
    BY <1>3, Begun DEF Checked, Reconfigure, Fetching, TryBucket, ListingFails, NoBucketLeft, GetKey,
       Hydrated, GetFails, KeyGone, Opening, Open, Extract, DecryptionFails, PreRestoreHook,
       HookRaises, Replaying, OneComponent, SkipComponent, ReplayComponent, NothingToReplay,
       ComponentFails, AtComponent, ComponentsDone, RestoreEnds, Kill, Interference
  <2>2. job' \in Jobs /\ UNCHANGED <<phase, source>>
    BY <1>3, Begun DEF Reconfigure, Fetching, TryBucket, ListingFails, NoBucketLeft, GetKey,
       Hydrated, GetFails, KeyGone, Opening, Open, Extract, DecryptionFails, PreRestoreHook,
       HookRaises, Replaying, OneComponent, SkipComponent, ReplayComponent, NothingToReplay,
       ComponentFails, ComponentsDone, RestoreEnds, Kill, Interference, Quiet, Unshared, snapshotVars, runVars
  <2> QED BY <2>1, <2>2 DEF SuccessHoldsEverything
<1>4. CASE SkipSource
  <2>1. /\ phase = "produce" /\ ~job.sources[source].enabled
        /\ source' = source + 1 /\ UNCHANGED <<live, job, phase, snap, staging, errors, gaps>>
    BY <1>4 DEF SkipSource, Turn, NextSource, Current
  <2>2. \A i \in DOMAIN job.sources : i < source' => i < source \/ i = source
    BY <1>0, <2>1
  <2> QED BY <2>1, <2>2, SameDue DEF SuccessHoldsEverything, IsStaged, Distinct, File
<1>5. CASE ProduceSource
  <2>1. /\ phase = "produce" /\ source \in DOMAIN job.sources
        /\ source' = source + 1 /\ UNCHANGED <<live, job, phase, snap>>
    BY <1>5 DEF ProduceSource, Turn, NextSource
  <2>2. PICK lost \in SUBSET Parts, unseen \in SUBSET Parts, w \in BOOLEAN :
          /\ Current.kind # "filesystem" => unseen = {}
          /\ lost # {} => w
          /\ staging' = Others(File(Current)) \cup
               {[file |-> File(Current), content |-> Without(Current.backend, lost \cup unseen)]}
          /\ errors' = (errors \/ w)
          /\ gaps' = gaps \cup ({source} \X unseen)
    BY <1>5 DEF ProduceSource, Warns
  <2>3. \A i \in Nat, p \in Parts : <<i, p>> \in gaps' <=> <<i, p>> \in gaps \/ (i = source /\ p \in unseen)
    BY <2>2
  <2>4. \A i \in Nat, p \in Parts : <<i, p>> \in gaps' => i < source'
    BY <2>1, <2>3
  <2>5. ASSUME ~errors', Distinct(job.sources), NEW i \in DOMAIN job.sources, i < source',
               job.sources[i].enabled
        PROVE  IsStaged(i)'
    <3>1. ~errors /\ lost = {}
      BY <2>2, <2>5
    <3>2. CASE i = source
      <4>1. \A p \in Parts : (Current.kind = "filesystem" /\ <<i, p>> \in gaps') <=> p \in unseen
        BY <2>1, <2>2, <2>3, <3>2
      <4>2. Due(i)' = Without(Current.backend, unseen)
        BY <2>1, <3>2, <4>1 DEF Due, Without, Current
      <4>3. lost \cup unseen = unseen
        BY <3>1
      <4> QED BY <2>1, <2>2, <3>2, <4>2, <4>3 DEF IsStaged, Current, File
    <3>3. CASE i # source
      <4>1. i < source
        BY <1>0, <2>1, <2>5, <3>3
      <4>2. IsStaged(i)
        BY <2>1, <2>5, <3>1, <4>1
      <4>3. File(job.sources[i]) # File(Current)
        BY <2>1, <2>5, <3>3 DEF Distinct, File, Current
      <4>4. Due(i)' = Due(i)
        BY <1>0, <2>1, <2>3, <3>3 DEF Due
      <4> QED BY <2>1, <2>2, <4>2, <4>3, <4>4 DEF IsStaged, Others, File
    <3> QED BY <3>2, <3>3
  <2> QED BY <2>1, <2>4, <2>5 DEF SuccessHoldsEverything, Distinct
<1>6. CASE SourceReportsError \/ SourceRaises
  BY <1>0, <1>6 DEF SourceReportsError, SourceRaises, Fails, Turn, NextSource, SuccessHoldsEverything
<1>7. CASE Produced
  <2>1. /\ phase = "produce" /\ source > Len(job.sources) /\ phase' = "encrypt"
        /\ UNCHANGED <<live, job, source, staging, comps, errors, gaps, snap>>
    BY <1>7 DEF Produced, runVars
  <2>2. \A i \in DOMAIN job.sources : i < source
    BY <1>0, <2>1
  <2> QED BY <2>1, <2>2, SameDue DEF SuccessHoldsEverything, IsStaged, Distinct, File
<1>8. CASE Encrypt \/ EncryptionFails
  <2>1. /\ phase = "encrypt" /\ phase' = "store" /\ UNCHANGED <<live, job, source, staging, gaps>>
        /\ snap'.files = staging
    <3>1. CASE Encrypt
      BY <3>1 DEF Encrypt, Bundle
    <3>2. CASE EncryptionFails
      BY <3>2 DEF EncryptionFails, Bundle
    <3> QED BY <1>8, <3>1, <3>2
  <2>2. JobStatus' = "success" => ~errors /\ snap'.mode = job.mode
    BY <1>8 DEF Encrypt, EncryptionFails, Bundle, JobStatus
  <2> QED BY <2>1, <2>2, SameDue DEF SuccessHoldsEverything, IsStaged, Distinct, File
<1> QED BY <1>1, <1>2, <1>3, <1>4, <1>5, <1>6, <1>7, <1>8, Cases DEF Making, MakeStep, MakeSnapshot

(* A run that reports success holds all of every enabled source, but for what *)
(* a directory source did not see.                                           *)
THEOREM SuccessIsWhole == Spec => []SuccessHoldsEverything
<1>1. Init => StagedSoFar
  <2> SUFFICES ASSUME Init PROVE StagedSoFar
    OBVIOUS
  <2>1. job \in Jobs /\ source = 1 /\ phase = "produce" /\ gaps = {}
    BY DEF Init, SnapshotInit
  <2>2. DOMAIN job.sources \subseteq Nat \ {0}
    <3>1. job.sources \in Seq(SourceSpec)
      BY <2>1, JobsAssumption DEF Job
    <3> QED BY <3>1
  <2> QED BY <2>1, <2>2 DEF StagedSoFar, SuccessHoldsEverything
<1>2. Init => Checked
  BY Fresh DEF Init, SnapshotInit, Checked, ChecksComeFirst
<1>3. Typed /\ Checked /\ StagedSoFar /\ [Next]_vars => (Typed /\ Checked /\ StagedSoFar)'
  BY TypedNext, CheckedNext, StagedNext
<1>4. StagedSoFar => SuccessHoldsEverything
  BY DEF StagedSoFar
<1> QED BY <1>1, <1>2, <1>3, <1>4, TypedInit, PTL DEF Spec

-----------------------------------------------------------------------------
(* Types of what runs make and what backends hold.                           *)
Held ==
  /\ live \in [Backends -> Content]
  /\ phase \in {"produce", "encrypt", "store", "stored"}
  /\ source \in Nat
  /\ staging \subseteq Staged
  /\ comps \in Seq(Component)
  /\ errors \in BOOLEAN
  /\ snap \in Archive
  /\ gaps \subseteq Nat \X Parts
  /\ commands \in 0..MaxCommands
  /\ faults \in 0..MaxFaults
  /\ before \in [Backends -> Content]

LEMMA VersionType ==
  ASSUME NEW b \in Backends, NEW v \in 0..2 PROVE Version(b, v) \in Content
BY DEF Version, Content

LEMMA Stages ==
  ASSUME Typed, Held, Turn
  PROVE  /\ Current \in SourceSpec /\ Current.backend \in Backends
         /\ File(Current) \in Files
         /\ \A parts : Without(Current.backend, parts) \in Content
         /\ \A c \in Content : /\ [file |-> File(Current), content |-> c] \in Staged
                             /\ Good(Current, c) \in Component
         /\ Failed(Current) \in Component
         /\ Others(File(Current)) \subseteq Staged
<1>1. Current \in SourceSpec
  <2>1. job.sources \in Seq(SourceSpec)
    BY JobsAssumption DEF Typed, Job
  <2> QED BY <2>1 DEF Turn, Current
<1>2. Current.backend \in Backends /\ Current.name \in Names /\ Current.kind \in Kinds
  BY <1>1 DEF SourceSpec
<1>3. File(Current) \in Files
  BY <1>2 DEF File, Files
<1>4. live[Current.backend] \in Content
  BY <1>2 DEF Held
<1>5. ASSUME NEW parts PROVE Without(Current.backend, parts) \in Content
  <2>1. \A p \in Parts : live[Current.backend][p] \in Backends \X (0..2)
    BY <1>4 DEF Content
  <2>2. <<Current.backend, 0>> \in Backends \X (0..2)
    BY <1>2
  <2> QED BY <2>1, <2>2 DEF Without, Content
<1>6. Version(Current.backend, 0) \in Content
  BY <1>2, VersionType
<1> QED BY <1>1, <1>2, <1>3, <1>5, <1>6 DEF Staged, Good, Failed, Component, Others, Held

LEMMA Replayable ==
  ASSUME Typed, Held, AtComponent, Replays, NEW x \in Dumps, NEW w \in SUBSET Parts
  PROVE  Overlay(x.content, w) \in [Backends -> Content]
<1>1. x.content \in Content
  BY DEF Dumps, Shadowing, Held, Archive, Staged
<1> DEFINE b == SpecOf(This.name).backend
           Written == [p \in Parts |-> IF p \in w /\ x.content[p][2] # 0 THEN x.content[p] ELSE live[b][p]]
<1>2. Overlay(x.content, w) = [live EXCEPT ![b] = Written]
  BY DEF Overlay
<1>3. ASSUME b \in Backends PROVE Written \in Content
  BY <1>1, <1>3 DEF Held, Content
<1> QED BY <1>2, <1>3 DEF Held

LEMMA CutShortType ==
  ASSUME Typed, Held, AtComponent, Replays PROVE CutShort \subseteq [Backends -> Content]
<1>1. ASSUME NEW l \in CutShort PROVE l \in [Backends -> Content]
  <2>1. CASE l = live
    BY <2>1 DEF Held
  <2>2. ASSUME NEW x \in Dumps, NEW w \in SUBSET Parts, l = Overlay(x.content, w)
        PROVE  l \in [Backends -> Content]
    BY <2>2, Replayable
  <2> QED BY <1>1, <2>1, <2>2 DEF CutShort
<1> QED BY <1>1

LEMMA HeldNext ==
  ASSUME Typed, Held, [Next]_vars
  PROVE  Held'
<1>0. /\ Fault => faults' \in 0..MaxFaults
      /\ commands < MaxCommands /\ commands' = commands + 1 => commands' \in 0..MaxCommands
  <2>1. faults \in 0..MaxFaults /\ commands \in 0..MaxCommands
    BY DEF Held
  <2> QED BY <2>1, BoundsAssumption DEF Fault
<1> USE DEF Held
<1>1. CASE UNCHANGED vars
  BY <1>1 DEF vars, snapshotVars, runVars
<1>2. CASE MakeStep
  <2>1. CASE SkipSource
    BY <1>2, <2>1 DEF MakeStep, SkipSource, NextSource
  <2>2. CASE ProduceSource
    <3>1. PICK lost \in SUBSET Parts, unseen \in SUBSET Parts, w \in BOOLEAN :
            LET c == Without(Current.backend, lost \cup unseen) IN
            /\ staging' = Others(File(Current)) \cup {[file |-> File(Current), content |-> c]}
            /\ comps' = Append(comps, Good(Current, c))
            /\ errors' = (errors \/ w)
            /\ gaps' = gaps \cup ({source} \X unseen)
      BY <2>2 DEF ProduceSource
    <3> DEFINE c == Without(Current.backend, lost \cup unseen)
    <3>2. staging' \subseteq Staged /\ Good(Current, c) \in Component
      <4>1. Turn
        BY <2>2 DEF ProduceSource
      <4>2. c \in Content
        BY <4>1, Stages
      <4> QED BY <3>1, <4>1, <4>2, Stages
    <3>3. comps' \in Seq(Component) /\ errors' \in BOOLEAN /\ gaps' \subseteq Nat \X Parts
      BY <3>1, <3>2
    <3>4. source' = source + 1 /\ UNCHANGED <<live, phase, snap, commands, faults, before>>
      BY <1>2, <2>2 DEF MakeStep, ProduceSource, NextSource
    <3> QED BY <3>2, <3>3, <3>4
  <2>3. CASE SourceReportsError \/ SourceRaises
    <3>1. Turn /\ comps' = Append(comps, Failed(Current)) /\ errors' = TRUE
          /\ source' = source + 1
          /\ UNCHANGED <<live, phase, snap, gaps, commands, faults, before>>
      BY <1>2, <2>3 DEF MakeStep, SourceReportsError, SourceRaises, Fails, NextSource
    <3>2. comps' \in Seq(Component)
      BY <3>1, Stages
    <3>3. Version(Current.backend, 0) \in Content
      BY <3>1, Stages, VersionType
    <3>4. staging' \subseteq Staged
      BY <2>3, <3>1, <3>3, Stages DEF SourceReportsError, SourceRaises
    <3> QED BY <3>1, <3>2, <3>4
  <2>4. CASE Produced
    BY <1>2, <2>4 DEF MakeStep, Produced, runVars
  <2>5. CASE Encrypt \/ EncryptionFails
    <3>1. /\ phase' = "store" /\ errors' \in BOOLEAN
          /\ UNCHANGED <<live, source, staging, comps, gaps, commands, faults, before>>
      BY <1>2, <2>5 DEF MakeStep, Encrypt, EncryptionFails, Bundle
    <3>2. snap' \in Archive
      <4>1. job.mode \in Modes /\ "none" \in Modes
        BY JobsAssumption DEF Typed, Job, Modes
      <4>2. CASE Encrypt
        BY <4>1, <4>2 DEF Encrypt, Bundle, Archive
      <4>3. CASE EncryptionFails
        BY <4>1, <4>3 DEF EncryptionFails, Bundle, Archive
      <4> QED BY <2>5, <4>2, <4>3
    <3> QED BY <3>1, <3>2
  <2> QED BY <1>2, <2>1, <2>2, <2>3, <2>4, <2>5 DEF MakeStep, MakeSnapshot
<1>3. CASE StoreSnapshot
  <2>1. live' \in [Backends -> Content]
    BY <1>3, VersionType DEF StoreSnapshot
  <2>2. /\ phase' = "stored" /\ source' = 1 /\ staging' = {} /\ comps' = <<>>
        /\ errors' = FALSE /\ gaps' = {} /\ before' = live'
        /\ UNCHANGED <<snap, commands, faults>>
    BY <1>3 DEF StoreSnapshot
  <2>3. <<>> \in Seq(Component)
    OBVIOUS
  <2> QED BY <2>1, <2>2, <2>3
<1>4. CASE Reconfigure
  BY <1>4 DEF Reconfigure, runVars
<1>5. CASE Begins
  <2>1. commands < MaxCommands /\ commands' = commands + 1 /\ before' = live
        /\ UNCHANGED <<snapshotVars, faults>>
    BY <1>5 DEF Begins, Command
  <2> QED BY <1>0, <2>1 DEF snapshotVars, runVars
<1>6. CASE Fetching \/ Opening \/ ComponentsDone \/ RestoreEnds \/ Interference
  <2>1. UNCHANGED <<snapshotVars, commands, before>> /\ (UNCHANGED faults \/ Fault)
    BY <1>6 DEF Fetching, TryBucket, ListingFails, NoBucketLeft, GetKey,
       Hydrated, GetFails, KeyGone, Opening, Open, Extract, DecryptionFails, PreRestoreHook,
       HookRaises, ComponentsDone, RestoreEnds, Interference, Quiet
  <2> QED BY <1>0, <2>1 DEF snapshotVars, runVars
<1>7. CASE OneComponent \/ Kill
  <2>1. /\ UNCHANGED <<job, phase, runVars, snap, commands, before>>
        /\ UNCHANGED faults \/ Fault
    BY <1>7 DEF OneComponent, SkipComponent, ReplayComponent, NothingToReplay, ComponentFails,
                Kill, Unshared
  <2>2. live' \in [Backends -> Content]
    <3>1. CASE SkipComponent \/ NothingToReplay
      BY <3>1 DEF SkipComponent, NothingToReplay
    <3>2. CASE ReplayComponent
      <4>1. PICK x \in Dumps : live' = Overlay(x.content, Parts)
        BY <3>2 DEF ReplayComponent
      <4> QED BY <3>2, <4>1, Replayable DEF ReplayComponent
    <3>3. CASE ComponentFails
      BY <3>3, CutShortType DEF ComponentFails
    <3>4. CASE Kill
      BY <3>4, CutShortType DEF Kill
    <3> QED BY <1>7, <3>1, <3>2, <3>3, <3>4 DEF OneComponent
  <2> QED BY <1>0, <2>1, <2>2 DEF runVars
<1> QED BY <1>1, <1>2, <1>3, <1>4, <1>5, <1>6, <1>7, Cases DEF Making, Replaying

LEMMA HeldInit == Init => Held
<1> SUFFICES ASSUME Init PROVE Held
  OBVIOUS
<1>1. live \in [Backends -> Content]
  BY VersionType DEF Init, SnapshotInit
<1>2. snap \in Archive
  BY DEF Init, SnapshotInit, NoArchive, Archive, Modes
<1>3. 0 \in 0..MaxCommands /\ 0 \in 0..MaxFaults
  BY BoundsAssumption
<1>4. <<>> \in Seq(Component)
  OBVIOUS
<1>5. /\ phase = "produce" /\ source = 1 /\ staging = {} /\ comps = <<>> /\ errors = FALSE
      /\ gaps = {} /\ commands = 0 /\ faults = 0 /\ before = live
  BY DEF Init, SnapshotInit
<1> QED BY <1>1, <1>2, <1>3, <1>4, <1>5 DEF Held

(* Types, for every configuration.                                           *)
THEOREM Typing == Spec => []TypeOK
<1>1. Typed /\ Held /\ [Next]_vars => (Typed /\ Held)'
  BY TypedNext, HeldNext
<1>2. Typed /\ Held => TypeOK
  BY DEF Typed, Held, TypeOK
<1> QED BY <1>1, <1>2, TypedInit, HeldInit, PTL DEF Spec

-----------------------------------------------------------------------------
(* What an archive holds is what its manifest says: every file is of a named *)
(* component, and with distinct names a component without error has no other *)
(* file than its own.                                                        *)
Matches(files, cs) ==
  /\ \A x \in files : Named(cs, x.file[1]) # {}
  /\ \A i \in DOMAIN cs, p \in Parts : cs[i].content[p][2] # 2
  /\ Distinct(cs) =>
       \A i \in DOMAIN cs : ~cs[i].error =>
         \A x \in files : x.file = File(cs[i]) => x.content = cs[i].content

Faithful ==
  /\ phase # "stored" => live = [b \in Backends |-> Version(b, 1)]
  /\ phase \in {"produce", "encrypt"} => Matches(staging, comps)
  /\ phase \in {"store", "stored"} => Matches(snap.files, snap.components)

LEMMA Appended ==
  ASSUME NEW cs \in Seq(Component), NEW c \in Component
  PROVE  LET ds == Append(cs, c) IN
         /\ ds \in Seq(Component) /\ DOMAIN ds = DOMAIN cs \cup {Len(cs) + 1}
         /\ Len(cs) + 1 \notin DOMAIN cs
         /\ \A i \in DOMAIN cs : ds[i] = cs[i]
         /\ ds[Len(cs) + 1] = c
         /\ \A n : Named(cs, n) \subseteq Named(ds, n)
         /\ Named(ds, c.name) # {}
         /\ Distinct(ds) => Distinct(cs) /\ \A i \in DOMAIN cs : cs[i].name # c.name
<1> DEFINE ds == Append(cs, c)
<1>1. /\ ds \in Seq(Component) /\ DOMAIN ds = DOMAIN cs \cup {Len(cs) + 1}
      /\ Len(cs) + 1 \notin DOMAIN cs
      /\ \A i \in DOMAIN cs : ds[i] = cs[i]
      /\ ds[Len(cs) + 1] = c
  OBVIOUS
<1>2. /\ \A n : Named(cs, n) \subseteq Named(ds, n)
      /\ Named(ds, c.name) # {}
  BY <1>1 DEF Named
<1>3. Distinct(ds) => Distinct(cs) /\ \A i \in DOMAIN cs : cs[i].name # c.name
  BY <1>1 DEF Distinct
<1> QED BY <1>1, <1>2, <1>3

(* A source that stages a file, or fails, adds a component.                  *)
LEMMA MatchesGrows ==
  ASSUME NEW cs \in Seq(Component), NEW c \in Component, NEW files, NEW more,
         Matches(files, cs),
         \A p \in Parts : c.content[p][2] # 2,
         \A x \in more : x \in files \/ x.file[1] = c.name,
         ~c.error => \A x \in more : x.file = File(c) => x.content = c.content
  PROVE  Matches(more, Append(cs, c))
<1> DEFINE ds == Append(cs, c)
<1>1. \A x \in more : Named(ds, x.file[1]) # {}
  BY Appended DEF Matches
<1>2. \A i \in DOMAIN ds, p \in Parts : ds[i].content[p][2] # 2
  BY Appended DEF Matches
<1>3. ASSUME Distinct(ds), NEW i \in DOMAIN ds, ~ds[i].error, NEW x \in more, x.file = File(ds[i])
      PROVE  x.content = ds[i].content
  <2>1. CASE i \in DOMAIN cs
    <3>1. ds[i] = cs[i] /\ cs[i].name # c.name /\ Distinct(cs)
      BY <1>3, <2>1, Appended
    <3>2. x \in files
      BY <1>3, <3>1 DEF File
    <3> QED BY <1>3, <2>1, <3>1, <3>2 DEF Matches
  <2>2. CASE i = Len(cs) + 1
    <3>1. ds[i] = c
      BY <2>2, Appended
    <3> QED BY <1>3, <3>1
  <2> QED BY <1>3, <2>1, <2>2, Appended
<1> QED BY <1>1, <1>2, <1>3 DEF Matches

LEMMA FaithfulNext ==
  ASSUME Typed, Held, Checked, Faithful, [Next]_vars
  PROVE  Faithful'
<1> USE DEF Faithful
<1>1. CASE UNCHANGED vars
  BY <1>1 DEF vars, snapshotVars, runVars
<1>2. CASE StoreSnapshot
  BY <1>2 DEF StoreSnapshot
<1>3. CASE Reconfigure \/ Begins \/ Fetching \/ Opening \/ Replaying \/ Kill \/ Interference
  <2>1. phase = "stored"
    BY <1>3, Begun DEF Checked, Reconfigure, Fetching, TryBucket, ListingFails, NoBucketLeft, GetKey,
       Hydrated, GetFails, KeyGone, Opening, Open, Extract, DecryptionFails, PreRestoreHook,
       HookRaises, Replaying, OneComponent, SkipComponent, ReplayComponent, NothingToReplay,
       ComponentFails, AtComponent, ComponentsDone, RestoreEnds, Kill, Interference
  <2>2. UNCHANGED <<phase, snap>>
    BY <1>3, Begun DEF Reconfigure, Fetching, TryBucket, ListingFails, NoBucketLeft, GetKey,
       Hydrated, GetFails, KeyGone, Opening, Open, Extract, DecryptionFails, PreRestoreHook,
       HookRaises, Replaying, OneComponent, SkipComponent, ReplayComponent, NothingToReplay,
       ComponentFails, ComponentsDone, RestoreEnds, Kill, Interference, Quiet, Unshared, snapshotVars
  <2> QED BY <2>1, <2>2
<1>4. CASE SkipSource \/ Produced
  BY <1>4 DEF SkipSource, Produced, Turn, NextSource, runVars
<1>5. CASE ProduceSource
  <2>1. /\ phase = "produce" /\ UNCHANGED <<live, phase, snap>> /\ Turn
    BY <1>5 DEF ProduceSource, Turn, NextSource
  <2>2. PICK parts \in SUBSET Parts :
          LET c == Without(Current.backend, parts) IN
          /\ staging' = Others(File(Current)) \cup {[file |-> File(Current), content |-> c]}
          /\ comps' = Append(comps, Good(Current, c))
    BY <1>5 DEF ProduceSource
  <2> DEFINE c == Without(Current.backend, parts)
  <2>3. c \in Content /\ Good(Current, c) \in Component /\ Current.backend \in Backends
    BY <2>1, Stages
  <2>4. \A p \in Parts : c[p][2] # 2
    <3>1. \A p \in Parts : live[Current.backend][p] = <<Current.backend, 1>>
      BY <2>1, <2>3 DEF Version
    <3> QED BY <3>1 DEF Without
  <2>5. Matches(staging', comps')
    <3>1. /\ Good(Current, c).content = c /\ Good(Current, c).name = Current.name
          /\ File(Good(Current, c)) = File(Current) /\ File(Current)[1] = Current.name
      BY DEF Good, File
    <3>2. \A x \in staging' : x \in staging \/ x.file[1] = Current.name
      BY <2>2, <3>1 DEF Others
    <3>3. \A x \in staging' : x.file = File(Current) => x.content = c
      BY <2>2 DEF Others
    <3>4. Matches(staging, comps) /\ comps \in Seq(Component)
      BY <2>1 DEF Held
    <3> HIDE DEF Faithful
    <3> QED BY <2>2, <2>3, <2>4, <3>1, <3>2, <3>3, <3>4, MatchesGrows
  <2> QED BY <2>1, <2>5
<1>6. CASE SourceReportsError \/ SourceRaises
  <2>1. /\ phase = "produce" /\ UNCHANGED <<live, phase, snap>> /\ Turn
        /\ comps' = Append(comps, Failed(Current))
    BY <1>6 DEF SourceReportsError, SourceRaises, Fails, Turn, NextSource
  <2>2. \A x \in staging' : x \in staging \/ x.file[1] = Current.name
    BY <1>6 DEF SourceReportsError, SourceRaises, Others, File
  <2>3. Failed(Current) \in Component
    BY <2>1, Stages
  <2>4. /\ Failed(Current).name = Current.name /\ Failed(Current).error
        /\ \A p \in Parts : Failed(Current).content[p][2] # 2
    BY DEF Failed, Version
  <2>5. Matches(staging, comps) /\ comps \in Seq(Component)
    BY <2>1 DEF Held
  <2>6. Matches(staging', comps')
    <3> HIDE DEF Faithful
    <3> QED BY <2>1, <2>2, <2>3, <2>4, <2>5, MatchesGrows
  <2> QED BY <2>1, <2>6
<1>7. CASE Encrypt \/ EncryptionFails
  <2>1. phase = "encrypt" /\ phase' = "store" /\ live' = live
        /\ snap'.files = staging /\ snap'.components = comps
    <3>1. CASE Encrypt
      BY <3>1 DEF Encrypt, Bundle
    <3>2. CASE EncryptionFails
      BY <3>2 DEF EncryptionFails, Bundle
    <3> QED BY <1>7, <3>1, <3>2
  <2> QED BY <2>1
<1> QED BY <1>1, <1>2, <1>3, <1>4, <1>5, <1>6, <1>7, Cases DEF Making, MakeStep, MakeSnapshot

-----------------------------------------------------------------------------
(* Which components a restore without error so far has put back, and which   *)
(* backends wait for theirs.                                                 *)
SoFar ==
  /\ cmd.component \in Nat /\ cmd.component >= 1
  /\ phase # "stored" => cmd.result = "none"
  /\ cmd.pc \in {"hydrate", "get", "open", "extract", "pre_restore"} =>
       cmd.component = 1 /\ cmd.ok
  /\ /\ cmd.pc \in {"components", "post_restore"} /\ cmd.ok
     /\ Distinct(snap.components) /\ Distinct(job.sources)
     => \A i \in DOMAIN snap.components :
          Replayed(i) /\ Alone(i) =>
            IF i < cmd.component THEN Unshadowed(i) => IsRestored(i)
            ELSE live[Target(i)] = before[Target(i)]
  /\ cmd.pc = "post_restore" => \A i \in DOMAIN snap.components : i < cmd.component
  /\ SuccessIsRestored

LEMMA SameTargets ==
  ASSUME UNCHANGED <<snap, job>>, cmd'.only = cmd.only
  PROVE  /\ Distinct(snap.components)' = Distinct(snap.components)
         /\ Distinct(job.sources)' = Distinct(job.sources)
         /\ \A i : /\ Replayed(i)' = Replayed(i) /\ Alone(i)' = Alone(i)
                   /\ Target(i)' = Target(i) /\ Unshadowed(i)' = Unshadowed(i)
BY DEF Replayed, Alone, Target, Unshadowed, Distinct, Configured, Named, SpecOf, LastOf

LEMMA SameRestored ==
  ASSUME UNCHANGED <<snap, job, live, before>>
  PROVE  \A i : IsRestored(i)' = IsRestored(i)
BY DEF IsRestored, Target, SpecOf, LastOf, Named

(* Components go to backends.                                                *)
LEMMA TargetType ==
  ASSUME Typed, Distinct(job.sources), NEW i, Replayed(i)
  PROVE  Target(i) \in Backends
<1> DEFINE n == snap.components[i].name
<1>1. job.sources \in Seq(SourceSpec)
  BY JobsAssumption DEF Typed, Job
<1>2. PICK k \in DOMAIN job.sources : job.sources[k].name = n
  BY DEF Replayed, Configured, Named
<1>3. k \in Nat /\ k \in Named(job.sources, n) /\ \A j \in Named(job.sources, n) : j <= k
  BY <1>1, <1>2 DEF Named, Distinct
<1>4. LastOf(job.sources, n) \in SourceSpec
  BY <1>1, <1>3 DEF LastOf, Named
<1> QED BY <1>4 DEF Target, SpecOf, SourceSpec

(* Replaying the component whose turn it is writes its backend only, and     *)
(* puts back what the component holds.                                       *)
LEMMA Puts ==
  ASSUME Typed, Held, Faithful, phase = "stored", ReplayComponent,
         Distinct(snap.components), Distinct(job.sources), NEW k, k = cmd.component
  PROVE  /\ k \in DOMAIN snap.components /\ Replayed(k)
         /\ \A b \in Backends : b # Target(k) => live'[b] = live[b]
         /\ live[Target(k)] = before[Target(k)] /\ Unshadowed(k) => IsRestored(k)'
<1> DEFINE c == snap.components[k]
<1>1. k \in DOMAIN snap.components /\ Replayed(k) /\ This = c
  BY DEF ReplayComponent, AtComponent, Replays, Replayed, This
<1>2. PICK x \in Dumps : live' = Overlay(x.content, Parts)
  BY DEF ReplayComponent
<1>3. /\ c \in Component /\ x \in Staged /\ snap.files \subseteq Staged
  BY <1>1 DEF Held, Archive, Dumps, Shadowing
<1>4. c.content \in Content /\ x.content \in Content
  BY <1>3 DEF Component, Staged
<1>5. Target(k) \in Backends
  BY <1>1, TargetType
<1>6. live' = [live EXCEPT ![Target(k)] =
                 [p \in Parts |-> IF p \in Parts /\ x.content[p][2] # 0 THEN x.content[p]
                                  ELSE live[Target(k)][p]]]
  BY <1>1, <1>2 DEF Overlay, Target
<1>7. \A b \in Backends : b # Target(k) => live'[b] = live[b]
  BY <1>5, <1>6 DEF Held
<1>8. ASSUME live[Target(k)] = before[Target(k)], Unshadowed(k)
      PROVE  IsRestored(k)'
  <2>1. Shadowing = {}
    <3>1. \A y \in snap.files : Named(snap.components, y.file[1]) # {}
      BY DEF Faithful, Matches
    <3> QED BY <1>1, <1>8, <3>1 DEF Shadowing, Unshadowed
  <2>2. x \in snap.files /\ x.file = File(c)
    BY <1>1, <1>2, <2>1 DEF Dumps, File
  <2>3. x.content = c.content /\ \A p \in Parts : c.content[p][2] # 2
    BY <1>1, <2>2 DEF Faithful, Matches, Replayed
  <2>4. ASSUME NEW p \in Parts
        PROVE  live'[Target(k)][p] = IF c.content[p][2] # 0 THEN <<c.content[p][1], 1>>
                                     ELSE before[Target(k)][p]
    <3>1. c.content[p] \in Backends \X (0..2) /\ c.content[p][2] # 2
      BY <1>4, <2>3 DEF Content
    <3>2. c.content[p][2] # 0 => c.content[p] = <<c.content[p][1], 1>>
      BY <3>1
    <3>3. live'[Target(k)][p] = IF c.content[p][2] # 0 THEN c.content[p] ELSE live[Target(k)][p]
      BY <1>5, <1>6, <2>3 DEF Held
    <3> QED BY <1>8, <3>2, <3>3
  <2>5. snap' = snap /\ before' = before /\ Target(k)' = Target(k)
    BY DEF ReplayComponent, Unshared, Target, SpecOf, LastOf, Named
  <2> QED BY <2>4, <2>5 DEF IsRestored
<1> QED BY <1>1, <1>7, <1>8
LEMMA SoFarNext ==
  ASSUME Typed, Held, Checked, Faithful, SoFar, [Next]_vars
  PROVE  SoFar'
<1> USE DEF SoFar
<1>0. cmd \in Cmd
  BY DEF Typed
<1>1. CASE UNCHANGED vars
  <2>1. UNCHANGED <<cmd, phase, snap, job, live, before>>
    BY <1>1 DEF vars, snapshotVars
  <2> QED BY <2>1, SameTargets, SameRestored DEF SuccessIsRestored
<1>2. CASE Making
  <2>1. UNCHANGED cmd /\ phase # "stored"
    BY <1>2 DEF Making, StoreSnapshot, MakeStep, MakeSnapshot, SkipSource, ProduceSource,
                SourceReportsError, Fails, Turn, SourceRaises, Produced, Encrypt, EncryptionFails,
                Bundle
  <2>2. cmd.pc = "idle" /\ cmd.result = "none"
    BY <2>1 DEF Checked
  <2> QED BY <2>1, <2>2 DEF SuccessIsRestored
<1>3. CASE Reconfigure
  <2>1. cmd' = NoCommand
    BY <1>3 DEF Reconfigure
  <2> QED BY <2>1, Fresh DEF SuccessIsRestored
<1>4. CASE Begins
  <2>1. /\ cmd'.component = 1 /\ cmd'.ok /\ cmd'.result = "none"
        /\ cmd'.pc \in {"open", "hydrate"} /\ UNCHANGED phase
    BY <1>4, Begun DEF snapshotVars
  <2> QED BY <2>1 DEF SuccessIsRestored
<1>5. CASE Fetching \/ Open \/ Extract \/ DecryptionFails
  <2>1. /\ cmd.pc \in {"hydrate", "get", "open", "extract"} /\ phase = "stored" /\ phase' = phase
        /\ cmd.result = "none"
    BY <1>5 DEF Fetching, TryBucket, ListingFails, NoBucketLeft, GetKey, Hydrated, GetFails,
                KeyGone, Open, Extract, DecryptionFails, Checked, Quiet, snapshotVars
  <2>2. /\ Counts /\ cmd'.pc \in {"hydrate", "get", "open", "extract", "pre_restore", "idle"}
        /\ cmd'.result = "ok" => cmd'.verb = "verify"
    <3>1. CASE TryBucket \/ ListingFails
      BY <2>1, <3>1, Tries DEF Further
    <3>2. CASE NoBucketLeft \/ Hydrated
      BY <1>0, <2>1, <3>2, CmdMoves DEF NoBucketLeft, Hydrated, Pcs
    <3>3. CASE GetKey
      BY <2>1, <3>3, Gets DEF Further
    <3>4. CASE GetFails \/ KeyGone \/ DecryptionFails
      BY <1>0, <3>4, CmdMoves DEF GetFails, KeyGone, DecryptionFails, Results
    <3>5. CASE Open
      <4>1. \/ Goes("extract") \/ Ends("refused") \/ Ends("invalid")
            \/ Ends("ok") /\ cmd.verb = "verify"
        BY <3>5 DEF Open
      <4> QED BY <1>0, <2>1, <4>1, CmdMoves DEF Pcs, Results, Keeps
    <3>6. CASE Extract
      BY <2>1, <3>6, Extracts
    <3> QED BY <1>5, <3>1, <3>2, <3>3, <3>4, <3>5, <3>6 DEF Fetching
  <2> QED BY <2>1, <2>2 DEF Counts, SuccessIsRestored
<1>6. CASE PreRestoreHook
  <2>1. /\ cmd.pc = "pre_restore" /\ UNCHANGED <<phase, snap, job, live, before>>
        /\ Goes("components") /\ phase = "stored" /\ cmd.result = "none" /\ live = before
    BY <1>6 DEF PreRestoreHook, Quiet, snapshotVars, Checked
  <2>2. Keeps /\ Counts /\ cmd'.pc = "components" /\ cmd'.result = "none"
    BY <1>0, <2>1, CmdMoves DEF Pcs
  <2>3. \A i \in DOMAIN snap.components : ~(i < 1)
    BY DEF Held, Archive
  <2> QED BY <2>1, <2>2, <2>3 DEF Counts, SuccessIsRestored
<1>7. CASE HookRaises
  <2>1. UNCHANGED phase /\ phase = "stored" /\ EndsDisturbed("raised")
    BY <1>7 DEF HookRaises, Quiet, snapshotVars, Checked
  <2>2. Counts /\ cmd'.pc = "idle" /\ cmd'.result = "raised"
    BY <1>0, <2>1, CmdMoves DEF Results
  <2> QED BY <2>1, <2>2 DEF Counts, SuccessIsRestored
<1>8. CASE OneComponent
  <2>1. /\ cmd.pc = "components" /\ cmd.component \in DOMAIN snap.components
        /\ UNCHANGED <<phase, snap, job, before>> /\ phase = "stored" /\ cmd.result = "none"
    BY <1>8 DEF OneComponent, SkipComponent, ReplayComponent, NothingToReplay, ComponentFails,
                AtComponent, Unshared, Checked
  <2>2. /\ cmd'.pc = "components" /\ cmd'.result = "none" /\ cmd'.only = cmd.only
        /\ cmd'.component = cmd.component + 1
        /\ cmd'.ok => cmd.ok /\ (SkipComponent \/ ReplayComponent)
    BY <1>0, <1>8, <2>1, Components DEF Keeps
  <2>3. \A i \in DOMAIN snap.components : i \in Nat
    BY DEF Held, Archive
  <2>4. ASSUME cmd'.ok, Distinct(snap.components), Distinct(job.sources),
               NEW i \in DOMAIN snap.components, Replayed(i), Alone(i)
        PROVE  IF i < cmd'.component THEN Unshadowed(i) => IsRestored(i)'
               ELSE live'[Target(i)] = before[Target(i)]
    <3>1. IF i < cmd.component THEN Unshadowed(i) => IsRestored(i)
          ELSE live[Target(i)] = before[Target(i)]
      BY <2>1, <2>2, <2>4
    <3>2. CASE SkipComponent
      <4>1. live' = live /\ ~Replayed(cmd.component)
        BY <3>2 DEF SkipComponent, Replays, Replayed, This
      <4>2. i # cmd.component
        BY <2>4, <4>1
      <4> QED BY <2>1, <2>2, <2>3, <3>1, <4>1, <4>2, SameRestored
    <3>3. CASE ReplayComponent
      <4>1. PICK k : k = cmd.component
        OBVIOUS
      <4>2. /\ k \in DOMAIN snap.components /\ Replayed(k)
            /\ \A b \in Backends : b # Target(k) => live'[b] = live[b]
            /\ live[Target(k)] = before[Target(k)] /\ Unshadowed(k) => IsRestored(k)'
        BY <2>1, <2>4, <3>3, <4>1, Puts
      <4>3. CASE i = k
        BY <2>2, <2>3, <3>1, <4>1, <4>2, <4>3
      <4>4. CASE i # k
        <5>1. live'[Target(i)] = live[Target(i)]
          BY <2>4, <4>2, <4>4, TargetType DEF Alone
        <5>2. IsRestored(i) => IsRestored(i)'
          <6>1. Target(i)' = Target(i)
            BY <2>1, <2>2, SameTargets
          <6> QED BY <2>1, <5>1, <6>1 DEF IsRestored
        <5>3. i < cmd'.component <=> i < cmd.component
          BY <2>1, <2>2, <2>3, <4>1, <4>4
        <5> QED BY <3>1, <5>1, <5>2, <5>3
      <4> QED BY <4>3, <4>4
    <3> QED BY <2>2, <2>4, <3>2, <3>3
  <2> QED BY <2>1, <2>2, <2>4, SameTargets DEF SuccessIsRestored
<1>9. CASE ComponentsDone
  <2>1. /\ cmd.pc = "components" /\ cmd.component \notin DOMAIN snap.components
        /\ UNCHANGED <<phase, snap, job, live, before>> /\ Goes("post_restore")
        /\ cmd.result = "none" /\ phase = "stored"
    BY <1>9 DEF ComponentsDone, Quiet, snapshotVars, Checked
  <2>2. Keeps /\ Counts /\ cmd'.pc = "post_restore" /\ cmd'.result = "none"
    BY <1>0, <2>1, CmdMoves DEF Pcs
  <2>3. \A i \in DOMAIN snap.components : i < cmd.component
    <3>1. DOMAIN snap.components = 1..Len(snap.components) /\ Len(snap.components) \in Nat
      BY DEF Held, Archive
    <3> QED BY <2>1, <3>1
  <2> QED BY <2>1, <2>2, <2>3, SameTargets, SameRestored DEF Keeps, Counts, SuccessIsRestored
<1>10. CASE RestoreEnds
  <2>1. /\ cmd.pc = "post_restore" /\ UNCHANGED <<phase, snap, job, live, before>>
        /\ phase = "stored"
        /\ (Ends("ok") /\ cmd.ok) \/ Ends("failed")
    BY <1>10 DEF RestoreEnds, Quiet, snapshotVars, Checked
  <2>2. /\ Keeps /\ Counts /\ cmd'.pc = "idle" /\ (cmd'.result = "ok" => cmd.ok)
    BY <1>0, <2>1, CmdMoves DEF Results
  <2> QED BY <2>1, <2>2, SameTargets, SameRestored DEF Keeps, Counts, SuccessIsRestored
<1>11. CASE Kill
  <2>1. /\ Keeps /\ cmd'.pc = "idle" /\ cmd'.result = "killed" /\ Counts
        /\ UNCHANGED phase /\ phase = "stored"
    <3>1. cmd.pc # "idle"
      BY <1>11 DEF Kill
    <3> QED BY <1>11, <3>1, Kills DEF Checked
  <2> QED BY <2>1 DEF Counts, SuccessIsRestored
<1>12. CASE Interference
  <2>1. /\ Keeps /\ Counts /\ cmd'.pc = cmd.pc /\ cmd'.result = cmd.result
        /\ UNCHANGED <<phase, snap, job, live, before>>
    BY <1>12, Interferes DEF snapshotVars
  <2> QED BY <2>1, SameTargets, SameRestored DEF Keeps, Counts, SuccessIsRestored
<1> QED BY <1>1, <1>2, <1>3, <1>4, <1>5, <1>6, <1>7, <1>8, <1>9, <1>10, <1>11, <1>12, Cases
        DEF Opening, Replaying

(* A restore that reports success has put back what each component holds.    *)
THEOREM SuccessRestores == Spec => []SuccessIsRestored
<1>1. Init => Faithful /\ SoFar
  <2> SUFFICES ASSUME Init PROVE Faithful /\ SoFar
    OBVIOUS
  <2>1. /\ phase = "produce" /\ staging = {} /\ comps = <<>>
        /\ live = [b \in Backends |-> Version(b, 1)]
        /\ cmd = NoCommand
    BY DEF Init, SnapshotInit
  <2> QED BY <2>1, Fresh DEF Faithful, Matches, SoFar, SuccessIsRestored
<1>2. Init => Checked
  BY Fresh DEF Init, SnapshotInit, Checked, ChecksComeFirst
<1>3. Typed /\ Held /\ Checked /\ Faithful /\ SoFar /\ [Next]_vars
      => (Typed /\ Held /\ Checked /\ Faithful /\ SoFar)'
  BY TypedNext, HeldNext, CheckedNext, FaithfulNext, SoFarNext
<1>4. SoFar => SuccessIsRestored
  BY DEF SoFar
<1> QED BY <1>1, <1>2, <1>3, <1>4, TypedInit, HeldInit, PTL DEF Spec
=============================================================================
