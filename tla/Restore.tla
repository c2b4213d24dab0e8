------------------------------ MODULE Restore ------------------------------
(***************************************************************************)
(* A snapshot from its making to its restore. Once stored, the source moves *)
(* on and the job may be reconfigured; then `restore` and `verify`          *)
(* (cli.py, runner.restore_snapshot) fetch what the data dir lacks from the *)
(* first bucket that holds it, check it, and replay its components, while   *)
(* the daemon's retention, the network and the operator interfere.          *)
(***************************************************************************)
EXTENDS Snapshot

CONSTANTS
  Shadows,      \* Shadows[n]: names m of which a staged file sorts before n's own
                \* and matches the pattern "n.*"
  Selections,   \* the --only sets considered; {} is none
  MaxCommands,  \* commands considered
  MaxFaults     \* failures, kills and deletions considered

ASSUME SelectionsAssumption == {} \in Selections
ASSUME BoundsAssumption     == MaxCommands \in Nat /\ MaxFaults \in Nat

Copies == {"none", "torn", "whole"}
Verbs  == {"restore", "verify"}

Pcs == {"idle", "hydrate", "get", "open", "extract", "pre_restore", "components",
        "post_restore"}
Results == {"none", "ok", "refused", "invalid", "failed", "raised", "killed"}

VARIABLES
  data,      \* the data dir: archive, manifest, and whether a download that was cut
             \* off by a kill lies there
  held,      \* held[b]: archive and manifest in bucket b
  cmd,       \* the command that runs or ran last
  commands,  \* how many ran
  faults,    \* how many faults there were
  before,    \* history: live when the command began
  rotten     \* history: whether a stored archive was damaged

storeVars == <<data, held>>
vars == <<snapshotVars, storeVars, cmd, commands, faults, before, rotten>>

Keys       == {"archive", "manifest"}
Store      == [archive : Copies, manifest : BOOLEAN]
DataDir    == [archive : Copies, manifest : BOOLEAN, cut_off : BOOLEAN]
\* Mutant: the manifest is downloaded first.
ManifestFirst == <<"manifest", "archive">>

HydrationKeys == <<"archive", "manifest">>

NoCommand ==
  [pc |-> "idle", verb |-> "verify", only |-> {}, bucket |-> 1, left |-> <<>>,
   read |-> "none", component |-> 1, ok |-> TRUE, result |-> "none", disturbed |-> FALSE]

Init ==
  /\ SnapshotInit
  /\ data = [archive |-> "none", manifest |-> FALSE, cut_off |-> FALSE]
  /\ held = [b \in Buckets |-> [archive |-> "none", manifest |-> FALSE]]
  /\ cmd = NoCommand
  /\ commands = 0
  /\ faults = 0
  /\ before = live
  /\ rotten = FALSE

\* What runs leave of a snapshot (BackupRun): no bucket lists it without its
\* archive, and an object the server cut short is never listed; a data dir
\* whose run was killed holds a cut-short archive, or as it dropped its copy a
\* manifest alone.
Stored   == {s \in Store : s.archive # "torn" /\ (s.manifest => s.archive = "whole")}
LeftHere == {s \in Store : s.manifest => s.archive # "torn"}

\* The run ends, and the backends move on from there.
StoreSnapshot ==
  /\ phase = "store"
  /\ phase' = "stored"
  /\ \E s \in LeftHere :
       data' = [archive |-> s.archive, manifest |-> s.manifest, cut_off |-> FALSE]
  /\ held' \in [Buckets -> Stored]
  /\ live' = [b \in Backends |-> Version(b, 2)]
  /\ before' = live'
  /\ source' = 1
  /\ staging' = {}
  /\ comps' = <<>>
  /\ errors' = FALSE
  /\ gaps' = {}
  /\ UNCHANGED <<job, snap, cmd, commands, faults, rotten>>

\* The job is configured anew; the next command reads it.
Reconfigure ==
  /\ phase = "stored"
  /\ cmd.pc = "idle"
  /\ job' \in Jobs
  /\ before' = live
  /\ cmd' = NoCommand
  /\ UNCHANGED <<live, phase, runVars, snap, storeVars, commands, faults, rotten>>

-----------------------------------------------------------------------------
\* The first of <id>.tar.gz*. A leftover of a killed download has the name it
\* was to get and a random suffix: it sorts behind the archive, whatever the mode.
Found   == IF data.archive = "none" /\ data.cut_off THEN "torn" ELSE data.archive
IsLocal == Found # "none" /\ data.manifest

Command(verb, only) ==
  /\ phase = "stored"
  /\ cmd.pc = "idle"
  /\ commands < MaxCommands
  /\ verb = "verify" => only = {}
  /\ commands' = commands + 1
  /\ cmd' = [NoCommand EXCEPT !.pc = IF IsLocal THEN "open" ELSE "hydrate",
                              !.verb = verb, !.only = only]
  /\ before' = live
  /\ UNCHANGED <<snapshotVars, storeVars, faults, rotten>>

Goes(pc)  == cmd' = [cmd EXCEPT !.pc = pc]
Ends(res) == cmd' = [cmd EXCEPT !.pc = "idle", !.result = res]
EndsDisturbed(res) ==
  cmd' = [cmd EXCEPT !.pc = "idle", !.result = res, !.disturbed = TRUE]
Fault == faults < MaxFaults /\ faults' = faults + 1
Quiet == UNCHANGED <<snapshotVars, commands, before, rotten>>

\* The next bucket of the job, if it holds both.
Bucket == job.buckets[cmd.bucket]
TryBucket ==
  /\ cmd.pc = "hydrate"
  /\ cmd.bucket \in DOMAIN job.buckets
  /\ cmd' = IF held[Bucket].manifest /\ held[Bucket].archive # "none"
            THEN [cmd EXCEPT !.pc = "get", !.left = HydrationKeys]
            ELSE [cmd EXCEPT !.bucket = @ + 1]
  /\ Quiet
  /\ UNCHANGED <<storeVars, faults>>

ListingFails ==
  /\ cmd.pc = "hydrate"
  /\ cmd.bucket \in DOMAIN job.buckets
  /\ Fault
  /\ cmd' = [cmd EXCEPT !.bucket = @ + 1, !.disturbed = TRUE]
  /\ Quiet
  /\ UNCHANGED storeVars

NoBucketLeft ==
  /\ cmd.pc = "hydrate"
  /\ cmd.bucket \notin DOMAIN job.buckets
  /\ Goes("open")
  /\ Quiet
  /\ UNCHANGED <<storeVars, faults>>

\* The client downloads to a name of its own and renames: a key arrives whole.
GetKey ==
  /\ cmd.pc = "get"
  /\ cmd.left # <<>>
  /\ \/ /\ Head(cmd.left) = "archive"
        /\ held[Bucket].archive # "none"
        /\ data' = [data EXCEPT !.archive = held[Bucket].archive]
     \/ /\ Head(cmd.left) = "manifest"
        /\ held[Bucket].manifest
        /\ data' = [data EXCEPT !.manifest = TRUE]
  /\ cmd' = [cmd EXCEPT !.left = Tail(@)]
  /\ Quiet
  /\ UNCHANGED <<held, faults>>

Hydrated ==
  /\ cmd.pc = "get"
  /\ cmd.left = <<>>
  /\ Goes("open")
  /\ Quiet
  /\ UNCHANGED <<storeVars, faults>>

\* Only the listing is guarded: a download that fails, or whose key is gone by
\* now, ends the command, whatever the buckets behind it hold.
GetFails ==
  /\ cmd.pc = "get"
  /\ cmd.left # <<>>
  /\ Fault
  /\ EndsDisturbed("raised")
  /\ Quiet
  /\ UNCHANGED storeVars

KeyGone ==
  /\ cmd.pc = "get"
  /\ cmd.left # <<>>
  /\ IF Head(cmd.left) = "archive" THEN held[Bucket].archive = "none"
     ELSE ~held[Bucket].manifest
  /\ EndsDisturbed("raised")
  /\ Quiet
  /\ UNCHANGED <<storeVars, faults>>

-----------------------------------------------------------------------------
\* Of two components, or two sources, with one name the last counts; a source
\* counts whether it is enabled or not.
Named(seq, n) == {i \in DOMAIN seq : seq[i].name = n}
LastOf(seq, n) ==
  seq[CHOOSE i \in Named(seq, n) : \A j \in Named(seq, n) : j <= i]
Configured(n) == Named(job.sources, n) # {}
SpecOf(n)     == LastOf(job.sources, n)

OnlyIsRestorable ==
  \A n \in cmd.only :
    /\ Named(snap.components, n) # {}
    /\ ~LastOf(snap.components, n).error
    /\ Configured(n)

\* The archive is there and hashes to what the manifest says.
HashMatches == Found = "whole"
\* Mutant: components are replayed without a look at what --only names.
OpenForAll ==
  /\ cmd.pc = "open"
  /\ IF ~IsLocal \/ ~HashMatches THEN Ends("refused")
     ELSE IF cmd.verb = "verify" THEN Ends("ok")
     ELSE Goes("extract")
  /\ Quiet
  /\ UNCHANGED <<storeVars, faults>>

Open ==
  /\ cmd.pc = "open"
  /\ IF ~IsLocal \/ ~HashMatches THEN Ends("refused")
     ELSE IF cmd.verb = "verify" THEN Ends("ok")
     ELSE IF ~OnlyIsRestorable THEN Ends("invalid")
     ELSE Goes("extract")
  /\ Quiet
  /\ UNCHANGED <<storeVars, faults>>

\* Decrypts by the suffix of the archive and extracts it to a directory of the
\* command's own; an archive that is gone by now raises.
Extract ==
  /\ cmd.pc = "extract"
  /\ IF snap.mode = "age" /\ ~job.identity THEN Ends("invalid")
     ELSE IF data.archive = "none" THEN EndsDisturbed("raised")
     ELSE cmd' = [cmd EXCEPT !.pc = "pre_restore", !.read = data.archive]
  /\ Quiet
  /\ UNCHANGED <<storeVars, faults>>

DecryptionFails ==
  /\ cmd.pc = "extract"
  /\ snap.mode # "none"
  /\ Fault
  /\ EndsDisturbed("invalid")
  /\ Quiet
  /\ UNCHANGED storeVars

PreRestoreHook ==
  /\ cmd.pc = "pre_restore"
  /\ Goes("components")
  /\ Quiet
  /\ UNCHANGED <<storeVars, faults>>

HookRaises ==
  /\ cmd.pc \in {"pre_restore", "post_restore"}
  /\ Fault
  /\ EndsDisturbed("raised")
  /\ Quiet
  /\ UNCHANGED storeVars

-----------------------------------------------------------------------------
\* The component whose turn it is, and what its source finds to replay: a
\* postgres source takes the first file of the archive that matches "name.*".
This == snap.components[cmd.component]
Replays ==
  /\ ~This.error
  /\ cmd.only = {} \/ This.name \in cmd.only
  /\ Configured(This.name)
  /\ This.kind # "env"
Shadowing == {x \in snap.files : This.kind = "postgres" /\ x.file[1] \in Shadows[This.name]}
Dumps ==
  IF Shadowing # {} THEN Shadowing
  ELSE {x \in snap.files : x.file = <<This.name, Extension[This.kind]>>}

\* A restore writes over what is there and removes nothing else. Only a
\* postgres dump is replayed in one transaction: another replay that fails or
\* is cut off leaves what it wrote.
Overlay(content, written) ==
  [live EXCEPT ![SpecOf(This.name).backend] =
     [p \in Parts |-> IF p \in written /\ content[p][2] # 0 THEN content[p] ELSE @[p]]]
CutShort ==
  {live} \cup
  {Overlay(x.content, w) : x \in {y \in Dumps : This.kind # "postgres"}, w \in SUBSET Parts}

AtComponent == cmd.pc = "components" /\ cmd.component \in DOMAIN snap.components
Unshared    == UNCHANGED <<job, phase, runVars, snap, storeVars, commands, before, rotten>>

SkipComponent ==
  /\ AtComponent
  /\ ~Replays
  /\ cmd' = [cmd EXCEPT !.component = @ + 1]
  /\ Unshared
  /\ UNCHANGED <<live, faults>>

ReplayComponent ==
  /\ AtComponent
  /\ Replays
  /\ \E x \in Dumps : live' = Overlay(x.content, Parts)
  /\ cmd' = [cmd EXCEPT !.component = @ + 1]
  /\ Unshared
  /\ UNCHANGED faults

NothingToReplay ==
  /\ AtComponent
  /\ Replays
  /\ Dumps = {}
  /\ cmd' = [cmd EXCEPT !.component = @ + 1, !.ok = FALSE]
  /\ Unshared
  /\ UNCHANGED <<live, faults>>

\* Mutant: a failed component is forgotten.
ComponentFailsQuietly ==
  /\ AtComponent
  /\ Replays
  /\ Fault
  /\ live' \in CutShort
  /\ cmd' = [cmd EXCEPT !.component = @ + 1, !.disturbed = TRUE]
  /\ Unshared

ComponentFails ==
  /\ AtComponent
  /\ Replays
  /\ Fault
  /\ live' \in CutShort
  /\ cmd' = [cmd EXCEPT !.component = @ + 1, !.ok = FALSE, !.disturbed = TRUE]
  /\ Unshared

ComponentsDone ==
  /\ cmd.pc = "components"
  /\ cmd.component \notin DOMAIN snap.components
  /\ Goes("post_restore")
  /\ Quiet
  /\ UNCHANGED <<storeVars, faults>>

RestoreEnds ==
  /\ cmd.pc = "post_restore"
  /\ Ends(IF cmd.ok THEN "ok" ELSE "failed")
  /\ Quiet
  /\ UNCHANGED <<storeVars, faults>>

-----------------------------------------------------------------------------
\* A kill or power loss: a download leaves its temporary file, cut short.
Kill ==
  /\ cmd.pc # "idle"
  /\ Fault
  /\ EndsDisturbed("killed")
  /\ \/ /\ cmd.pc = "get"
        /\ cmd.left # <<>>
        /\ Head(cmd.left) = "archive"
        /\ data' = [data EXCEPT !.cut_off = TRUE]
     \/ UNCHANGED data
  /\ IF AtComponent /\ Replays THEN live' \in CutShort ELSE UNCHANGED live
  /\ UNCHANGED <<job, phase, runVars, snap, held, commands, before, rotten>>

\* The daemon and the operator delete copies meanwhile (retention, the
\* catch-up, keep_local = false, prune), and storage decays.
Interference ==
  /\ phase = "stored"
  /\ cmd.pc # "idle" \/ commands < MaxCommands
  /\ Fault
  /\ \/ /\ \/ data' = [data EXCEPT !.archive = "none"]
           \/ data' = [data EXCEPT !.manifest = FALSE]
        /\ UNCHANGED <<held, rotten>>
     \/ /\ \E b \in Buckets :
             \/ held' = [held EXCEPT ![b].archive = "none"]
             \/ held' = [held EXCEPT ![b].manifest = FALSE]
        /\ UNCHANGED <<data, rotten>>
     \/ /\ \E b \in Buckets :
             /\ held[b].archive = "whole"
             /\ held' = [held EXCEPT ![b].archive = "torn"]
        /\ rotten' = TRUE
        /\ UNCHANGED data
  /\ cmd' = [cmd EXCEPT !.disturbed = TRUE]
  /\ UNCHANGED <<snapshotVars, commands, before>>

MakeStep == MakeSnapshot /\ UNCHANGED <<storeVars, cmd, commands, faults, before, rotten>>

Next ==
  \/ MakeStep \/ StoreSnapshot \/ Reconfigure
  \/ \E verb \in Verbs, only \in Selections : Command(verb, only)
  \/ TryBucket \/ ListingFails \/ NoBucketLeft
  \/ GetKey \/ Hydrated \/ GetFails \/ KeyGone
  \/ Open \/ Extract \/ DecryptionFails \/ PreRestoreHook \/ HookRaises
  \/ SkipComponent \/ ReplayComponent \/ NothingToReplay \/ ComponentFails
  \/ ComponentsDone \/ RestoreEnds
  \/ Kill \/ Interference

Spec == Init /\ [][Next]_vars

-----------------------------------------------------------------------------
Cmd ==
  [pc : Pcs, verb : Verbs, only : Selections, bucket : Nat, left : Seq(Keys),
   read : Copies, component : Nat, ok : BOOLEAN, result : Results, disturbed : BOOLEAN]

TypeOK ==
  /\ live \in [Backends -> Content]
  /\ job \in Jobs
  /\ phase \in {"produce", "encrypt", "store", "stored"}
  /\ source \in Nat
  /\ staging \subseteq Staged
  /\ comps \in Seq(Component)
  /\ errors \in BOOLEAN
  /\ snap \in Archive
  /\ gaps \subseteq Nat \X Parts
  /\ data \in DataDir
  /\ held \in [Buckets -> Store]
  /\ cmd \in Cmd
  /\ commands \in 0..MaxCommands
  /\ faults \in 0..MaxFaults
  /\ before \in [Backends -> Content]
  /\ rotten \in BOOLEAN

\* No name twice among the sources of a job, as restore takes for granted.
Distinct(seq) == \A i, j \in DOMAIN seq : seq[i].name = seq[j].name => i = j

\* What source i has to have in the snapshot of a successful run.
Due(i) ==
  LET s == job.sources[i] IN
  [p \in Parts |-> IF s.kind = "filesystem" /\ <<i, p>> \in gaps THEN <<s.backend, 0>>
                   ELSE live[s.backend][p]]

\* A run whose snapshot is a success holds all of every enabled source, encrypted
\* the way the job says: no failure, no plaintext archive and no unreadable file
\* passes unreported. The exception is what a directory source does not see.
\* Concerns _produce, _maybe_encrypt and job_status.
SuccessHoldsEverything ==
  phase = "store" /\ JobStatus = "success" /\ Distinct(job.sources) =>
    /\ snap.mode = job.mode
    /\ \A i \in DOMAIN job.sources : job.sources[i].enabled =>
         [file |-> File(job.sources[i]), content |-> Due(i)] \in snap.files

\* What is not proven good reaches no backend: they differ from what they held
\* when the command began only after the archive hashed to its manifest, every
\* component asked for was found restorable and the archive was decrypted.
\* Concerns the order of the checks in restore_snapshot.
ChecksComeFirst ==
  live # before =>
    /\ cmd.verb = "restore"
    /\ cmd.read = "whole"
    /\ cmd.result \notin {"refused", "invalid"}
    /\ OnlyIsRestorable

Replayed(i) ==
  LET c == snap.components[i] IN
  /\ ~c.error
  /\ cmd.only = {} \/ c.name \in cmd.only
  /\ Configured(c.name)
  /\ c.kind # "env"

\* Where component i goes: to the backend of the source that has its name.
Target(i) == SpecOf(snap.components[i].name).backend

\* No other component's file matches the pattern of component i.
Unshadowed(i) ==
  \A n \in Shadows[snap.components[i].name] : Named(snap.components, n) = {}

\* No other component that is replayed goes to the same backend.
Alone(i) ==
  \A k \in DOMAIN snap.components : k # i /\ Replayed(k) => Target(k) # Target(i)

\* The target of component i has every part the component holds, as it was at
\* the time of the backup, and of the others what it had.
IsRestored(i) ==
  LET content == snap.components[i].content IN
  \A p \in Parts :
    live[Target(i)][p] =
      IF content[p][2] # 0 THEN <<content[p][1], 1>> ELSE before[Target(i)][p]

\* A restore that reports success has put back every part each selected
\* component holds, as it was at the time of the backup, in the backend of the
\* source of that name; the rest of what the backend held is still there.
\* The exceptions: a component whose file another's shadows (Shadows), two
\* that go to one backend, where the later one writes over the earlier, and
\* names that are not distinct.
SuccessIsRestored ==
  cmd.verb = "restore" /\ cmd.result = "ok" /\ Distinct(snap.components) /\ Distinct(job.sources) =>
    \A i \in DOMAIN snap.components :
      Replayed(i) /\ Unshadowed(i) /\ Alone(i) => IsRestored(i)

\* A killed download's leftover next to a manifest stands for the archive that
\* is gone: it is found, so nothing is fetched in its place.
Blocked == data.archive = "none" /\ data.cut_off /\ data.manifest

\* A command nobody disturbed refuses a snapshot only when no place has it, or
\* a damaged archive is all it could find, or a leftover blocks the download: no
\* download that failed, no leftover next to an archive or without a manifest,
\* no drop that was cut short and no torn local copy makes a later restore fail.
\* Concerns _hydrate_from_destinations and _find_artifact.
RefusedForAReason ==
  cmd.result = "refused" /\ ~cmd.disturbed =>
    \/ rotten
    \/ Blocked
    \/ ~IsLocal /\ \A i \in DOMAIN job.buckets :
                     ~(held[job.buckets[i]].manifest /\ held[job.buckets[i]].archive # "none")
=============================================================================
