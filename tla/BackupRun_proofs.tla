---------------------------- MODULE BackupRun_proofs ----------------------------
(***************************************************************************)
(* BackupRun, for every number of processes, places, runs and kills and    *)
(* for every set of configurations: its type invariant and its safety      *)
(* properties.                                                             *)
(*                                                                         *)
(* They are proved in layers, each an invariant that the later ones may    *)
(* use: Control and Holds of BackupRunInvariant (typing; nothing stored is *)
(* lost), ListingOrder (what is listed has its archive), SuccessKept (what *)
(* success means), PendingKept (what is missing off-site is marked),       *)
(* NewestKept (the newest snapshot survives) and DataDirKept (a data dir   *)
(* that should be empty is). For each layer one lemma, with a step for     *)
(* each action, shows that every step preserves it.                        *)
(***************************************************************************)
EXTENDS BackupRunInvariant, FiniteSetTheorems, TLAPS

-----------------------------------------------------------------------------
(* First layer: Control. A step replaces the local state of one run: Advance *)
(* says what the new one, and the change of the places and of the history,   *)
(* must satisfy for Control to go on holding; ControlStep shows it action by *)
(* action.                                                                   *)

(***************************************************************************)
(* Only the run that takes the step changes, and all it can add to what is *)
(* stored and marked is its own snapshot, which no other run has.          *)
(***************************************************************************)
LEMMA Advance ==
  ASSUME Control, NEW p \in Procs, run[p].pc # "idle",
         NEW r, Becomes(p, r), r \in Run, Shape(r),
         Tracks(r, stored', markers', clock),
         r.pc = "idle" \/ r.sid = run[p].sid,
         UNCHANGED <<job, clock>>, breaks' \in 0..MaxBreaks,
         last' \in [sid : 0..MaxRuns, status : Status],
         archive'  \in [Places -> [Sids -> Condition]],
         manifest' \in [Places -> [Sids -> Condition]],
         stored \subseteq stored', stored' \subseteq stored \cup {run[p].sid},
         markers' \subseteq stored', markers' \subseteq markers \cup {run[p].sid},
         due' \subseteq stored', good' \subseteq stored', pruned' \subseteq Sids
  PROVE  Control'
<1> USE DEF Control
<1>1. run' \in [Procs -> Run] /\ run'[p] = r
  BY DEF TypeOK, Becomes
<1>2. \A q \in Procs : q # p => run'[q] = run[q]
  BY DEF TypeOK, Becomes
<1>3. run[p] \in Run /\ run[p].sid \in Sids /\ run[p].sid <= clock
  BY DEF TypeOK, Shape, Tracks
<1>4. TypeOK'
  BY <1>1, <1>3 DEF TypeOK
<1>5. \A s \in stored' : s <= clock'
  BY <1>3
<1>6. ASSUME NEW q \in Procs, q # p
      PROVE  Tracks(run[q], stored', markers', clock)
  <2>1. Tracks(run[q], stored, markers, clock)
    OBVIOUS
  <2>2. run[q].pc # "idle" => run[q].sid # run[p].sid
    BY <1>6
  <2> QED
    BY <2>1, <2>2 DEF Tracks, Undelivered, CatchingUp, InUpload, Shipping, Clearing
<1>7. \A q \in Procs : Shape(run'[q]) /\ Tracks(run'[q], stored', markers', clock')
  BY <1>1, <1>2, <1>6
<1>8. \A q, o \in Procs : q # o /\ run'[q].pc # "idle" /\ run'[o].pc # "idle"
                            => run'[q].sid # run'[o].sid
  BY <1>1, <1>2
<1> QED
  BY <1>4, <1>5, <1>7, <1>8

(***************************************************************************)
(* Advance, for a step that changes nothing but the run.                   *)
(***************************************************************************)
LEMMA AdvanceQuietly ==
  ASSUME Control, NEW p \in Procs, run[p].pc # "idle",
         NEW r, Becomes(p, r), r \in Run, Shape(r),
         Tracks(r, stored, markers, clock), r.sid = run[p].sid,
         UNCHANGED <<env, places, history>>
  PROVE  Control'
<1>1. /\ UNCHANGED <<job, clock, breaks, last, archive, manifest, markers>>
      /\ UNCHANGED <<stored, due, good, pruned>>
  BY DEF env, places, history
<1> QED
  BY <1>1, Advance DEF Control, TypeOK

(***************************************************************************)
(* Advance, for a step that changes the run and the places.                *)
(***************************************************************************)
LEMMA AdvancePlaces ==
  ASSUME Control, NEW p \in Procs, run[p].pc # "idle",
         NEW r, Becomes(p, r), r \in Run, Shape(r),
         Tracks(r, stored, markers', clock), r.sid = run[p].sid,
         UNCHANGED <<job, clock, last, breaks>>, UNCHANGED <<stored, due, good, pruned>>,
         archive'  \in [Places -> [Sids -> Condition]],
         manifest' \in [Places -> [Sids -> Condition]],
         markers' \subseteq stored, markers' \subseteq markers \cup {run[p].sid}
  PROVE  Control'
BY Advance DEF Control, TypeOK

(***************************************************************************)
(* Staging keeps the run's snapshot new: it is not stored yet.             *)
(***************************************************************************)
LEMMA Staging ==
  ASSUME Control, NEW p \in Procs,
         \/ Produce(p)
         \/ Connect(p)
  PROVE  Control'
<1> USE BackupAssumption
<1>a. run[p] \in Run /\ Shape(run[p]) /\ Tracks(run[p], stored, markers, clock)
  BY DEF Control, TypeOK
<1>b. /\ archive \in [Places -> [Sids -> Condition]] /\ manifest \in [Places -> [Sids -> Condition]]
      /\ markers \subseteq stored /\ stored \subseteq Sids /\ 0 \in 0..MaxRuns
  BY DEF Control, TypeOK
<1>c. Sids \subseteq 0..MaxRuns
  BY DEF Sids
<1>1. CASE Produce(p)
  <2>1. PICK failed \in Failures, warned \in BOOLEAN :
           Becomes(p, [run[p] EXCEPT !.pc = "connect", !.failed = failed,
                                       !.errors = failed \/ warned])
    BY <1>1 DEF Produce
  <2>2. PICK r : r = [run[p] EXCEPT !.pc = "connect", !.failed = failed,
                                      !.errors = failed \/ warned]
    OBVIOUS
  <2>3. Becomes(p, r)
    BY <2>1, <1>1, <2>2 DEF Produce
  <2>4. run[p].pc # "idle" /\ run[p].pc = "produce"
    BY <2>1, <1>1 DEF Produce, At, Uploaded, NextPlace, NextPending, Offsite, OffsiteOf,
         DropsLocal
  <2>5. r \in Run
    BY ZenonT(60), <2>1, <2>2, <1>a, <1>b DEF Run
  <2>6. Shape(r) /\ Tracks(r, stored, markers, clock) /\ r.sid = run[p].sid
    BY <2>1, <2>2, <2>4, <1>a DEF Run, Shape, Tracks, InUpload, Shipping, Undelivered,
         Clearing, CatchingUp, OffsiteOf
  <2> QED
    BY <1>1, <2>3, <2>4, <2>5, <2>6, AdvanceQuietly DEF Produce
<1>2. CASE Connect(p)
  <2>1. PICK up \in SUBSET job.s3 :
           LET built == up \cup (IF job.local THEN {Local} ELSE {})
               dests == IF built = {} /\ job.s3 = {} THEN {Local} ELSE built
           IN  Becomes(p, [run[p] EXCEPT !.pc = "archive", !.phase = "deliver",
                                         !.item = run[p].sid, !.dests = dests,
                                         !.queue = dests, !.got = {},
                                         !.errors = @ \/ up # job.s3])
    BY <1>2 DEF Connect
  <2> DEFINE built == up \cup (IF job.local THEN {Local} ELSE {})
  <2>2. PICK dests : dests = IF built = {} /\ job.s3 = {} THEN {Local} ELSE built
    OBVIOUS
  <2>3. PICK errors : errors = (run[p].errors \/ up # job.s3)
    OBVIOUS
  <2>4. PICK r : r = [run[p] EXCEPT !.pc = "archive", !.phase = "deliver",
                                    !.item = run[p].sid, !.dests = dests,
                                    !.queue = dests, !.got = {},
                                    !.errors = errors]
    OBVIOUS
  <2>5. Becomes(p, r)
    BY <2>1, <2>2, <2>3, <2>4
  <2>6. run[p].pc = "produce" \/ run[p].pc = "connect"
    BY <1>2 DEF Connect, At
  <2>7. dests \in SUBSET Places
    <3>1. job.s3 \subseteq S3
      BY DEF Control, TypeOK, Job
    <3> QED
      BY <2>2, <3>1 DEF Places
  <2>8. errors \in BOOLEAN
    BY <2>3
  <2>9. r \in Run
    BY <2>4, <2>7, <2>8, <1>a DEF Run
  <2>10. Shape(r) /\ Tracks(r, stored, markers, clock) /\ r.sid = run[p].sid
    BY ZenonT(60), <2>4, <2>6, <2>7, <1>a DEF Run, Shape, Tracks, InUpload, Shipping,
         Undelivered,
         Clearing, CatchingUp, OffsiteOf
  <2> QED
    BY <1>2, <2>5, <2>6, <2>9, <2>10, AdvanceQuietly DEF Connect
<1> QED
  BY <1>1, <1>2

(***************************************************************************)
(* What is uploaded is whole, or what the data dir has.                    *)
(***************************************************************************)
LEMMA SourcesAreTyped ==
  ASSUME Control, NEW p \in Procs, run[p].item \in Sids
  PROVE  ArchiveSource(p) \in Condition /\ ManifestSource(p) \in Condition
<1>1. Local \in Places /\ "whole" \in Condition
  BY DEF Places, Condition
<1>2. archive[Local][run[p].item] \in Condition /\ manifest[Local][run[p].item] \in Condition
  BY <1>1 DEF Control, TypeOK
<1> QED
  BY <1>1, <1>2 DEF ArchiveSource, ManifestSource

(***************************************************************************)
(* A put or a deletion changes one cell.                                   *)
(***************************************************************************)
LEMMA CellIsTyped ==
  ASSUME NEW f \in [Places -> [Sids -> Condition]], NEW d, NEW s, NEW g,
         g = f \/ \E c \in Condition : g = [f EXCEPT ![d][s] = c]
  PROVE  g \in [Places -> [Sids -> Condition]]
OBVIOUS

(***************************************************************************)
(* An upload writes the item only, at a place still to go.                 *)
(***************************************************************************)
LEMMA Uploading ==
  ASSUME Control, NEW p \in Procs, NEW d \in Places,
         \/ PutArchive(p, d)
         \/ PutSidecar(p)
         \/ ArchivePutFails(p, d)
         \/ SidecarPutFails(p)
  PROVE  Control'
<1> USE BackupAssumption
<1>a. run[p] \in Run /\ Shape(run[p]) /\ Tracks(run[p], stored, markers, clock)
  BY DEF Control, TypeOK
<1>b. /\ archive \in [Places -> [Sids -> Condition]] /\ manifest \in [Places -> [Sids -> Condition]]
      /\ markers \subseteq stored /\ stored \subseteq Sids /\ 0 \in 0..MaxRuns
  BY DEF Control, TypeOK
<1>c. Sids \subseteq 0..MaxRuns
  BY DEF Sids
<1>1. CASE PutArchive(p, d)
  <2>1. PICK r : r = [run[p] EXCEPT !.pc = "sidecar", !.at = d]
    OBVIOUS
  <2>2. Becomes(p, r)
    BY <1>1, <2>1 DEF PutArchive
  <2>3. run[p].pc # "idle" /\ run[p].pc = "archive" /\ d \in run[p].queue
    BY <1>1 DEF PutArchive, At, Uploaded, NextPlace, NextPending, Offsite, OffsiteOf,
         DropsLocal
  <2>4. r \in Run
    BY <2>1, <1>a, <1>b DEF Run
  <2>5. UNCHANGED <<manifest, markers, job, clock, last, breaks>> /\ UNCHANGED <<stored, due, good, pruned>>
    BY <1>1, <2>3, <1>a DEF PutArchive, env, history
  <2>6. ArchiveSource(p) \in Condition
    BY <1>1, <2>3, <1>a, SourcesAreTyped DEF Shape, InUpload
  <2>7. archive' \in [Places -> [Sids -> Condition]]
    BY <1>1, <2>3, <1>a, <2>6 DEF PutArchive, Control, TypeOK
  <2>8. /\ Shape(r) /\ Tracks(r, stored, markers', clock) /\ r.sid = run[p].sid
    BY <2>5, <2>7, <2>1, <2>3, <1>a DEF Run, Shape, Tracks, InUpload, Shipping,
         Undelivered, Clearing, CatchingUp, OffsiteOf
  <2> QED
    BY <2>2, <2>3, <2>4, <2>5, <2>7, <2>8, <1>b, AdvancePlaces
<1>2. CASE PutSidecar(p)
  <2>1. PICK r : r = [run[p] EXCEPT !.pc = "archive", !.at = Local,
                                      !.queue = @ \ {run[p].at},
                                      !.got = @ \cup {run[p].at}]
    OBVIOUS
  <2>2. Becomes(p, r)
    BY <1>2, <2>1 DEF PutSidecar
  <2>3. run[p].pc # "idle" /\ run[p].pc = "sidecar"
    BY <1>2 DEF PutSidecar, At, Uploaded, NextPlace, NextPending, Offsite, OffsiteOf,
         DropsLocal
  <2>4. r \in Run
    BY ZenonT(60), <2>1, <1>a, <1>b DEF Run, Places
  <2>5. UNCHANGED <<archive, markers, job, clock, last, breaks>> /\ UNCHANGED <<stored, due, good, pruned>>
    BY <1>2, <2>3, <1>a DEF PutSidecar, env, history
  <2>6. ManifestSource(p) \in Condition
    BY <1>2, <2>3, <1>a, SourcesAreTyped DEF Shape, InUpload
  <2>7. manifest' \in [Places -> [Sids -> Condition]]
    BY <1>2, <2>3, <1>a, <2>6 DEF PutSidecar, Control, TypeOK
  <2>8. /\ Shape(r) /\ Tracks(r, stored, markers', clock) /\ r.sid = run[p].sid
    BY ZenonT(60), <2>5, <2>7, <2>1, <2>3, <1>a DEF Run, Shape, Tracks, InUpload, Shipping,
         Undelivered, Clearing, CatchingUp, OffsiteOf, Places
  <2> QED
    BY <2>2, <2>3, <2>4, <2>5, <2>7, <2>8, <1>b, AdvancePlaces
<1>3. CASE ArchivePutFails(p, d)
  <2>1. PICK r : r = [run[p] EXCEPT !.queue = @ \ {d}, !.errors = TRUE]
    OBVIOUS
  <2>2. Becomes(p, r)
    BY <1>3, <2>1 DEF ArchivePutFails
  <2>3. run[p].pc # "idle" /\ run[p].pc = "archive" /\ d \in run[p].queue
    BY <1>3 DEF ArchivePutFails, At, Uploaded, NextPlace, NextPending, Offsite, OffsiteOf,
         DropsLocal
  <2>4. r \in Run
    BY <2>1, <1>a, <1>b DEF Run
  <2>5. UNCHANGED <<manifest, markers, job, clock, last, breaks>> /\ UNCHANGED <<stored, due, good, pruned>>
    BY <1>3, <2>3, <1>a DEF ArchivePutFails, env, history
  <2>6. ArchiveSource(p) \in Condition
    BY <1>3, <2>3, <1>a, SourcesAreTyped DEF Shape, InUpload
  <2>7. \A left \in ArchiveLeft : (IF left = "whole" THEN ArchiveSource(p) ELSE left) \in Condition
    BY <1>3, <2>3, <1>a, <2>6 DEF Condition
  <2>8. archive' = archive \/ \E c \in Condition : archive' = [archive EXCEPT ![d][run[p].item] = c]
    BY <1>3, <2>3, <1>a, <2>7 DEF ArchivePutFails
  <2>9. archive' \in [Places -> [Sids -> Condition]]
    BY <1>3, <2>3, <1>a, <2>8, <1>b, CellIsTyped
  <2>10. /\ Shape(r) /\ Tracks(r, stored, markers', clock) /\ r.sid = run[p].sid
    BY ZenonT(60), <2>5, <2>9, <2>1, <2>3, <1>a DEF Run, Shape, Tracks, InUpload, Shipping,
         Undelivered, Clearing, CatchingUp, OffsiteOf
  <2> QED
    BY <2>2, <2>3, <2>4, <2>5, <2>9, <2>10, <1>b, AdvancePlaces
<1>4. CASE SidecarPutFails(p)
  <2>1. PICK r : r = [run[p] EXCEPT !.pc = "archive", !.at = Local,
                                      !.queue = @ \ {run[p].at}, !.errors = TRUE]
    OBVIOUS
  <2>2. Becomes(p, r)
    BY <1>4, <2>1 DEF SidecarPutFails
  <2>3. run[p].pc # "idle" /\ run[p].pc = "sidecar"
    BY <1>4 DEF SidecarPutFails, At, Uploaded, NextPlace, NextPending, Offsite, OffsiteOf,
         DropsLocal
  <2>4. r \in Run
    BY <2>1, <1>a, <1>b DEF Run, Places
  <2>5. UNCHANGED <<archive, markers, job, clock, last, breaks>> /\ UNCHANGED <<stored, due, good, pruned>>
    BY <1>4, <2>3, <1>a DEF SidecarPutFails, env, history
  <2>6. ManifestSource(p) \in Condition
    BY <1>4, <2>3, <1>a, SourcesAreTyped DEF Shape, InUpload
  <2>7. \A left \in ManifestLeft : (IF left = "whole" THEN ManifestSource(p) ELSE left) \in Condition
    BY <1>4, <2>3, <1>a, <2>6 DEF Condition
  <2>8. manifest' = manifest \/ \E c \in Condition : manifest' = [manifest EXCEPT ![run[p].at][run[p].item] = c]
    BY <1>4, <2>3, <1>a, <2>7 DEF SidecarPutFails
  <2>9. manifest' \in [Places -> [Sids -> Condition]]
    BY <1>4, <2>3, <1>a, <2>8, <1>b, CellIsTyped
  <2>10. /\ Shape(r) /\ Tracks(r, stored, markers', clock) /\ r.sid = run[p].sid
    BY ZenonT(60), <2>5, <2>9, <2>1, <2>3, <1>a DEF Run, Shape, Tracks, InUpload, Shipping,
         Undelivered, Clearing, CatchingUp, OffsiteOf, Places
  <2> QED
    BY <2>2, <2>3, <2>4, <2>5, <2>9, <2>10, <1>b, AdvancePlaces
<1> QED
  BY <1>1, <1>2, <1>3, <1>4

(***************************************************************************)
(* A snapshot some place took is stored from here on; marking it keeps the *)
(* markers to stored snapshots.                                            *)
(***************************************************************************)
LEMMA Delivering ==
  ASSUME Control, NEW p \in Procs,
         \/ FallBack(p)
         \/ Delivered(p)
         \/ MarkPending(p)
         \/ CatchUp(p)
  PROVE  Control'
<1> USE BackupAssumption
<1>a. run[p] \in Run /\ Shape(run[p]) /\ Tracks(run[p], stored, markers, clock)
  BY DEF Control, TypeOK
<1>b. /\ archive \in [Places -> [Sids -> Condition]] /\ manifest \in [Places -> [Sids -> Condition]]
      /\ markers \subseteq stored /\ stored \subseteq Sids /\ 0 \in 0..MaxRuns
  BY DEF Control, TypeOK
<1>c. Sids \subseteq 0..MaxRuns
  BY DEF Sids
<1>1. CASE FallBack(p)
  <2>1. PICK r : r = [run[p] EXCEPT !.phase = "fallback", !.queue = {Local}]
    OBVIOUS
  <2>2. Becomes(p, r)
    BY <1>1, <2>1 DEF FallBack
  <2>3. run[p].pc # "idle" /\ run[p].pc = "archive" /\ run[p].queue = {} /\ run[p].phase = "deliver" /\ run[p].got = {}
    BY <1>1 DEF FallBack, At, Uploaded, NextPlace, NextPending, Offsite, OffsiteOf,
         DropsLocal
  <2>4. r \in Run
    BY <2>1, <1>a, <1>b DEF Run, Places
  <2>5. Shape(r) /\ Tracks(r, stored, markers, clock) /\ r.sid = run[p].sid
    BY ZenonT(60), <2>1, <2>3, <1>a DEF Run, Shape, Tracks, InUpload, Shipping,
         Undelivered, Clearing,
         CatchingUp, OffsiteOf, Places
  <2> QED
    BY <1>1, <2>2, <2>3, <2>4, <2>5, AdvanceQuietly DEF FallBack
<1>2. CASE Delivered(p)
  <2>1. PICK r : r = [run[p] EXCEPT !.pc = "track", !.stored = run[p].got,
                                      !.got = {}, !.item = 0]
    OBVIOUS
  <2>2. Becomes(p, r)
    BY <1>2, <2>1 DEF Delivered
  <2>3. run[p].pc # "idle" /\ run[p].pc = "archive" /\ run[p].phase # "ship"
    BY <1>2 DEF Delivered, At, Uploaded, NextPlace, NextPending, Offsite, OffsiteOf,
         DropsLocal
  <2>4. run[p].got \in SUBSET Places /\ 0 \in 0..MaxRuns
    BY <1>a, <1>b, <1>c DEF Run
  <2>5. r \in Run
    BY <2>1, <2>4, <1>a, <1>b DEF Run
  <2>6. UNCHANGED <<archive, manifest, markers, pruned, job, clock, last, breaks>>
    BY <1>2, <2>3, <1>a DEF Delivered, env, places
  <2>7. /\ stored' = stored \cup (IF run[p].got # {} THEN {run[p].sid} ELSE {})
        /\ due' \subseteq due \cup (IF run[p].got # {} THEN {run[p].sid} ELSE {})
        /\ good' \subseteq good \cup (IF run[p].got # {} THEN {run[p].sid} ELSE {})
    BY <1>2, <2>3, <1>a DEF Delivered
  <2>8. run[p].sid \notin markers /\ markers \subseteq stored
    BY <1>2, <2>3, <1>a DEF Control, TypeOK, Tracks, Undelivered, InUpload, Shipping
  <2>9. /\ Shape(r) /\ Tracks(r, stored', markers', clock)
        /\ r.pc = "idle" \/ r.sid = run[p].sid
    BY <2>6, <2>7, <2>8, <2>1, <2>3, <1>a DEF Run, Shape, Tracks, InUpload, Shipping,
         Undelivered, Clearing, CatchingUp, OffsiteOf
  <2> QED
    BY <2>2, <2>3, <2>5, <2>6, <2>7, <2>8, <2>9, Advance DEF Control, TypeOK
<1>3. CASE MarkPending(p)
  <2>1. PICK r : r = [run[p] EXCEPT !.pc = "retain",
                      !.queue = run[p].dests \cup (IF StoodIn(p) THEN {Local} ELSE {})]
    OBVIOUS
  <2>2. Becomes(p, r)
    BY <1>3, <2>1 DEF MarkPending
  <2>3. run[p].pc # "idle" /\ run[p].pc = "track" /\ OffsiteOf(run[p]) = {}
    BY <1>3 DEF MarkPending, At, Uploaded, NextPlace, NextPending, Offsite, OffsiteOf,
         DropsLocal
  <2>4. r \in Run
    BY ZenonT(60), <2>1, <1>a, <1>b DEF Run, Places
  <2>5. UNCHANGED <<archive, manifest, job, clock, last, breaks>> /\ UNCHANGED <<stored, due, good, pruned>>
    BY <1>3, <2>3, <1>a DEF MarkPending, env, history
  <2>6. /\ markers' \subseteq markers \cup {run[p].sid}
        /\ run[p].stored = {} => markers' = markers
    BY <1>3, <2>3, <1>a DEF MarkPending
  <2>7. markers' \subseteq stored'
    BY <1>3, <2>3, <1>a, <2>6 DEF MarkPending, Control, TypeOK, Tracks, Undelivered,
         InUpload, history
  <2>8. /\ Shape(r) /\ Tracks(r, stored, markers', clock) /\ r.sid = run[p].sid
    BY <2>5, <2>6, <2>7, <2>1, <2>3, <1>a DEF Run, Shape, Tracks, InUpload, Shipping,
         Undelivered, Clearing, CatchingUp, OffsiteOf, Places
  <2> QED
    BY <2>2, <2>3, <2>4, <2>5, <2>6, <2>7, <2>8, <1>b, AdvancePlaces
<1>4. CASE CatchUp(p)
  <2>1. PICK r : r = [run[p] EXCEPT !.pc = "ship", !.todo = markers]
    OBVIOUS
  <2>2. Becomes(p, r)
    BY <1>4, <2>1 DEF CatchUp
  <2>3. run[p].pc # "idle" /\ run[p].pc = "track" /\ OffsiteOf(run[p]) # {}
    BY <1>4 DEF CatchUp, At, Uploaded, NextPlace, NextPending, Offsite, OffsiteOf,
         DropsLocal
  <2>4. r \in Run
    BY <2>1, <1>a, <1>b DEF Run, Control, TypeOK
  <2>5. UNCHANGED <<archive, manifest, markers, job, clock, last, breaks>> /\ UNCHANGED <<stored, due, good, pruned>>
    BY <1>4, <2>3, <1>a DEF CatchUp, env, places, history
  <2>6. markers \subseteq stored /\ markers \subseteq Sids
    BY <1>4, <2>3, <1>a DEF Control, TypeOK
  <2>7. /\ Shape(r) /\ Tracks(r, stored', markers', clock)
        /\ r.pc = "idle" \/ r.sid = run[p].sid
    BY ZenonT(60), <2>5, <2>6, <2>1, <2>3, <1>a DEF Run, Shape, Tracks, InUpload, Shipping,
         Undelivered, Clearing, CatchingUp, OffsiteOf, Control, TypeOK
  <2> QED
    BY <2>2, <2>3, <2>4, <2>5, <2>6, <2>7, Advance DEF Control, TypeOK
<1> QED
  BY <1>1, <1>2, <1>3, <1>4

(***************************************************************************)
(* Catching up ships and clears pending snapshots, which are all stored, to*)
(* places off-site.                                                        *)
(***************************************************************************)
LEMMA Shippings ==
  ASSUME Control, NEW p \in Procs,
         \/ ForgetPending(p)
         \/ ShipPending(p)
         \/ StaysPending(p)
         \/ Shipped(p)
         \/ ClearArchive(p)
         \/ ClearManifest(p)
         \/ CaughtUp(p)
  PROVE  Control'
<1> USE BackupAssumption
<1>a. run[p] \in Run /\ Shape(run[p]) /\ Tracks(run[p], stored, markers, clock)
  BY DEF Control, TypeOK
<1>b. /\ archive \in [Places -> [Sids -> Condition]] /\ manifest \in [Places -> [Sids -> Condition]]
      /\ markers \subseteq stored /\ stored \subseteq Sids /\ 0 \in 0..MaxRuns
  BY DEF Control, TypeOK
<1>c. Sids \subseteq 0..MaxRuns
  BY DEF Sids
<1>1. CASE ForgetPending(p)
  <2>1. PICK s \in run[p].todo :
           /\ markers' = markers \ {s}
              /\ Becomes(p, [run[p] EXCEPT !.todo = @ \ {s}])
    BY <1>1 DEF ForgetPending
  <2>2. PICK r : r = [run[p] EXCEPT !.todo = @ \ {s}]
    OBVIOUS
  <2>3. Becomes(p, r)
    BY <2>1, <1>1, <2>2 DEF ForgetPending
  <2>4. run[p].pc # "idle" /\ run[p].pc = "ship"
    BY <2>1, <1>1 DEF ForgetPending, At, Uploaded, NextPlace, NextPending, Offsite,
         OffsiteOf, DropsLocal
  <2>5. r \in Run
    BY <2>1, <2>2, <1>a, <1>b DEF Run
  <2>6. UNCHANGED <<archive, manifest, job, clock, last, breaks>> /\ UNCHANGED <<stored, due, good, pruned>>
    BY <2>1, <1>1, <2>4, <1>a DEF ForgetPending, env, history
  <2>7. markers' \subseteq markers
    BY <2>1, <1>1, <2>4, <1>a DEF ForgetPending
  <2>8. /\ Shape(r) /\ Tracks(r, stored, markers', clock) /\ r.sid = run[p].sid
    BY <2>1, <2>6, <2>7, <2>2, <2>4, <1>a DEF Run, Shape, Tracks, InUpload, Shipping,
         Undelivered, Clearing, CatchingUp, OffsiteOf
  <2> QED
    BY <2>3, <2>4, <2>5, <2>6, <2>7, <2>8, <1>b, AdvancePlaces
<1>2. CASE ShipPending(p)
  <2>1. PICK s \in run[p].todo :
           Becomes(p, [run[p] EXCEPT !.pc = "archive", !.phase = "ship",
                                              !.item = s, !.queue = Offsite(p),
                                              !.got = {}, !.todo = @ \ {s}])
    BY <1>2 DEF ShipPending
  <2>2. PICK r : r = [run[p] EXCEPT !.pc = "archive", !.phase = "ship",
                                      !.item = s, !.queue = Offsite(p),
                                      !.got = {}, !.todo = @ \ {s}]
    OBVIOUS
  <2>3. Becomes(p, r)
    BY <2>1, <1>2, <2>2 DEF ShipPending
  <2>4. run[p].pc # "idle" /\ run[p].pc = "ship"
    BY <2>1, <1>2 DEF ShipPending, At, Uploaded, NextPlace, NextPending, Offsite,
         OffsiteOf, DropsLocal
  <2>5. s \in 0..MaxRuns /\ Offsite(p) \in SUBSET Places
    BY <2>1, <2>4, <1>a, <1>b, <1>c DEF Run, Offsite
  <2>6. r \in Run
    BY <2>1, <2>2, <2>5, <1>a, <1>b DEF Run
  <2>7. Shape(r) /\ Tracks(r, stored, markers, clock) /\ r.sid = run[p].sid
    BY ZenonT(60), <2>1, <2>2, <2>4, <1>a DEF Run, Shape, Tracks, InUpload, Shipping,
         Undelivered,
         Clearing, CatchingUp, OffsiteOf, Sids, Offsite
  <2> QED
    BY <1>2, <2>3, <2>4, <2>6, <2>7, AdvanceQuietly DEF ShipPending
<1>3. CASE StaysPending(p)
  <2>1. PICK r : r = [run[p] EXCEPT !.pc = "ship", !.errors = TRUE, !.got = {},
                                      !.item = 0]
    OBVIOUS
  <2>2. Becomes(p, r)
    BY <1>3, <2>1 DEF StaysPending
  <2>3. run[p].pc # "idle" /\ run[p].pc = "archive" /\ run[p].queue = {} /\ run[p].phase = "ship"
    BY <1>3 DEF StaysPending, At, Uploaded, NextPlace, NextPending, Offsite, OffsiteOf,
         DropsLocal
  <2>4. r \in Run
    BY <2>1, <1>a, <1>b DEF Run
  <2>5. Shape(r) /\ Tracks(r, stored, markers, clock) /\ r.sid = run[p].sid
    BY <2>1, <2>3, <1>a DEF Run, Shape, Tracks, InUpload, Shipping, Undelivered, Clearing,
         CatchingUp, OffsiteOf
  <2> QED
    BY <1>3, <2>2, <2>3, <2>4, <2>5, AdvanceQuietly DEF StaysPending
<1>4. CASE Shipped(p)
  <2>1. PICK r : r = [run[p] EXCEPT !.pc = IF KeepsLocal(job) THEN "ship" ELSE "clear archive",
                                      !.got = {}]
    OBVIOUS
  <2>2. Becomes(p, r)
    BY <1>4, <2>1 DEF Shipped
  <2>3. run[p].pc # "idle" /\ run[p].pc = "archive" /\ run[p].queue = {} /\ run[p].phase = "ship"
    BY <1>4 DEF Shipped, At, Uploaded, NextPlace, NextPending, Offsite, OffsiteOf,
         DropsLocal
  <2>4. r \in Run
    BY <2>1, <1>a, <1>b DEF Run
  <2>5. UNCHANGED <<archive, manifest, job, clock, last, breaks>> /\ UNCHANGED <<stored, due, good, pruned>>
    BY <1>4, <2>3, <1>a DEF Shipped, env, history
  <2>6. markers' \subseteq markers
    BY <1>4, <2>3, <1>a DEF Shipped
  <2>7. /\ Shape(r) /\ Tracks(r, stored, markers', clock) /\ r.sid = run[p].sid
    BY <2>5, <2>6, <2>1, <2>3, <1>a DEF Run, Shape, Tracks, InUpload, Shipping,
         Undelivered, Clearing, CatchingUp, OffsiteOf
  <2> QED
    BY <2>2, <2>3, <2>4, <2>5, <2>6, <2>7, <1>b, AdvancePlaces
<1>5. CASE ClearArchive(p)
  <2>1. PICK r : r = [run[p] EXCEPT !.pc = "clear manifest"]
    OBVIOUS
  <2>2. Becomes(p, r)
    BY <1>5, <2>1 DEF ClearArchive
  <2>3. run[p].pc # "idle" /\ run[p].pc = "clear archive"
    BY <1>5 DEF ClearArchive, At, Uploaded, NextPlace, NextPending, Offsite, OffsiteOf,
         DropsLocal
  <2>4. r \in Run
    BY <2>1, <1>a, <1>b DEF Run
  <2>5. UNCHANGED <<manifest, markers, job, clock, last, breaks>> /\ UNCHANGED <<stored, due, good, pruned>>
    BY <1>5, <2>3, <1>a DEF ClearArchive, env, history
  <2>6. \E c \in Condition : archive' = [archive EXCEPT ![Local][run[p].item] = c]
    BY <1>5, <2>3, <1>a DEF ClearArchive, Condition
  <2>7. archive' \in [Places -> [Sids -> Condition]]
    BY <1>5, <2>3, <1>a, <2>6, <1>b, CellIsTyped
  <2>8. /\ Shape(r) /\ Tracks(r, stored, markers', clock) /\ r.sid = run[p].sid
    BY <2>5, <2>7, <2>1, <2>3, <1>a DEF Run, Shape, Tracks, InUpload, Shipping,
         Undelivered, Clearing, CatchingUp, OffsiteOf
  <2> QED
    BY <2>2, <2>3, <2>4, <2>5, <2>7, <2>8, <1>b, AdvancePlaces
<1>6. CASE ClearManifest(p)
  <2>1. PICK r : r = [run[p] EXCEPT !.pc = "ship", !.item = 0]
    OBVIOUS
  <2>2. Becomes(p, r)
    BY <1>6, <2>1 DEF ClearManifest
  <2>3. run[p].pc # "idle" /\ run[p].pc = "clear manifest"
    BY <1>6 DEF ClearManifest, At, Uploaded, NextPlace, NextPending, Offsite, OffsiteOf,
         DropsLocal
  <2>4. r \in Run
    BY <2>1, <1>a, <1>b DEF Run
  <2>5. UNCHANGED <<archive, markers, job, clock, last, breaks>> /\ UNCHANGED <<stored, due, good, pruned>>
    BY <1>6, <2>3, <1>a DEF ClearManifest, env, history
  <2>6. \E c \in Condition : manifest' = [manifest EXCEPT ![Local][run[p].item] = c]
    BY <1>6, <2>3, <1>a DEF ClearManifest, Condition
  <2>7. manifest' \in [Places -> [Sids -> Condition]]
    BY <1>6, <2>3, <1>a, <2>6, <1>b, CellIsTyped
  <2>8. /\ Shape(r) /\ Tracks(r, stored, markers', clock) /\ r.sid = run[p].sid
    BY <2>5, <2>7, <2>1, <2>3, <1>a DEF Run, Shape, Tracks, InUpload, Shipping,
         Undelivered, Clearing, CatchingUp, OffsiteOf
  <2> QED
    BY <2>2, <2>3, <2>4, <2>5, <2>7, <2>8, <1>b, AdvancePlaces
<1>7. CASE CaughtUp(p)
  <2>1. PICK r : r = [run[p] EXCEPT !.pc = "retain", !.queue = run[p].dests]
    OBVIOUS
  <2>2. Becomes(p, r)
    BY <1>7, <2>1 DEF CaughtUp
  <2>3. run[p].pc # "idle" /\ run[p].pc = "ship"
    BY <1>7 DEF CaughtUp, At, Uploaded, NextPlace, NextPending, Offsite, OffsiteOf,
         DropsLocal
  <2>4. r \in Run
    BY <2>1, <1>a, <1>b DEF Run
  <2>5. Shape(r) /\ Tracks(r, stored, markers, clock) /\ r.sid = run[p].sid
    BY <2>1, <2>3, <1>a DEF Run, Shape, Tracks, InUpload, Shipping, Undelivered, Clearing,
         CatchingUp, OffsiteOf
  <2> QED
    BY <1>7, <2>2, <2>3, <2>4, <2>5, AdvanceQuietly DEF CaughtUp
<1> QED
  BY <1>1, <1>2, <1>3, <1>4, <1>5, <1>6, <1>7

(***************************************************************************)
(* The policies only ever name snapshots they were shown.                  *)
(***************************************************************************)
LEMMA SelectedIsListed ==
  ASSUME NEW sids, NEW cfg, NEW t
  PROVE  SelectPrunable(Snaps(sids), cfg, t) \subseteq sids
<1>1. Ids(Snaps(sids)) \subseteq sids
  <2> SUFFICES ASSUME NEW x \in Snaps(sids) PROVE x.id \in sids
    BY DEF Ids
  <2> QED
    BY DEF Snaps
<1>2. CountPrunable(Snaps(sids), cfg.count) \subseteq Ids(Snaps(sids))
  BY DEF CountPrunable, Ids
<1>3. AgePrunable(Snaps(sids), cfg.age_days, t) \subseteq Ids(Snaps(sids))
  BY DEF AgePrunable, Ids
<1> QED
  BY <1>1, <1>2, <1>3 DEF SelectPrunable

(***************************************************************************)
(* Retention selects among the snapshots of one place and deletes their    *)
(* keys there.                                                             *)
(***************************************************************************)
LEMMA Retaining ==
  ASSUME Control, NEW p \in Procs, NEW d \in Places, NEW s \in Sids,
         \/ SelectSnapshots(p, d)
         \/ ListingFails(p, d)
         \/ PruneSnapshot(p, s)
         \/ DeleteKey(p)
         \/ PlacePruned(p)
         \/ DeletionFails(p)
         \/ RetentionDone(p)
  PROVE  Control'
<1> USE BackupAssumption
<1>a. run[p] \in Run /\ Shape(run[p]) /\ Tracks(run[p], stored, markers, clock)
  BY DEF Control, TypeOK
<1>b. /\ archive \in [Places -> [Sids -> Condition]] /\ manifest \in [Places -> [Sids -> Condition]]
      /\ markers \subseteq stored /\ stored \subseteq Sids /\ 0 \in 0..MaxRuns
  BY DEF Control, TypeOK
<1>c. Sids \subseteq 0..MaxRuns
  BY DEF Sids
<1>1. CASE SelectSnapshots(p, d)
  <2>1. PICK plan \in SUBSET Sids :
           Becomes(p, [run[p] EXCEPT !.pc = "prune", !.at = d, !.queue = @ \ {d},
                                               !.plan = plan])
    <3> DEFINE plan == SelectPrunable(Snaps(Candidates(p, d)), job.retention, run[p].sid)
    <3>1. Candidates(p, d) \subseteq Sids
      BY <1>b DEF Candidates, Listed
    <3>2. plan \in SUBSET Sids
      BY <3>1, SelectedIsListed
    <3> HIDE DEF plan
    <3>3. Becomes(p, [run[p] EXCEPT !.pc = "prune", !.at = d, !.queue = @ \ {d}, !.plan = plan])
      BY <1>1 DEF SelectSnapshots, plan
    <3> QED
      BY <3>2, <3>3
  <2>2. PICK r : r = [run[p] EXCEPT !.pc = "prune", !.at = d, !.queue = @ \ {d},
                                      !.plan = plan]
    OBVIOUS
  <2>3. Becomes(p, r)
    BY <2>1, <1>1, <2>2 DEF SelectSnapshots
  <2>4. run[p].pc # "idle" /\ run[p].pc = "retain"
    BY <2>1, <1>1 DEF SelectSnapshots, At, Uploaded, NextPlace, NextPending, Offsite,
         OffsiteOf, DropsLocal
  <2>5. r \in Run
    BY ZenonT(60), <2>1, <2>2, <1>a, <1>b DEF Run
  <2>6. Shape(r) /\ Tracks(r, stored, markers, clock) /\ r.sid = run[p].sid
    BY <2>1, <2>2, <2>4, <1>a DEF Run, Shape, Tracks, InUpload, Shipping, Undelivered,
         Clearing, CatchingUp, OffsiteOf
  <2> QED
    BY <1>1, <2>3, <2>4, <2>5, <2>6, AdvanceQuietly DEF SelectSnapshots
<1>2. CASE ListingFails(p, d)
  <2>1. PICK r : r = [run[p] EXCEPT !.queue = @ \ {d}, !.errors = TRUE]
    OBVIOUS
  <2>2. Becomes(p, r)
    BY <1>2, <2>1 DEF ListingFails
  <2>3. run[p].pc # "idle" /\ run[p].pc = "retain"
    BY <1>2 DEF ListingFails, At, Uploaded, NextPlace, NextPending, Offsite, OffsiteOf,
         DropsLocal
  <2>4. r \in Run
    BY <2>1, <1>a, <1>b DEF Run
  <2>5. Shape(r) /\ Tracks(r, stored, markers, clock) /\ r.sid = run[p].sid
    BY <2>1, <2>3, <1>a DEF Run, Shape, Tracks, InUpload, Shipping, Undelivered, Clearing,
         CatchingUp, OffsiteOf
  <2> QED
    BY <1>2, <2>2, <2>3, <2>4, <2>5, AdvanceQuietly DEF ListingFails
<1>3. CASE PruneSnapshot(p, s)
  <2>1. PICK r : r = [run[p] EXCEPT !.pc = IF Keys(run[p].at, s) = {} THEN "prune" ELSE "delete",
                                      !.item = s, !.keys = Keys(run[p].at, s),
                                      !.plan = @ \ {s}]
    OBVIOUS
  <2>2. Becomes(p, r)
    BY <1>3, <2>1 DEF PruneSnapshot
  <2>3. run[p].pc # "idle" /\ run[p].pc = "prune"
    BY <1>3 DEF PruneSnapshot, At, Uploaded, NextPlace, NextPending, Offsite, OffsiteOf,
         DropsLocal
  <2>4. s \in Sids /\ s \in 0..MaxRuns /\ Keys(run[p].at, s) \in SUBSET {"manifest", "marker", "archive"}
    BY <1>a, <1>b, <1>c DEF Run, Keys
  <2>5. r \in Run
    BY <2>1, <2>4, <1>a, <1>b DEF Run
  <2>6. UNCHANGED <<archive, manifest, markers, stored, due, good, job, clock, last, breaks>>
    BY <1>3, <2>3, <1>a DEF PruneSnapshot, env, places
  <2>7. pruned' = pruned \cup {s}
    BY <1>3, <2>3, <1>a DEF PruneSnapshot
  <2>8. /\ Shape(r) /\ Tracks(r, stored', markers', clock)
        /\ r.pc = "idle" \/ r.sid = run[p].sid
    BY ZenonT(60), <2>6, <2>7, <2>1, <2>3, <1>a DEF Run, Shape, Tracks, InUpload, Shipping,
         Undelivered, Clearing, CatchingUp, OffsiteOf
  <2> QED
    BY <2>2, <2>3, <2>5, <2>6, <2>7, <2>8, Advance DEF Control, TypeOK
<1>4. CASE DeleteKey(p)
  <2>1. PICK r : r = [run[p] EXCEPT !.pc = IF run[p].keys = {FirstKey(run[p].keys)} THEN "prune" ELSE "delete",
                                      !.keys = @ \ {FirstKey(run[p].keys)}]
    OBVIOUS
  <2>2. Becomes(p, r)
    BY <1>4, <2>1 DEF DeleteKey
  <2>3. run[p].pc # "idle" /\ run[p].pc = "delete"
    BY <1>4 DEF DeleteKey, At, Uploaded, NextPlace, NextPending, Offsite, OffsiteOf,
         DropsLocal
  <2>4. r \in Run
    BY <2>1, <1>a, <1>b DEF Run
  <2>5. UNCHANGED <<job, clock, last, breaks>> /\ UNCHANGED <<stored, due, good, pruned>>
    BY <1>4, <2>3, <1>a DEF DeleteKey, env, history
  <2>6. /\ archive' = archive \/ \E c \in Condition : archive' = [archive EXCEPT ![run[p].at][run[p].item] = c]
        /\ manifest' = manifest \/ \E c \in Condition : manifest' = [manifest EXCEPT ![run[p].at][run[p].item] = c]
    BY <1>4, <2>3, <1>a DEF DeleteKey, Condition
  <2>7. /\ archive' \in [Places -> [Sids -> Condition]]
        /\ manifest' \in [Places -> [Sids -> Condition]]
    BY <1>4, <2>3, <1>a, <2>6, <1>b, CellIsTyped
  <2>8. markers' \subseteq markers
    BY <1>4, <2>3, <1>a DEF DeleteKey
  <2>9. /\ Shape(r) /\ Tracks(r, stored, markers', clock) /\ r.sid = run[p].sid
    BY <2>5, <2>7, <2>8, <2>1, <2>3, <1>a DEF Run, Shape, Tracks, InUpload, Shipping,
         Undelivered, Clearing, CatchingUp, OffsiteOf
  <2> QED
    BY <2>2, <2>3, <2>4, <2>5, <2>7, <2>8, <2>9, <1>b, AdvancePlaces
<1>5. CASE PlacePruned(p)
  <2>1. PICK r : r = [run[p] EXCEPT !.pc = "retain", !.at = Local, !.item = 0]
    OBVIOUS
  <2>2. Becomes(p, r)
    BY <1>5, <2>1 DEF PlacePruned
  <2>3. run[p].pc # "idle" /\ run[p].pc = "prune"
    BY <1>5 DEF PlacePruned, At, Uploaded, NextPlace, NextPending, Offsite, OffsiteOf,
         DropsLocal
  <2>4. r \in Run
    BY <2>1, <1>a, <1>b DEF Run, Places
  <2>5. Shape(r) /\ Tracks(r, stored, markers, clock) /\ r.sid = run[p].sid
    BY <2>1, <2>3, <1>a DEF Run, Shape, Tracks, InUpload, Shipping, Undelivered, Clearing,
         CatchingUp, OffsiteOf, Places
  <2> QED
    BY <1>5, <2>2, <2>3, <2>4, <2>5, AdvanceQuietly DEF PlacePruned
<1>6. CASE DeletionFails(p)
  <2>1. PICK r : r = [run[p] EXCEPT !.pc = "retain", !.at = Local, !.item = 0,
                                      !.plan = {}, !.keys = {}, !.errors = TRUE]
    OBVIOUS
  <2>2. Becomes(p, r)
    BY <1>6, <2>1 DEF DeletionFails
  <2>3. run[p].pc # "idle" /\ run[p].pc \in {"prune", "delete"}
    BY <1>6 DEF DeletionFails, At, Uploaded, NextPlace, NextPending, Offsite, OffsiteOf,
         DropsLocal
  <2>4. r \in Run
    BY <2>1, <1>a, <1>b DEF Run, Places
  <2>5. Shape(r) /\ Tracks(r, stored, markers, clock) /\ r.sid = run[p].sid
    BY ZenonT(60), <2>1, <2>3, <1>a DEF Run, Shape, Tracks, InUpload, Shipping,
         Undelivered, Clearing,
         CatchingUp, OffsiteOf, Places
  <2> QED
    BY <1>6, <2>2, <2>3, <2>4, <2>5, AdvanceQuietly DEF DeletionFails
<1>7. CASE RetentionDone(p)
  <2>1. PICK r : r = [run[p] EXCEPT !.pc = "drop"]
    OBVIOUS
  <2>2. Becomes(p, r)
    BY <1>7, <2>1 DEF RetentionDone
  <2>3. run[p].pc # "idle" /\ run[p].pc = "retain"
    BY <1>7 DEF RetentionDone, At, Uploaded, NextPlace, NextPending, Offsite, OffsiteOf,
         DropsLocal
  <2>4. r \in Run
    BY <2>1, <1>a, <1>b DEF Run
  <2>5. Shape(r) /\ Tracks(r, stored, markers, clock) /\ r.sid = run[p].sid
    BY <2>1, <2>3, <1>a DEF Run, Shape, Tracks, InUpload, Shipping, Undelivered, Clearing,
         CatchingUp, OffsiteOf
  <2> QED
    BY <1>7, <2>2, <2>3, <2>4, <2>5, AdvanceQuietly DEF RetentionDone
<1> QED
  BY <1>1, <1>2, <1>3, <1>4, <1>5, <1>6, <1>7

(***************************************************************************)
(* Dropping the local copy takes the run's own snapshot out of the data dir,*)
(* and only when an off-site place stored it.                              *)
(***************************************************************************)
LEMMA Dropping ==
  ASSUME Control, NEW p \in Procs,
         \/ DropLocalArchive(p)
         \/ DropLocalManifest(p)
         \/ KeepLocalCopy(p)
  PROVE  Control'
<1> USE BackupAssumption
<1>a. run[p] \in Run /\ Shape(run[p]) /\ Tracks(run[p], stored, markers, clock)
  BY DEF Control, TypeOK
<1>b. /\ archive \in [Places -> [Sids -> Condition]] /\ manifest \in [Places -> [Sids -> Condition]]
      /\ markers \subseteq stored /\ stored \subseteq Sids /\ 0 \in 0..MaxRuns
  BY DEF Control, TypeOK
<1>c. Sids \subseteq 0..MaxRuns
  BY DEF Sids
<1>1. CASE DropLocalArchive(p)
  <2>1. PICK r : r = [run[p] EXCEPT !.pc = "drop manifest"]
    OBVIOUS
  <2>2. Becomes(p, r)
    BY <1>1, <2>1 DEF DropLocalArchive
  <2>3. run[p].pc # "idle" /\ run[p].pc = "drop" /\ OffsiteOf(run[p]) # {}
    BY <1>1 DEF DropLocalArchive, At, Uploaded, NextPlace, NextPending, Offsite, OffsiteOf,
         DropsLocal
  <2>4. r \in Run
    BY <2>1, <1>a, <1>b DEF Run
  <2>5. UNCHANGED <<manifest, markers, job, clock, last, breaks>> /\ UNCHANGED <<stored, due, good, pruned>>
    BY <1>1, <2>3, <1>a DEF DropLocalArchive, env, history
  <2>6. \E c \in Condition : archive' = [archive EXCEPT ![Local][run[p].sid] = c]
    BY <1>1, <2>3, <1>a DEF DropLocalArchive, Condition
  <2>7. archive' \in [Places -> [Sids -> Condition]]
    BY <1>1, <2>3, <1>a, <2>6, <1>b, CellIsTyped
  <2>8. /\ Shape(r) /\ Tracks(r, stored, markers', clock) /\ r.sid = run[p].sid
    BY <2>5, <2>7, <2>1, <2>3, <1>a DEF Run, Shape, Tracks, InUpload, Shipping,
         Undelivered, Clearing, CatchingUp, OffsiteOf
  <2> QED
    BY <2>2, <2>3, <2>4, <2>5, <2>7, <2>8, <1>b, AdvancePlaces
<1>2. CASE DropLocalManifest(p)
  <2>1. PICK r : r = [run[p] EXCEPT !.pc = "record"]
    OBVIOUS
  <2>2. Becomes(p, r)
    BY <1>2, <2>1 DEF DropLocalManifest
  <2>3. run[p].pc # "idle" /\ run[p].pc = "drop manifest"
    BY <1>2 DEF DropLocalManifest, At, Uploaded, NextPlace, NextPending, Offsite,
         OffsiteOf, DropsLocal
  <2>4. r \in Run
    BY <2>1, <1>a, <1>b DEF Run
  <2>5. UNCHANGED <<archive, markers, job, clock, last, breaks>> /\ UNCHANGED <<stored, due, good, pruned>>
    BY <1>2, <2>3, <1>a DEF DropLocalManifest, env, history
  <2>6. \E c \in Condition : manifest' = [manifest EXCEPT ![Local][run[p].sid] = c]
    BY <1>2, <2>3, <1>a DEF DropLocalManifest, Condition
  <2>7. manifest' \in [Places -> [Sids -> Condition]]
    BY <1>2, <2>3, <1>a, <2>6, <1>b, CellIsTyped
  <2>8. /\ Shape(r) /\ Tracks(r, stored, markers', clock) /\ r.sid = run[p].sid
    BY <2>5, <2>7, <2>1, <2>3, <1>a DEF Run, Shape, Tracks, InUpload, Shipping,
         Undelivered, Clearing, CatchingUp, OffsiteOf
  <2> QED
    BY <2>2, <2>3, <2>4, <2>5, <2>7, <2>8, <1>b, AdvancePlaces
<1>3. CASE KeepLocalCopy(p)
  <2>1. PICK errors \in BOOLEAN :
           Becomes(p, [run[p] EXCEPT !.pc = "record", !.errors = errors])
    <3> DEFINE kept == ~job.keep_local /\ job.local /\ Local \in run[p].stored
               errors == run[p].errors \/ kept
    <3>1. errors \in BOOLEAN
      OBVIOUS
    <3>2. Becomes(p, [run[p] EXCEPT !.pc = "record", !.errors = errors])
      BY <1>3 DEF KeepLocalCopy
    <3> QED
      BY <3>1, <3>2
  <2>2. PICK r : r = [run[p] EXCEPT !.pc = "record", !.errors = errors]
    OBVIOUS
  <2>3. Becomes(p, r)
    BY <2>1, <1>3, <2>2 DEF KeepLocalCopy
  <2>4. run[p].pc # "idle" /\ run[p].pc = "drop"
    BY <2>1, <1>3 DEF KeepLocalCopy, At, Uploaded, NextPlace, NextPending, Offsite,
         OffsiteOf, DropsLocal
  <2>5. r \in Run
    BY <2>1, <2>2, <1>a, <1>b DEF Run
  <2>6. Shape(r) /\ Tracks(r, stored, markers, clock) /\ r.sid = run[p].sid
    BY <2>1, <2>2, <2>4, <1>a DEF Run, Shape, Tracks, InUpload, Shipping, Undelivered,
         Clearing, CatchingUp, OffsiteOf
  <2> QED
    BY <1>3, <2>3, <2>4, <2>5, <2>6, AdvanceQuietly DEF KeepLocalCopy
<1> QED
  BY <1>1, <1>2, <1>3

(***************************************************************************)
(* A process without a run, whatever has been stored and marked.           *)
(***************************************************************************)
LEMMA IdleIsShaped ==
  ASSUME NEW done, NEW marked, NEW t
  PROVE  Idle \in Run /\ Shape(Idle) /\ Tracks(Idle, done, marked, t)
<1> USE BackupAssumption
<1>1. 0 \in 0..MaxRuns /\ Local \in Places
  BY DEF Places
<1> QED
  BY <1>1 DEF Idle, Run, Shape, Tracks, InUpload, Shipping, Undelivered, Clearing,
       CatchingUp

(***************************************************************************)
(* A run may end anywhere: only its record and the breaks change.          *)
(***************************************************************************)
LEMMA Ending ==
  ASSUME Control, NEW p \in Procs,
         AbortRun(p) \/ Record(p) \/ Kill(p) \/ AbortStoredRun(p)
  PROVE  Control'
<1> USE BackupAssumption
<1>1. /\ Becomes(p, Idle) /\ run[p].pc # "idle" /\ UNCHANGED <<job, clock>>
      /\ UNCHANGED <<archive, manifest, markers>> /\ UNCHANGED <<stored, due, good, pruned>>
  BY DEF AbortRun, Record, Kill, AbortStoredRun, At, Uploaded, places, history
<1>2. run[p].sid \in 0..MaxRuns
  BY DEF Control, TypeOK, Run
<1>3. \A status \in Status : [sid |-> run[p].sid, status |-> status]
                                \in [sid : 0..MaxRuns, status : Status]
  BY <1>2
<1>4. "error" \in Status /\ JobStatus(run[p]) \in Status
  BY DEF JobStatus, Status
<1>5. last' = last \/ \E status \in Status : last' = [sid |-> run[p].sid, status |-> status]
  BY <1>4 DEF AbortRun, Record, Kill, AbortStoredRun, RecordState
<1>6. last' \in [sid : 0..MaxRuns, status : Status]
  BY <1>3, <1>5 DEF Control, TypeOK
<1>7. breaks \in 0..MaxBreaks /\ (breaks' = breaks \/ (breaks < MaxBreaks /\ breaks' = breaks + 1))
  BY DEF AbortRun, Record, Kill, AbortStoredRun, RecordState, Control, TypeOK
<1>8. breaks' \in 0..MaxBreaks
  BY <1>7
<1>9. Idle \in Run /\ Shape(Idle) /\ Tracks(Idle, stored', markers', clock) /\ Idle.pc = "idle"
  BY IdleIsShaped DEF Idle
<1> HIDE DEF Idle
<1>10. /\ archive' \in [Places -> [Sids -> Condition]] /\ manifest' \in [Places -> [Sids -> Condition]]
       /\ markers' \subseteq stored' /\ due' \subseteq stored' /\ good' \subseteq stored'
       /\ pruned' \subseteq Sids
  BY <1>1 DEF Control, TypeOK
<1> QED
  BY <1>1, <1>6, <1>8, <1>9, <1>10, Advance

(***************************************************************************)
(* A new run has an id no other run has, and nothing of it is stored yet.  *)
(***************************************************************************)
LEMMA Beginning ==
  ASSUME Control, NEW p \in Procs, Begin(p)
  PROVE  Control'
<1> USE BackupAssumption
<1>1. PICK r : r = [run[p] EXCEPT !.pc = "produce", !.sid = clock + 1]
  OBVIOUS
<1>2. /\ run[p].pc = "idle" /\ clock < MaxRuns /\ clock' = clock + 1
      /\ Becomes(p, r) /\ UNCHANGED <<job, last, breaks>>
      /\ UNCHANGED <<archive, manifest, markers>> /\ UNCHANGED <<stored, due, good, pruned>>
  BY <1>1 DEF Begin, At, places, history
<1>3. /\ run[p] \in Run /\ Shape(run[p]) /\ Tracks(run[p], stored, markers, clock)
      /\ clock \in 0..MaxRuns /\ \A s \in stored : s <= clock
  BY DEF Control, TypeOK
<1>4. clock + 1 \in Sids /\ clock + 1 \in 0..MaxRuns
  BY <1>2, <1>3 DEF Sids
<1>5. r \in Run
  BY <1>1, <1>3, <1>4 DEF Run
<1>6. clock + 1 \notin stored /\ stored \subseteq Sids
  BY <1>3, <1>4 DEF Sids, Control, TypeOK
<1>7. Shape(r) /\ Tracks(r, stored, markers, clock + 1) /\ r.sid = clock + 1
  <2>1. r.pc = "produce" /\ r.sid = clock + 1 /\ r.todo = run[p].todo
    BY <1>1, <1>3 DEF Run
  <2>2. Shape(r)
    BY <2>1, <1>4 DEF Shape, InUpload, Shipping, Undelivered, Clearing, CatchingUp
  <2>3. run[p].todo \subseteq stored /\ clock + 1 <= clock + 1
    BY <1>3 DEF Tracks
  <2>4. Tracks(r, stored, markers, clock + 1)
    BY <2>1, <2>3, <1>6 DEF Tracks, InUpload, Shipping, Undelivered, Clearing, CatchingUp
  <2> QED
    BY <2>1, <2>2, <2>4
<1>8. /\ run' \in [Procs -> Run] /\ run'[p] = r
      /\ \A q \in Procs : q # p => run'[q] = run[q]
  BY <1>2, <1>5 DEF Control, TypeOK, Becomes
<1>9. TypeOK'
  BY <1>2, <1>4, <1>8 DEF Control, TypeOK
<1>10. ASSUME NEW q \in Procs, q # p
       PROVE  /\ Shape(run[q]) /\ Tracks(run[q], stored, markers, clock + 1)
              /\ run[q].pc # "idle" => run[q].sid # clock + 1
  <2>1. Shape(run[q]) /\ Tracks(run[q], stored, markers, clock) /\ run[q] \in Run
    BY DEF Control, TypeOK
  <2>2. run[q].pc # "idle" => run[q].sid <= clock /\ run[q].sid \in Sids
    BY <2>1 DEF Tracks, Shape
  <2>3. run[q].pc # "idle" => run[q].sid <= clock + 1 /\ run[q].sid # clock + 1
    BY <2>2, <1>3 DEF Sids
  <2> QED
    BY <2>1, <2>3 DEF Tracks
<1>11. \A s \in stored' : s <= clock'
  BY <1>2, <1>3, <1>6 DEF Sids
<1>12. \A q \in Procs : Shape(run'[q]) /\ Tracks(run'[q], stored', markers', clock')
  BY <1>2, <1>7, <1>8, <1>10
<1>13. \A q, o \in Procs : q # o /\ run'[q].pc # "idle" /\ run'[o].pc # "idle"
                             => run'[q].sid # run'[o].sid
  BY <1>7, <1>8, <1>10 DEF Control
<1> QED
  BY <1>9, <1>11, <1>12, <1>13 DEF Control

(***************************************************************************)
(* Nothing is stored and no run is under way.                              *)
(***************************************************************************)
LEMMA ControlInit == Init => Control
<1> SUFFICES ASSUME Init PROVE Control
  OBVIOUS
<1> USE BackupAssumption
<1>1. \A p \in Procs : run[p] = Idle
  BY DEF Init
<1>2. \A p \in Procs : Shape(run[p]) /\ Tracks(run[p], stored, markers, clock) /\ run[p].pc = "idle"
  <2>1. Idle.pc = "idle"
    BY DEF Idle
  <2> QED
    BY <1>1, <2>1, IdleIsShaped
<1>3. TypeOK
  <2>1. archive \in [Places -> [Sids -> Condition]] /\ manifest \in [Places -> [Sids -> Condition]]
    BY DEF Init, Condition
  <2>2. run \in [Procs -> Run]
    BY IdleIsShaped DEF Init
  <2>3. last \in [sid : 0..MaxRuns, status : Status]
    BY DEF Init, Status
  <2> QED
    BY <2>1, <2>2, <2>3 DEF Init, TypeOK
<1> QED
  BY <1>2, <1>3 DEF Control, Init

(***************************************************************************)
(* Every step of every process keeps the first layer.                      *)
(***************************************************************************)
LEMMA ControlStep == Control /\ [Next]_vars => Control'
<1> SUFFICES ASSUME Control, [Next]_vars PROVE Control'
  OBVIOUS
<1>1. ASSUME NEW p \in Procs, Step(p) PROVE Control'
  <2>1. CASE \E d \in Places : PutArchive(p, d) \/ ArchivePutFails(p, d)
    BY <2>1, Uploading
  <2>2. CASE \/ \E d \in Places : SelectSnapshots(p, d) \/ ListingFails(p, d)
             \/ \E s \in Sids : PruneSnapshot(p, s)
             \/ DeleteKey(p) \/ DeletionFails(p) \/ PlacePruned(p) \/ RetentionDone(p)
    <3>1. Local \in Places /\ run[p] \in Run /\ Shape(run[p])
      BY DEF Places, Control, TypeOK
    <3>2. (DeleteKey(p) \/ DeletionFails(p) \/ PlacePruned(p) \/ RetentionDone(p)) => run[p].sid \in Sids
      BY <3>1 DEF Shape, DeleteKey, DeletionFails, PlacePruned, RetentionDone, At
    <3>3. CASE \E d \in Places : SelectSnapshots(p, d) \/ ListingFails(p, d)
      <4>1. run[p].sid \in Sids
        BY <3>1, <3>3 DEF SelectSnapshots, ListingFails, NextPlace, At, Shape
      <4> QED
        BY <3>3, <4>1, Retaining
    <3> QED
      BY <2>2, <3>1, <3>2, <3>3, Retaining
  <2>3. CASE PutSidecar(p) \/ SidecarPutFails(p)
    <3>1. Local \in Places
      BY DEF Places
    <3> QED
      BY <2>3, <3>1, Uploading
  <2> QED
    BY <1>1, <2>1, <2>2, <2>3, Staging, Delivering, Shippings, Dropping, Ending DEF Step
<1>2. CASE Reconfigure
  BY <1>2 DEF Reconfigure, places, history, Control, TypeOK, Tracks
<1>3. CASE UNCHANGED vars
  BY <1>3 DEF vars, Control, TypeOK
<1> QED
  BY <1>1, <1>2, <1>3, Beginning, Ending DEF Next

(***************************************************************************)
(* Every variable keeps its type; in particular a marker only ever belongs *)
(* to a snapshot that was stored.                                          *)
(***************************************************************************)
THEOREM Typing == Spec => []TypeOK
<1>1. Spec => []Control
  BY ControlInit, ControlStep, PTL DEF Spec
<1>2. Control => TypeOK
  BY DEF Control
<1> QED
  BY <1>1, <1>2, PTL

-----------------------------------------------------------------------------
(* Second layer: Holds. A step changes at most one cell of one place. Others *)
(* says why that never takes from another run what it relies on, and one     *)
(* lemma for each group of actions why the run that takes the step keeps     *)
(* what it relies on itself.                                                 *)

Safe == Sequential \/ NothingTorn

\* How a step of p may change the archives or the manifests under the eyes of
\* other runs.
Careful(f, g, p) ==
  \A d \in Places, s \in Sids :
    \/ g[d][s] = f[d][s]
    \/ g[d][s] = "whole"
    \/ g[d][s] = "absent" /\ s \in pruned
    \/ g[d][s] = "absent" /\ d = Local /\ s \in stored \cup {run[p].sid}

(***************************************************************************)
(* What another run relies on is off-site, or its own and not stored yet.  *)
(***************************************************************************)
LEMMA Others ==
  ASSUME Control, NEW p \in Procs, NEW q \in Procs, q # p,
         run[p].pc # "idle",
         NEW r, r = run[q], Relies(r), Seals(r),
         Careful(archive, archive', p), Careful(manifest, manifest', p),
         pruned \subseteq pruned'
  PROVE  Relies(r)' /\ Seals(r)'
<1> USE BackupAssumption
<1>1. r \in Run /\ Shape(r) /\ Tracks(r, stored, markers, clock)
  BY DEF Control, TypeOK
<1>2. r.pc # "idle" => r.sid # run[p].sid
  BY DEF Control
<1>3. stored \subseteq Sids /\ Local \in Places
  BY DEF Control, TypeOK, Places
<1>4. ASSUME NEW d \in Places, d # Local, NEW s \in Sids
      PROVE  /\ archive[d][s] = "whole" \/ s \in pruned => archive'[d][s] = "whole" \/ s \in pruned'
             /\ Held(d, s) => Held(d, s)'
  BY <1>4 DEF Careful, Held, Complete
<1>5. ASSUME NEW d \in Places, Undelivered(r), r.pc # "idle"
      PROVE  /\ archive[d][r.sid] = "whole" \/ r.sid \in pruned
                  => archive'[d][r.sid] = "whole" \/ r.sid \in pruned'
             /\ Held(d, r.sid) => Held(d, r.sid)'
  BY <1>1, <1>2, <1>5 DEF Careful, Held, Complete, Tracks, Shape
<1>6. ASSUME NEW s \in Sids, Sealed(s) PROVE Sealed(s)'
  BY <1>3, <1>6 DEF Careful, Sealed
<1>7. r.got \subseteq Places /\ r.queue \subseteq Places /\ r.at \in Places /\ r.todo \subseteq Sids
      /\ OffsiteOf(r) \subseteq Places /\ Local \notin OffsiteOf(r)
  BY <1>1 DEF Run, OffsiteOf
<1>8. InUpload(r) => (\A d \in r.got : Held(d, r.item))'
  BY <1>1, <1>4, <1>5, <1>7 DEF Relies, Shape, Shipping, Undelivered, InUpload
<1>9. r.pc = "sidecar" => (archive[r.at][r.item] = "whole" \/ r.item \in pruned)'
  BY <1>1, <1>4, <1>5, <1>7 DEF Relies, Shape, Shipping, Undelivered, InUpload
<1>10. /\ CatchingUp(r) \/ r.pc \in {"track", "retain", "prune", "delete", "drop", "drop manifest"}
            => (\A d \in OffsiteOf(r) : Held(d, r.sid))'
       /\ Clearing(r) => (\A d \in OffsiteOf(r) : Held(d, r.item))'
  BY <1>1, <1>4, <1>7 DEF Relies, Shape, CatchingUp, Shipping, InUpload, Clearing
<1>11. r.pc = "delete" => r.item \in pruned'
  BY DEF Relies
<1>12. ~Sequential
  BY DEF Sequential
<1>13. Relies(r)'
  BY <1>8, <1>9, <1>10, <1>11, <1>12 DEF Relies
<1>14. Undelivered(r) /\ r.pc = "sidecar" /\ r.at = Local => archive'[Local][r.sid] # "torn"
  BY <1>1, <1>3, <1>7 DEF Seals, Careful, Shape
<1>15. Seals(r)'
  BY <1>1, <1>6, <1>7, <1>14 DEF Seals, Shape, Shipping, InUpload, Undelivered
<1> QED
  BY <1>13, <1>15

(***************************************************************************)
(* A step of p keeps Holds if its new local state relies on what is there, *)
(* marked snapshots stay sealed, none is lost, and other runs do not mind. *)
(***************************************************************************)
LEMMA AdvanceHolds ==
  ASSUME Control, Holds, Safe, NEW p \in Procs, run[p].pc # "idle",
         NEW r, Becomes(p, r), Relies(r)', Seals(r)',
         \A s \in markers' : Sealed(s)', OnlyPolicyRemoves',
         NothingTorn => Careful(archive, archive', p) /\ Careful(manifest, manifest', p),
         pruned \subseteq pruned'
  PROVE  Holds'
<1>1. run'[p] = r /\ \A q \in Procs : q # p => run'[q] = run[q]
  BY DEF Becomes, Control, TypeOK
<1>2. ASSUME NEW q \in Procs PROVE (Relies(run[q]) /\ Seals(run[q]))'
  <2>1. CASE q = p
    BY <1>1, <2>1
  <2>2. CASE q # p
    <3>1. NothingTorn
      BY <2>2 DEF Safe, Sequential
    <3>2. PICK o : o = run[q]
      OBVIOUS
    <3>3. Relies(o) /\ Seals(o)
      BY <3>2 DEF Holds
    <3>4. Relies(o)' /\ Seals(o)'
      BY <2>2, <3>1, <3>2, <3>3, Others
    <3> QED
      BY <1>1, <2>2, <3>2, <3>4
  <2> QED
    BY <2>1, <2>2
<1> QED
  BY <1>2 DEF Holds

(***************************************************************************)
(* A step that leaves the archives and manifests alone.                    *)
(***************************************************************************)
LEMMA QuietHolds ==
  ASSUME Control, Holds, Safe, NEW p \in Procs, run[p].pc # "idle",
         NEW r, Becomes(p, r), Relies(r)', Seals(r)',
         UNCHANGED <<archive, manifest>>, pruned \subseteq pruned',
         \A s \in markers' : Sealed(s),
         \A s \in stored' : s \in stored \/ Restorable(s) \/ s \in pruned
  PROVE  Holds'
<1>1. Careful(archive, archive', p) /\ Careful(manifest, manifest', p)
  BY DEF Careful
<1>2. OnlyPolicyRemoves'
  BY DEF Holds, OnlyPolicyRemoves, Restorable, Complete
<1>3. \A s \in markers' : Sealed(s)'
  BY DEF Sealed
<1> QED
  BY <1>1, <1>2, <1>3, AdvanceHolds

(***************************************************************************)
(* Before the delivery the run relies on nothing.                          *)
(***************************************************************************)
LEMMA StagingHolds ==
  ASSUME Control, Holds, Safe, NEW p \in Procs,
         \/ Produce(p)
         \/ Connect(p)
         \/ FallBack(p)
  PROVE  Holds'
<1> USE BackupAssumption
<1>a. run[p] \in Run /\ Shape(run[p]) /\ Tracks(run[p], stored, markers, clock)
  BY DEF Control, TypeOK
<1>b. /\ Relies(run[p]) /\ Seals(run[p]) /\ OnlyPolicyRemoves
      /\ \A s \in markers : Sealed(s)
  BY DEF Holds
<1>c. markers \subseteq stored /\ stored \subseteq Sids
  BY DEF Control, TypeOK
<1>1. CASE Produce(p)
  <2>1. PICK failed \in Failures, warned \in BOOLEAN :
           Becomes(p, [run[p] EXCEPT !.pc = "connect", !.failed = failed,
                                       !.errors = failed \/ warned])
    BY <1>1 DEF Produce
  <2>2. PICK r : r = [run[p] EXCEPT !.pc = "connect", !.failed = failed, !.errors = failed \/ warned]
    OBVIOUS
  <2>3. Becomes(p, r)
    BY <2>1, <1>1, <2>2 DEF Produce
  <2>4. run[p].pc # "idle" /\ run[p].pc = "produce"
    BY <2>1, <1>1 DEF Produce, At, Uploaded, NextPlace, NextPending, Offsite, OffsiteOf,
         DropsLocal
  <2>5. UNCHANGED <<archive, manifest, markers, stored, pruned>>
    BY <1>1, <2>1, <2>2, <2>4 DEF Produce, env, places, history
  <2>6. Relies(r)'
    BY <2>1, <2>2, <2>4, <2>5, <1>a, <1>b DEF Run, Held, Complete, Shape, Relies, Seals,
         InUpload, Shipping, Undelivered, Clearing, CatchingUp, OffsiteOf
  <2>7. Seals(r)'
    BY <2>1, <2>2, <2>4, <2>5, <1>a, <1>b, <1>c DEF Run, Sealed, Shape, Tracks, Relies,
         Seals, InUpload, Shipping, Undelivered, Clearing, CatchingUp, OffsiteOf
  <2> QED
    BY <2>3, <2>4, <2>5, <2>6, <2>7, <1>b, QuietHolds
<1>2. CASE Connect(p)
  <2>1. PICK dests, errors :
           Becomes(p, [run[p] EXCEPT !.pc = "archive", !.phase = "deliver",
                                     !.item = run[p].sid, !.dests = dests,
                                     !.queue = dests, !.got = {},
                                     !.errors = errors])
    BY <1>2 DEF Connect
  <2>2. PICK r : r = [run[p] EXCEPT !.pc = "archive", !.phase = "deliver",
                                    !.item = run[p].sid, !.dests = dests,
                                    !.queue = dests, !.got = {},
                                    !.errors = errors]
    OBVIOUS
  <2>3. Becomes(p, r)
    BY <2>1, <1>2, <2>2 DEF Connect
  <2>4. run[p].pc # "idle" /\ run[p].pc = "connect"
    BY <2>1, <1>2 DEF Connect, At, Uploaded, NextPlace, NextPending, Offsite, OffsiteOf,
         DropsLocal
  <2>5. UNCHANGED <<archive, manifest, markers, stored, pruned>>
    BY <1>2, <2>1, <2>2, <2>4 DEF Connect, env, places, history
  <2>6. Relies(r)'
    BY ZenonT(60), <2>1, <2>2, <2>4, <2>5, <1>a, <1>b DEF Run, Held, Complete, Shape,
         Relies, Seals,
         InUpload, Shipping, Undelivered, Clearing, CatchingUp, OffsiteOf
  <2>7. Seals(r)'
    BY ZenonT(60), <2>1, <2>2, <2>4, <2>5, <1>a, <1>b, <1>c DEF Run, Sealed, Shape, Tracks,
         Relies,
         Seals, InUpload, Shipping, Undelivered, Clearing, CatchingUp, OffsiteOf
  <2> QED
    BY <2>3, <2>4, <2>5, <2>6, <2>7, <1>b, QuietHolds
<1>3. CASE FallBack(p)
  <2>1. PICK r : r = [run[p] EXCEPT !.phase = "fallback", !.queue = {Local}]
    OBVIOUS
  <2>2. Becomes(p, r)
    BY <1>3, <2>1 DEF FallBack
  <2>3. run[p].pc # "idle" /\ run[p].pc = "archive" /\ run[p].got = {} /\ run[p].phase = "deliver"
    BY <1>3 DEF FallBack, At, Uploaded, NextPlace, NextPending, Offsite, OffsiteOf,
         DropsLocal
  <2>4. UNCHANGED <<archive, manifest, markers, stored, pruned>>
    BY <1>3, <2>1, <2>3 DEF FallBack, env, places, history
  <2>5. Relies(r)'
    BY <2>1, <2>3, <2>4, <1>a, <1>b DEF Run, Held, Complete, Shape, Relies, Seals,
         InUpload, Shipping, Undelivered, Clearing, CatchingUp, OffsiteOf
  <2>6. Seals(r)'
    BY <2>1, <2>3, <2>4, <1>a, <1>b, <1>c DEF Run, Sealed, Shape, Tracks, Relies, Seals,
         InUpload, Shipping, Undelivered, Clearing, CatchingUp, OffsiteOf
  <2> QED
    BY <2>2, <2>3, <2>4, <2>5, <2>6, <1>b, QuietHolds
<1> QED
  BY <1>1, <1>2, <1>3

(***************************************************************************)
(* A snapshot is stored because a place holds it; what the data dir holds  *)
(* of a marked one is not torn.                                            *)
(***************************************************************************)
LEMMA TrackingHolds ==
  ASSUME Control, Holds, Safe, NEW p \in Procs,
         \/ Delivered(p)
         \/ MarkPending(p)
         \/ CatchUp(p)
         \/ ForgetPending(p)
         \/ ShipPending(p)
         \/ StaysPending(p)
         \/ Shipped(p)
         \/ CaughtUp(p)
  PROVE  Holds'
<1> USE BackupAssumption
<1>a. run[p] \in Run /\ Shape(run[p]) /\ Tracks(run[p], stored, markers, clock)
  BY DEF Control, TypeOK
<1>b. /\ Relies(run[p]) /\ Seals(run[p]) /\ OnlyPolicyRemoves
      /\ \A s \in markers : Sealed(s)
  BY DEF Holds
<1>c. markers \subseteq stored /\ stored \subseteq Sids
  BY DEF Control, TypeOK
<1>1. CASE Delivered(p)
  <2>1. PICK r : r = [run[p] EXCEPT !.pc = "track", !.stored = run[p].got,
                                      !.got = {}, !.item = 0]
    OBVIOUS
  <2>2. Becomes(p, r)
    BY <1>1, <2>1 DEF Delivered
  <2>3. run[p].pc # "idle" /\ run[p].pc = "archive" /\ run[p].phase # "ship"
    BY <1>1 DEF Delivered, At, Uploaded, NextPlace, NextPending, Offsite, OffsiteOf,
         DropsLocal
  <2>4. UNCHANGED <<archive, manifest, markers, pruned>>
    BY <1>1, <2>1, <2>3 DEF Delivered, env, places, history
  <2>5. \A s \in stored' : s \in stored \/ (s = run[p].sid /\ run[p].got # {})
    BY <2>1, <2>3, <2>4, <1>1 DEF Delivered
  <2>6. run[p].got # {} => Restorable(run[p].sid) \/ run[p].sid \in pruned
    BY <2>1, <2>3, <2>4, <2>5, <1>1, <1>a, <1>b DEF Relies, Held, Restorable, Shape,
         Undelivered, InUpload, Run
  <2>7. Relies(r)'
    BY ZenonT(60), <2>1, <2>3, <2>4, <2>5, <2>6, <1>a, <1>b DEF Run, Held, Complete, Shape,
         Relies,
         Seals, InUpload, Shipping, Undelivered, Clearing, CatchingUp, OffsiteOf
  <2>8. Seals(r)'
    BY <2>1, <2>3, <2>4, <2>5, <2>6, <1>a, <1>b, <1>c DEF Run, Sealed, Shape, Tracks,
         Relies, Seals, InUpload, Shipping, Undelivered, Clearing, CatchingUp, OffsiteOf
  <2> QED
    BY <2>2, <2>3, <2>4, <2>5, <2>6, <2>7, <2>8, <1>b, QuietHolds
<1>2. CASE MarkPending(p)
  <2>1. PICK r : r = [run[p] EXCEPT !.pc = "retain",
                      !.queue = run[p].dests \cup (IF StoodIn(p) THEN {Local} ELSE {})]
    OBVIOUS
  <2>2. Becomes(p, r)
    BY <1>2, <2>1 DEF MarkPending
  <2>3. run[p].pc # "idle" /\ run[p].pc = "track" /\ OffsiteOf(run[p]) = {}
    BY <1>2 DEF MarkPending, At, Uploaded, NextPlace, NextPending, Offsite, OffsiteOf,
         DropsLocal
  <2>4. UNCHANGED <<archive, manifest, stored, pruned>>
    BY <1>2, <2>1, <2>3 DEF MarkPending, env, places, history
  <2>5. \A s \in markers' : s \in markers \/ (s = run[p].sid /\ run[p].stored # {})
    BY <2>1, <2>3, <2>4, <1>2 DEF MarkPending
  <2>6. \A s \in markers' : Sealed(s)
    BY <2>1, <2>3, <2>4, <2>5, <1>2, <1>a, <1>b DEF Seals, OffsiteOf
  <2>7. Relies(r)'
    BY <2>1, <2>3, <2>4, <2>5, <2>6, <1>a, <1>b DEF Run, Held, Complete, Shape, Relies,
         Seals, InUpload, Shipping, Undelivered, Clearing, CatchingUp, OffsiteOf
  <2>8. Seals(r)'
    BY <2>1, <2>3, <2>4, <2>5, <2>6, <1>a, <1>b, <1>c DEF Run, Sealed, Shape, Tracks,
         Relies, Seals, InUpload, Shipping, Undelivered, Clearing, CatchingUp, OffsiteOf
  <2> QED
    BY <2>2, <2>3, <2>4, <2>5, <2>6, <2>7, <2>8, <1>b, QuietHolds
<1>3. CASE CatchUp(p)
  <2>1. PICK r : r = [run[p] EXCEPT !.pc = "ship", !.todo = markers]
    OBVIOUS
  <2>2. Becomes(p, r)
    BY <1>3, <2>1 DEF CatchUp
  <2>3. run[p].pc # "idle" /\ run[p].pc = "track"
    BY <1>3 DEF CatchUp, At, Uploaded, NextPlace, NextPending, Offsite, OffsiteOf,
         DropsLocal
  <2>4. UNCHANGED <<archive, manifest, markers, stored, pruned>>
    BY <1>3, <2>1, <2>3 DEF CatchUp, env, places, history
  <2>5. Relies(r)'
    BY <2>1, <2>3, <2>4, <1>a, <1>b DEF Run, Held, Complete, Shape, Relies, Seals,
         InUpload, Shipping, Undelivered, Clearing, CatchingUp, OffsiteOf
  <2>6. Seals(r)'
    BY <2>1, <2>3, <2>4, <1>a, <1>b, <1>c DEF Run, Sealed, Shape, Tracks, Relies, Seals,
         InUpload, Shipping, Undelivered, Clearing, CatchingUp, OffsiteOf
  <2> QED
    BY <2>2, <2>3, <2>4, <2>5, <2>6, <1>b, QuietHolds
<1>4. CASE ForgetPending(p)
  <2>1. PICK s \in run[p].todo :
           /\ markers' = markers \ {s}
           /\ Becomes(p, [run[p] EXCEPT !.todo = @ \ {s}])
    BY <1>4 DEF ForgetPending
  <2>2. PICK r : r = [run[p] EXCEPT !.todo = @ \ {s}]
    OBVIOUS
  <2>3. Becomes(p, r)
    BY <2>1, <1>4, <2>2 DEF ForgetPending
  <2>4. run[p].pc # "idle" /\ run[p].pc = "ship"
    BY <2>1, <1>4 DEF ForgetPending, At, Uploaded, NextPlace, NextPending, Offsite,
         OffsiteOf, DropsLocal
  <2>5. UNCHANGED <<archive, manifest, stored, pruned>> /\ markers' \subseteq markers
    BY <1>4, <2>1, <2>2, <2>4 DEF ForgetPending, env, places, history
  <2>6. Relies(r)'
    BY <2>1, <2>2, <2>4, <2>5, <1>a, <1>b DEF Run, Held, Complete, Shape, Relies, Seals,
         InUpload, Shipping, Undelivered, Clearing, CatchingUp, OffsiteOf
  <2>7. Seals(r)'
    BY <2>1, <2>2, <2>4, <2>5, <1>a, <1>b, <1>c DEF Run, Sealed, Shape, Tracks, Relies,
         Seals, InUpload, Shipping, Undelivered, Clearing, CatchingUp, OffsiteOf
  <2> QED
    BY <2>3, <2>4, <2>5, <2>6, <2>7, <1>b, QuietHolds
<1>5. CASE ShipPending(p)
  <2>1. PICK s \in run[p].todo :
           /\ archive[Local][s] # "absent" /\ manifest[Local][s] # "absent"
           /\ Becomes(p, [run[p] EXCEPT !.pc = "archive", !.phase = "ship",
                                        !.item = s, !.queue = Offsite(p),
                                        !.got = {}, !.todo = @ \ {s}])
    BY <1>5 DEF ShipPending
  <2>2. PICK r : r = [run[p] EXCEPT !.pc = "archive", !.phase = "ship",
                                      !.item = s, !.queue = Offsite(p),
                                      !.got = {}, !.todo = @ \ {s}]
    OBVIOUS
  <2>3. Becomes(p, r)
    BY <2>1, <1>5, <2>2 DEF ShipPending
  <2>4. run[p].pc # "idle" /\ run[p].pc = "ship"
    BY <2>1, <1>5 DEF ShipPending, At, Uploaded, NextPlace, NextPending, Offsite,
         OffsiteOf, DropsLocal
  <2>5. UNCHANGED <<archive, manifest, markers, stored, pruned>>
    BY <1>5, <2>1, <2>2, <2>4 DEF ShipPending, env, places, history
  <2>6. s \in Sids /\ Local \in Places
    BY <2>1, <2>2, <2>4, <2>5, <1>5, <1>a DEF Run, Places
  <2>7. archive[Local][s] \in Condition /\ manifest[Local][s] \in Condition
    BY <2>1, <2>2, <2>4, <2>5, <2>6, <1>5 DEF Control, TypeOK
  <2>8. Sealed(s)
    BY <2>1, <2>2, <2>4, <2>5, <2>6, <2>7, <1>5, <1>b DEF Seals
  <2>9. Held(Local, s)
    BY <2>1, <2>2, <2>4, <2>5, <2>6, <2>7, <2>8, <1>5 DEF Sealed, Held, Complete, Condition
  <2>10. Relies(r)'
    BY ZenonT(60), <2>1, <2>2, <2>4, <2>5, <2>6, <2>7, <2>8, <2>9, <1>a, <1>b DEF Run,
         Held, Complete,
         Shape, Relies, Seals, InUpload, Shipping, Undelivered, Clearing, CatchingUp,
         OffsiteOf
  <2>11. Seals(r)'
    BY ZenonT(60), <2>1, <2>2, <2>4, <2>5, <2>6, <2>7, <2>8, <2>9, <1>a, <1>b,
         <1>c DEF Run, Sealed,
         Shape, Tracks, Relies, Seals, InUpload, Shipping, Undelivered, Clearing,
         CatchingUp, OffsiteOf
  <2> QED
    BY <2>3, <2>4, <2>5, <2>6, <2>7, <2>8, <2>9, <2>10, <2>11, <1>b, QuietHolds
<1>6. CASE StaysPending(p)
  <2>1. PICK r : r = [run[p] EXCEPT !.pc = "ship", !.errors = TRUE, !.got = {},
                                      !.item = 0]
    OBVIOUS
  <2>2. Becomes(p, r)
    BY <1>6, <2>1 DEF StaysPending
  <2>3. run[p].pc # "idle" /\ run[p].pc = "archive" /\ run[p].phase = "ship"
    BY <1>6 DEF StaysPending, At, Uploaded, NextPlace, NextPending, Offsite, OffsiteOf,
         DropsLocal
  <2>4. UNCHANGED <<archive, manifest, markers, stored, pruned>>
    BY <1>6, <2>1, <2>3 DEF StaysPending, env, places, history
  <2>5. Relies(r)'
    BY <2>1, <2>3, <2>4, <1>a, <1>b DEF Run, Held, Complete, Shape, Relies, Seals,
         InUpload, Shipping, Undelivered, Clearing, CatchingUp, OffsiteOf
  <2>6. Seals(r)'
    BY <2>1, <2>3, <2>4, <1>a, <1>b, <1>c DEF Run, Sealed, Shape, Tracks, Relies, Seals,
         InUpload, Shipping, Undelivered, Clearing, CatchingUp, OffsiteOf
  <2> QED
    BY <2>2, <2>3, <2>4, <2>5, <2>6, <1>b, QuietHolds
<1>7. CASE Shipped(p)
  <2>1. PICK r : r = [run[p] EXCEPT !.pc = IF KeepsLocal(job) THEN "ship" ELSE "clear archive",
                                      !.got = {}]
    OBVIOUS
  <2>2. Becomes(p, r)
    BY <1>7, <2>1 DEF Shipped
  <2>3. run[p].pc # "idle" /\ run[p].pc = "archive" /\ run[p].phase = "ship" /\ run[p].got = OffsiteOf(run[p])
    BY <1>7 DEF Shipped, At, Uploaded, NextPlace, NextPending, Offsite, OffsiteOf,
         DropsLocal
  <2>4. UNCHANGED <<archive, manifest, stored, pruned>> /\ markers' \subseteq markers
    BY <1>7, <2>1, <2>3 DEF Shipped, env, places, history
  <2>5. Relies(r)'
    BY <2>1, <2>3, <2>4, <1>a, <1>b DEF Run, Held, Complete, Shape, Relies, Seals,
         InUpload, Shipping, Undelivered, Clearing, CatchingUp, OffsiteOf
  <2>6. Seals(r)'
    BY <2>1, <2>3, <2>4, <1>a, <1>b, <1>c DEF Run, Sealed, Shape, Tracks, Relies, Seals,
         InUpload, Shipping, Undelivered, Clearing, CatchingUp, OffsiteOf
  <2> QED
    BY <2>2, <2>3, <2>4, <2>5, <2>6, <1>b, QuietHolds
<1>8. CASE CaughtUp(p)
  <2>1. PICK r : r = [run[p] EXCEPT !.pc = "retain", !.queue = run[p].dests]
    OBVIOUS
  <2>2. Becomes(p, r)
    BY <1>8, <2>1 DEF CaughtUp
  <2>3. run[p].pc # "idle" /\ run[p].pc = "ship"
    BY <1>8 DEF CaughtUp, At, Uploaded, NextPlace, NextPending, Offsite, OffsiteOf,
         DropsLocal
  <2>4. UNCHANGED <<archive, manifest, markers, stored, pruned>>
    BY <1>8, <2>1, <2>3 DEF CaughtUp, env, places, history
  <2>5. Relies(r)'
    BY <2>1, <2>3, <2>4, <1>a, <1>b DEF Run, Held, Complete, Shape, Relies, Seals,
         InUpload, Shipping, Undelivered, Clearing, CatchingUp, OffsiteOf
  <2>6. Seals(r)'
    BY <2>1, <2>3, <2>4, <1>a, <1>b, <1>c DEF Run, Sealed, Shape, Tracks, Relies, Seals,
         InUpload, Shipping, Undelivered, Clearing, CatchingUp, OffsiteOf
  <2> QED
    BY <2>2, <2>3, <2>4, <2>5, <2>6, <1>b, QuietHolds
<1> QED
  BY <1>1, <1>2, <1>3, <1>4, <1>5, <1>6, <1>7, <1>8

(***************************************************************************)
(* What a policy selects counts as pruned before its first key goes.       *)
(***************************************************************************)
LEMMA RetainingHolds ==
  ASSUME Control, Holds, Safe, NEW p \in Procs, NEW d \in Places, NEW s \in Sids,
         \/ SelectSnapshots(p, d)
         \/ ListingFails(p, d)
         \/ PruneSnapshot(p, s)
         \/ PlacePruned(p)
         \/ DeletionFails(p)
         \/ RetentionDone(p)
         \/ KeepLocalCopy(p)
  PROVE  Holds'
<1> USE BackupAssumption
<1>a. run[p] \in Run /\ Shape(run[p]) /\ Tracks(run[p], stored, markers, clock)
  BY DEF Control, TypeOK
<1>b. /\ Relies(run[p]) /\ Seals(run[p]) /\ OnlyPolicyRemoves
      /\ \A t \in markers : Sealed(t)
  BY DEF Holds
<1>c. markers \subseteq stored /\ stored \subseteq Sids
  BY DEF Control, TypeOK
<1>1. CASE SelectSnapshots(p, d)
  <2>1. PICK plan :
           Becomes(p, [run[p] EXCEPT !.pc = "prune", !.at = d, !.queue = @ \ {d},
                                     !.plan = plan])
    BY <1>1 DEF SelectSnapshots
  <2>2. PICK r : r = [run[p] EXCEPT !.pc = "prune", !.at = d, !.queue = @ \ {d},
                                      !.plan = plan]
    OBVIOUS
  <2>3. Becomes(p, r)
    BY <2>1, <1>1, <2>2 DEF SelectSnapshots
  <2>4. run[p].pc # "idle" /\ run[p].pc = "retain"
    BY <2>1, <1>1 DEF SelectSnapshots, At, Uploaded, NextPlace, NextPending, Offsite,
         OffsiteOf, DropsLocal
  <2>5. UNCHANGED <<archive, manifest, markers, stored, pruned>>
    BY <1>1, <2>1, <2>2, <2>4 DEF SelectSnapshots, env, places, history
  <2>6. Relies(r)'
    BY <2>1, <2>2, <2>4, <2>5, <1>a, <1>b DEF Run, Held, Complete, Shape, Relies, Seals,
         InUpload, Shipping, Undelivered, Clearing, CatchingUp, OffsiteOf
  <2>7. Seals(r)'
    BY <2>1, <2>2, <2>4, <2>5, <1>a, <1>b, <1>c DEF Run, Sealed, Shape, Tracks, Relies,
         Seals, InUpload, Shipping, Undelivered, Clearing, CatchingUp, OffsiteOf
  <2> QED
    BY <2>3, <2>4, <2>5, <2>6, <2>7, <1>b, QuietHolds
<1>2. CASE ListingFails(p, d)
  <2>1. PICK r : r = [run[p] EXCEPT !.queue = @ \ {d}, !.errors = TRUE]
    OBVIOUS
  <2>2. Becomes(p, r)
    BY <1>2, <2>1 DEF ListingFails
  <2>3. run[p].pc # "idle" /\ run[p].pc = "retain"
    BY <1>2 DEF ListingFails, At, Uploaded, NextPlace, NextPending, Offsite, OffsiteOf,
         DropsLocal
  <2>4. UNCHANGED <<archive, manifest, markers, stored, pruned>>
    BY <1>2, <2>1, <2>3 DEF ListingFails, env, places, history
  <2>5. Relies(r)'
    BY <2>1, <2>3, <2>4, <1>a, <1>b DEF Run, Held, Complete, Shape, Relies, Seals,
         InUpload, Shipping, Undelivered, Clearing, CatchingUp, OffsiteOf
  <2>6. Seals(r)'
    BY <2>1, <2>3, <2>4, <1>a, <1>b, <1>c DEF Run, Sealed, Shape, Tracks, Relies, Seals,
         InUpload, Shipping, Undelivered, Clearing, CatchingUp, OffsiteOf
  <2> QED
    BY <2>2, <2>3, <2>4, <2>5, <2>6, <1>b, QuietHolds
<1>3. CASE PruneSnapshot(p, s)
  <2>1. PICK pc \in {"prune", "delete"},
             keys \in SUBSET {"manifest", "marker", "archive"} :
           Becomes(p, [run[p] EXCEPT !.pc = pc, !.item = s, !.keys = keys,
                                     !.plan = @ \ {s}])
    BY <1>3 DEF PruneSnapshot, Keys
  <2>2. PICK r : r = [run[p] EXCEPT !.pc = pc, !.item = s, !.keys = keys,
                                      !.plan = @ \ {s}]
    OBVIOUS
  <2>3. Becomes(p, r)
    BY <2>1, <1>3, <2>2 DEF PruneSnapshot
  <2>4. run[p].pc # "idle" /\ run[p].pc = "prune"
    BY <2>1, <1>3 DEF PruneSnapshot, At, Uploaded, NextPlace, NextPending, Offsite,
         OffsiteOf, DropsLocal
  <2>5. UNCHANGED <<archive, manifest, markers, stored>> /\ pruned' = pruned \cup {s}
    BY <1>3, <2>1, <2>2, <2>4 DEF PruneSnapshot, env, places, history
  <2>6. Relies(r)'
    BY <2>1, <2>2, <2>4, <2>5, <1>a, <1>b DEF Run, Held, Complete, Shape, Relies, Seals,
         InUpload, Shipping, Undelivered, Clearing, CatchingUp, OffsiteOf
  <2>7. Seals(r)'
    BY <2>1, <2>2, <2>4, <2>5, <1>a, <1>b, <1>c DEF Run, Sealed, Shape, Tracks, Relies,
         Seals, InUpload, Shipping, Undelivered, Clearing, CatchingUp, OffsiteOf
  <2> QED
    BY <2>3, <2>4, <2>5, <2>6, <2>7, <1>b, QuietHolds
<1>4. CASE PlacePruned(p)
  <2>1. PICK r : r = [run[p] EXCEPT !.pc = "retain", !.at = Local, !.item = 0]
    OBVIOUS
  <2>2. Becomes(p, r)
    BY <1>4, <2>1 DEF PlacePruned
  <2>3. run[p].pc # "idle" /\ run[p].pc = "prune"
    BY <1>4 DEF PlacePruned, At, Uploaded, NextPlace, NextPending, Offsite, OffsiteOf,
         DropsLocal
  <2>4. UNCHANGED <<archive, manifest, markers, stored, pruned>>
    BY <1>4, <2>1, <2>3 DEF PlacePruned, env, places, history
  <2>5. Relies(r)'
    BY <2>1, <2>3, <2>4, <1>a, <1>b DEF Run, Held, Complete, Shape, Relies, Seals,
         InUpload, Shipping, Undelivered, Clearing, CatchingUp, OffsiteOf
  <2>6. Seals(r)'
    BY <2>1, <2>3, <2>4, <1>a, <1>b, <1>c DEF Run, Sealed, Shape, Tracks, Relies, Seals,
         InUpload, Shipping, Undelivered, Clearing, CatchingUp, OffsiteOf
  <2> QED
    BY <2>2, <2>3, <2>4, <2>5, <2>6, <1>b, QuietHolds
<1>5. CASE DeletionFails(p)
  <2>1. PICK r : r = [run[p] EXCEPT !.pc = "retain", !.at = Local, !.item = 0,
                                      !.plan = {}, !.keys = {}, !.errors = TRUE]
    OBVIOUS
  <2>2. Becomes(p, r)
    BY <1>5, <2>1 DEF DeletionFails
  <2>3. run[p].pc # "idle" /\ run[p].pc \in {"prune", "delete"}
    BY <1>5 DEF DeletionFails, At, Uploaded, NextPlace, NextPending, Offsite, OffsiteOf,
         DropsLocal
  <2>4. UNCHANGED <<archive, manifest, markers, stored, pruned>>
    BY <1>5, <2>1, <2>3 DEF DeletionFails, env, places, history
  <2>5. Relies(r)'
    BY ZenonT(60), <2>1, <2>3, <2>4, <1>a, <1>b DEF Run, Held, Complete, Shape, Relies, Seals,
         InUpload, Shipping, Undelivered, Clearing, CatchingUp, OffsiteOf
  <2>6. Seals(r)'
    BY <2>1, <2>3, <2>4, <1>a, <1>b, <1>c DEF Run, Sealed, Shape, Tracks, Relies, Seals,
         InUpload, Shipping, Undelivered, Clearing, CatchingUp, OffsiteOf
  <2> QED
    BY <2>2, <2>3, <2>4, <2>5, <2>6, <1>b, QuietHolds
<1>6. CASE RetentionDone(p)
  <2>1. PICK r : r = [run[p] EXCEPT !.pc = "drop"]
    OBVIOUS
  <2>2. Becomes(p, r)
    BY <1>6, <2>1 DEF RetentionDone
  <2>3. run[p].pc # "idle" /\ run[p].pc = "retain"
    BY <1>6 DEF RetentionDone, At, Uploaded, NextPlace, NextPending, Offsite, OffsiteOf,
         DropsLocal
  <2>4. UNCHANGED <<archive, manifest, markers, stored, pruned>>
    BY <1>6, <2>1, <2>3 DEF RetentionDone, env, places, history
  <2>5. Relies(r)'
    BY <2>1, <2>3, <2>4, <1>a, <1>b DEF Run, Held, Complete, Shape, Relies, Seals,
         InUpload, Shipping, Undelivered, Clearing, CatchingUp, OffsiteOf
  <2>6. Seals(r)'
    BY <2>1, <2>3, <2>4, <1>a, <1>b, <1>c DEF Run, Sealed, Shape, Tracks, Relies, Seals,
         InUpload, Shipping, Undelivered, Clearing, CatchingUp, OffsiteOf
  <2> QED
    BY <2>2, <2>3, <2>4, <2>5, <2>6, <1>b, QuietHolds
<1>7. CASE KeepLocalCopy(p)
  <2>1. PICK errors :
           Becomes(p, [run[p] EXCEPT !.pc = "record", !.errors = errors])
    BY <1>7 DEF KeepLocalCopy
  <2>2. PICK r : r = [run[p] EXCEPT !.pc = "record", !.errors = errors]
    OBVIOUS
  <2>3. Becomes(p, r)
    BY <2>1, <1>7, <2>2 DEF KeepLocalCopy
  <2>4. run[p].pc # "idle" /\ run[p].pc = "drop"
    BY <2>1, <1>7 DEF KeepLocalCopy, At, Uploaded, NextPlace, NextPending, Offsite,
         OffsiteOf, DropsLocal
  <2>5. UNCHANGED <<archive, manifest, markers, stored, pruned>>
    BY <1>7, <2>1, <2>2, <2>4 DEF KeepLocalCopy, env, places, history
  <2>6. Relies(r)'
    BY <2>1, <2>2, <2>4, <2>5, <1>a, <1>b DEF Run, Held, Complete, Shape, Relies, Seals,
         InUpload, Shipping, Undelivered, Clearing, CatchingUp, OffsiteOf
  <2>7. Seals(r)'
    BY <2>1, <2>2, <2>4, <2>5, <1>a, <1>b, <1>c DEF Run, Sealed, Shape, Tracks, Relies,
         Seals, InUpload, Shipping, Undelivered, Clearing, CatchingUp, OffsiteOf
  <2> QED
    BY <2>3, <2>4, <2>5, <2>6, <2>7, <1>b, QuietHolds
<1> QED
  BY <1>1, <1>2, <1>3, <1>4, <1>5, <1>6, <1>7

(***************************************************************************)
(* A run may end anywhere.                                                 *)
(***************************************************************************)
LEMMA EndingHolds ==
  ASSUME Control, Holds, Safe, NEW p \in Procs,
         AbortRun(p) \/ Record(p) \/ Kill(p) \/ AbortStoredRun(p)
  PROVE  Holds'
<1>1. /\ Becomes(p, Idle) /\ run[p].pc # "idle"
      /\ UNCHANGED <<archive, manifest, markers, stored, pruned>>
  BY DEF AbortRun, Record, Kill, AbortStoredRun, At, Uploaded, places, history
<1>2. Relies(Idle)' /\ Seals(Idle)'
  BY DEF Idle, Relies, Seals, InUpload, Shipping, Undelivered, Clearing, CatchingUp
<1>3. \A s \in markers' : Sealed(s)
  BY <1>1 DEF Holds
<1> HIDE DEF Idle
<1> QED
  BY <1>1, <1>2, <1>3, QuietHolds

(***************************************************************************)
(* A run that begins relies on nothing either, whatever its process did    *)
(* before.                                                                 *)
(***************************************************************************)
LEMMA BeginningHolds ==
  ASSUME Control, Holds, NEW p \in Procs, Begin(p)
  PROVE  Holds'
<1>1. PICK r : r = [run[p] EXCEPT !.pc = "produce", !.sid = clock + 1]
  OBVIOUS
<1>2. Becomes(p, r) /\ UNCHANGED <<archive, manifest, markers, stored, pruned>>
  BY <1>1 DEF Begin, places, history
<1>3. run[p] \in Run /\ r.pc = "produce" /\ r.todo = run[p].todo
  BY ZenonT(60), <1>1 DEF Control, TypeOK, Run
<1>4. Relies(r) /\ Seals(r)
  BY <1>3 DEF Holds, Relies, Seals, InUpload, Shipping, Undelivered, Clearing, CatchingUp
<1>5. run'[p] = r /\ \A q \in Procs : q # p => run'[q] = run[q]
  BY <1>2 DEF Becomes, Control, TypeOK
<1>6. \A q \in Procs : Relies(run'[q]) /\ Seals(run'[q])
  BY <1>4, <1>5 DEF Holds
<1> QED
  BY ZenonT(60), <1>2, <1>6 DEF Holds, OnlyPolicyRemoves, Restorable, Complete, Sealed,
       Held, Relies,
       Seals

\* Only the copy of s at d goes, and it may.
Removes(f, g, d, s) ==
  \A e \in Places, t \in Sids :
    g[e][t] = f[e][t] \/ (e = d /\ t = s /\ g[e][t] = "absent")

MayRemove(p, d, s) ==
  \/ s \in pruned
  \/ /\ d = Local /\ s \in stored \cup {run[p].sid}
     /\ \E e \in Places \ {Local} : Held(e, s)

(***************************************************************************)
(* Deleting a copy: of a snapshot a policy selected, or in the data dir of *)
(* one that an off-site place holds.                                       *)
(***************************************************************************)
LEMMA RemovalHolds ==
  ASSUME Control, Holds, Safe, NEW p \in Procs, run[p].pc # "idle",
         NEW r \in Run, Becomes(p, r), Shape(r), Relies(r), Seals(r), ~InUpload(r),
         NEW d \in Places, NEW s \in Sids,
         Removes(archive, archive', d, s), Removes(manifest, manifest', d, s),
         MayRemove(p, d, s),
         markers' \subseteq markers, UNCHANGED <<stored, pruned>>
  PROVE  Holds'
<1>1. stored \subseteq Sids /\ markers \subseteq Sids /\ Local \in Places
  BY DEF Control, TypeOK, Places
<1>2. ASSUME NEW t \in Sids, Sealed(t) PROVE Sealed(t)'
  BY <1>1, <1>2 DEF Sealed, Removes
<1>3. ASSUME NEW e \in Places \ {Local}, NEW t \in Sids, Held(e, t) PROVE Held(e, t)'
  BY <1>3 DEF Held, Complete, Removes, MayRemove
<1>4. Careful(archive, archive', p) /\ Careful(manifest, manifest', p)
  BY DEF Careful, Removes, MayRemove
<1>5. Relies(r)'
  <2>1. OffsiteOf(r) \subseteq Places \ {Local} /\ ~Shipping(r) /\ r.pc # "sidecar"
    BY DEF Run, OffsiteOf, InUpload, Shipping
  <2>2. CatchingUp(r) \/ r.pc \in {"track", "retain", "prune", "delete", "drop", "drop manifest"}
           => \A e \in OffsiteOf(r) : Held(e, r.sid)'
    BY <1>3, <2>1 DEF Relies, Shape, CatchingUp, Clearing
  <2>3. Clearing(r) => \A e \in OffsiteOf(r) : Held(e, r.item)'
    BY <1>3, <2>1 DEF Relies, Shape
  <2> QED
    BY <2>1, <2>2, <2>3 DEF Relies
<1>6. Seals(r)'
  <2>1. r.todo \subseteq Sids /\ ~Shipping(r) /\ r.pc # "sidecar"
    BY DEF Run, InUpload, Shipping
  <2>2. r.pc = "track" => r.sid \in Sids
    BY DEF Shape
  <2> QED
    BY <1>2, <2>1, <2>2 DEF Seals
<1>7. OnlyPolicyRemoves'
  <2> SUFFICES ASSUME NEW t \in stored, t \notin pruned PROVE Restorable(t)'
    BY DEF OnlyPolicyRemoves
  <2>1. Restorable(t) /\ t \in Sids
    BY <1>1 DEF Holds, OnlyPolicyRemoves
  <2>2. CASE t # s
    BY <2>1, <2>2 DEF Restorable, Complete, Removes
  <2>3. CASE t = s
    BY <1>3, <2>1, <2>3 DEF Restorable, Held, MayRemove
  <2> QED
    BY <2>2, <2>3
<1>8. \A t \in markers' : Sealed(t)'
  BY <1>1, <1>2 DEF Holds
<1> QED
  BY <1>4, <1>5, <1>6, <1>7, <1>8, AdvanceHolds

(***************************************************************************)
(* One cell replaced.                                                      *)
(***************************************************************************)
LEMMA CellValues ==
  ASSUME NEW f \in [Places -> [Sids -> Condition]], NEW d, NEW s, NEW c,
         NEW g, g = [f EXCEPT ![d][s] = c]
  PROVE  \A e \in Places, t \in Sids : g[e][t] = IF e = d /\ t = s THEN c ELSE f[e][t]
OBVIOUS

(***************************************************************************)
(* The four deleters, each with its reason.                                *)
(***************************************************************************)
LEMMA Deleting ==
  ASSUME Control, Holds, Safe, NEW p \in Procs,
         \/ ClearArchive(p)
         \/ ClearManifest(p)
         \/ DeleteKey(p)
         \/ DropLocalArchive(p)
         \/ DropLocalManifest(p)
  PROVE  Holds'
<1> USE BackupAssumption
<1>a. run[p] \in Run /\ Shape(run[p]) /\ Tracks(run[p], stored, markers, clock)
  BY DEF Control, TypeOK
<1>b. /\ Relies(run[p]) /\ Seals(run[p]) /\ OnlyPolicyRemoves
      /\ \A s \in markers : Sealed(s)
  BY DEF Holds
<1>c. markers \subseteq stored /\ stored \subseteq Sids
  BY DEF Control, TypeOK
<1>d. /\ archive \in [Places -> [Sids -> Condition]] /\ manifest \in [Places -> [Sids -> Condition]]
      /\ Local \in Places /\ 0 \in 0..MaxRuns
  BY DEF Control, TypeOK, Places
<1>1. CASE ClearArchive(p)
  <2>1. PICK r : r = [run[p] EXCEPT !.pc = "clear manifest"]
    OBVIOUS
  <2>2. Becomes(p, r)
    BY <1>1, <2>1 DEF ClearArchive
  <2>3. run[p].pc # "idle" /\ run[p].pc = "clear archive"
    BY <1>1 DEF ClearArchive, At, Offsite, OffsiteOf, DropsLocal
  <2>4. r \in Run
    BY <2>1, <1>a, <1>d DEF Run
  <2>5. Shape(r) /\ Relies(r) /\ Seals(r) /\ ~InUpload(r)
    BY <2>1, <2>3, <1>a, <1>b DEF Run, Shape, Relies, Seals, InUpload, Shipping,
         Undelivered, Clearing, CatchingUp, OffsiteOf
  <2>6. Local \in Places /\ run[p].item \in Sids
    BY <2>3, <1>a, <1>d DEF Shape, Clearing, Run
  <2>7. archive' = [archive EXCEPT ![Local][run[p].item] = "absent"]
    BY <1>1 DEF ClearArchive
  <2>8. UNCHANGED <<manifest, markers, stored, pruned>>
    BY <1>1 DEF ClearArchive, env, history
  <2>9. Removes(archive, archive', Local, run[p].item) /\ Removes(manifest, manifest', Local, run[p].item)
    BY <2>7, <2>8, <1>d, CellValues DEF Removes
  <2>10. MayRemove(p, Local, run[p].item)
    BY <2>3, <1>a, <1>b DEF Run, Shape, Tracks, Relies, Clearing, CatchingUp, OffsiteOf,
         MayRemove
  <2>11. markers' \subseteq markers /\ UNCHANGED <<stored, pruned>>
    BY <2>8
  <2> QED
    BY <2>2, <2>3, <2>4, <2>5, <2>6, <2>9, <2>10, <2>11, RemovalHolds
<1>2. CASE ClearManifest(p)
  <2>1. PICK r : r = [run[p] EXCEPT !.pc = "ship", !.item = 0]
    OBVIOUS
  <2>2. Becomes(p, r)
    BY <1>2, <2>1 DEF ClearManifest
  <2>3. run[p].pc # "idle" /\ run[p].pc = "clear manifest"
    BY <1>2 DEF ClearManifest, At, Offsite, OffsiteOf, DropsLocal
  <2>4. r \in Run
    BY <2>1, <1>a, <1>d DEF Run
  <2>5. Shape(r) /\ Relies(r) /\ Seals(r) /\ ~InUpload(r)
    BY <2>1, <2>3, <1>a, <1>b DEF Run, Shape, Relies, Seals, InUpload, Shipping,
         Undelivered, Clearing, CatchingUp, OffsiteOf
  <2>6. Local \in Places /\ run[p].item \in Sids
    BY <2>3, <1>a, <1>d DEF Shape, Clearing, Run
  <2>7. manifest' = [manifest EXCEPT ![Local][run[p].item] = "absent"]
    BY <1>2 DEF ClearManifest
  <2>8. UNCHANGED <<archive, markers, stored, pruned>>
    BY <1>2 DEF ClearManifest, env, history
  <2>9. Removes(archive, archive', Local, run[p].item) /\ Removes(manifest, manifest', Local, run[p].item)
    BY <2>7, <2>8, <1>d, CellValues DEF Removes
  <2>10. MayRemove(p, Local, run[p].item)
    BY <2>3, <1>a, <1>b DEF Run, Shape, Tracks, Relies, Clearing, CatchingUp, OffsiteOf,
         MayRemove
  <2>11. markers' \subseteq markers /\ UNCHANGED <<stored, pruned>>
    BY <2>8
  <2> QED
    BY <2>2, <2>3, <2>4, <2>5, <2>6, <2>9, <2>10, <2>11, RemovalHolds
<1>3. CASE DeleteKey(p)
  <2>1. PICK r : r = [run[p] EXCEPT !.pc = IF run[p].keys = {FirstKey(run[p].keys)} THEN "prune" ELSE "delete",
                                      !.keys = @ \ {FirstKey(run[p].keys)}]
    OBVIOUS
  <2>2. Becomes(p, r)
    BY <1>3, <2>1 DEF DeleteKey
  <2>3. run[p].pc # "idle" /\ run[p].pc = "delete"
    BY <1>3 DEF DeleteKey, At, Offsite, OffsiteOf, DropsLocal
  <2>4. r \in Run
    BY <2>1, <1>a, <1>d DEF Run
  <2>5. Shape(r) /\ Relies(r) /\ Seals(r) /\ ~InUpload(r)
    BY <2>1, <2>3, <1>a, <1>b DEF Run, Shape, Relies, Seals, InUpload, Shipping,
         Undelivered, Clearing, CatchingUp, OffsiteOf
  <2>6. run[p].at \in Places /\ run[p].item \in Sids
    BY <2>3, <1>a, <1>d DEF Shape, Clearing, Run
  <2>7. /\ archive' = archive \/ archive' = [archive EXCEPT ![run[p].at][run[p].item] = "absent"]
        /\ manifest' = manifest \/ manifest' = [manifest EXCEPT ![run[p].at][run[p].item] = "absent"]
    BY <1>3 DEF DeleteKey
  <2>8. UNCHANGED <<stored, pruned>> /\ markers' \subseteq markers
    BY <1>3 DEF DeleteKey, env, history
  <2>9. Removes(archive, archive', run[p].at, run[p].item) /\ Removes(manifest, manifest', run[p].at, run[p].item)
    <3>1. Removes(archive, archive', run[p].at, run[p].item)
      BY <2>7, <1>d, CellValues DEF Removes
    <3>2. Removes(manifest, manifest', run[p].at, run[p].item)
      BY <2>7, <1>d, CellValues DEF Removes
    <3> QED
      BY <3>1, <3>2
  <2>10. MayRemove(p, run[p].at, run[p].item)
    BY <2>3, <1>b DEF Relies, MayRemove
  <2>11. markers' \subseteq markers /\ UNCHANGED <<stored, pruned>>
    BY <2>8
  <2> QED
    BY <2>2, <2>3, <2>4, <2>5, <2>6, <2>9, <2>10, <2>11, RemovalHolds
<1>4. CASE DropLocalArchive(p)
  <2>1. PICK r : r = [run[p] EXCEPT !.pc = "drop manifest"]
    OBVIOUS
  <2>2. Becomes(p, r)
    BY <1>4, <2>1 DEF DropLocalArchive
  <2>3. run[p].pc # "idle" /\ run[p].pc = "drop" /\ OffsiteOf(run[p]) # {}
    BY <1>4 DEF DropLocalArchive, At, Offsite, OffsiteOf, DropsLocal
  <2>4. r \in Run
    BY <2>1, <1>a, <1>d DEF Run
  <2>5. Shape(r) /\ Relies(r) /\ Seals(r) /\ ~InUpload(r)
    BY <2>1, <2>3, <1>a, <1>b DEF Run, Shape, Relies, Seals, InUpload, Shipping,
         Undelivered, Clearing, CatchingUp, OffsiteOf
  <2>6. Local \in Places /\ run[p].sid \in Sids
    BY <2>3, <1>a, <1>d DEF Shape, Clearing, Run
  <2>7. archive' = [archive EXCEPT ![Local][run[p].sid] = "absent"]
    BY <1>4 DEF DropLocalArchive
  <2>8. UNCHANGED <<manifest, markers, stored, pruned>>
    BY <1>4 DEF DropLocalArchive, env, history
  <2>9. Removes(archive, archive', Local, run[p].sid) /\ Removes(manifest, manifest', Local, run[p].sid)
    BY <2>7, <2>8, <1>d, CellValues DEF Removes
  <2>10. MayRemove(p, Local, run[p].sid)
    BY <2>3, <1>a, <1>b DEF Run, Relies, OffsiteOf, MayRemove
  <2>11. markers' \subseteq markers /\ UNCHANGED <<stored, pruned>>
    BY <2>8
  <2> QED
    BY <2>2, <2>3, <2>4, <2>5, <2>6, <2>9, <2>10, <2>11, RemovalHolds
<1>5. CASE DropLocalManifest(p)
  <2>1. PICK r : r = [run[p] EXCEPT !.pc = "record"]
    OBVIOUS
  <2>2. Becomes(p, r)
    BY <1>5, <2>1 DEF DropLocalManifest
  <2>3. run[p].pc # "idle" /\ run[p].pc = "drop manifest"
    BY <1>5 DEF DropLocalManifest, At, Offsite, OffsiteOf, DropsLocal
  <2>4. r \in Run
    BY <2>1, <1>a, <1>d DEF Run
  <2>5. Shape(r) /\ Relies(r) /\ Seals(r) /\ ~InUpload(r)
    BY <2>1, <2>3, <1>a, <1>b DEF Run, Shape, Relies, Seals, InUpload, Shipping,
         Undelivered, Clearing, CatchingUp, OffsiteOf
  <2>6. Local \in Places /\ run[p].sid \in Sids
    BY <2>3, <1>a, <1>d DEF Shape, Clearing, Run
  <2>7. manifest' = [manifest EXCEPT ![Local][run[p].sid] = "absent"]
    BY <1>5 DEF DropLocalManifest
  <2>8. UNCHANGED <<archive, markers, stored, pruned>>
    BY <1>5 DEF DropLocalManifest, env, history
  <2>9. Removes(archive, archive', Local, run[p].sid) /\ Removes(manifest, manifest', Local, run[p].sid)
    BY <2>7, <2>8, <1>d, CellValues DEF Removes
  <2>10. MayRemove(p, Local, run[p].sid)
    BY <2>3, <1>a, <1>b DEF Run, Shape, Relies, OffsiteOf, MayRemove
  <2>11. markers' \subseteq markers /\ UNCHANGED <<stored, pruned>>
    BY <2>8
  <2> QED
    BY <2>2, <2>3, <2>4, <2>5, <2>6, <2>9, <2>10, <2>11, RemovalHolds
<1> QED
  BY <1>1, <1>2, <1>3, <1>4, <1>5

(***************************************************************************)
(* What is put somewhere is whole: a new snapshot's files, or those of a   *)
(* pending one, which the data dir never has cut short.                    *)
(***************************************************************************)
LEMMA SourcesAreWhole ==
  ASSUME Control, Holds, NEW p \in Procs, InUpload(run[p])
  PROVE  /\ ArchiveSource(p) # "absent" => ArchiveSource(p) = "whole"
         /\ ManifestSource(p) # "absent" => ManifestSource(p) = "whole"
<1>1. run[p] \in Run /\ run[p].item \in Sids
  BY DEF Control, TypeOK, Shape
<1>2. ArchiveSource(p) \in Condition /\ ManifestSource(p) \in Condition
  BY <1>1, SourcesAreTyped
<1>3. run[p].phase = "ship" => Sealed(run[p].item)
  BY DEF Holds, Seals, Shipping
<1> QED
  BY <1>2, <1>3 DEF ArchiveSource, ManifestSource, Sealed, Condition

\* Only the copy of s at d is written.
Writes(f, g, d, s) ==
  \A e \in Places, t \in Sids : g[e][t] = f[e][t] \/ (e = d /\ t = s)

WritesWhole(f, g, d, s) == g[d][s] = f[d][s] \/ g[d][s] = "whole"

(***************************************************************************)
(* An upload, successful or not, writes at a place it has not counted yet: *)
(* of a new snapshot, which nothing relies on, or of a pending one off-    *)
(* site, whose copy in the data dir stays.                                 *)
(***************************************************************************)
LEMMA WritingHolds ==
  ASSUME Control, Holds, Safe, NEW p \in Procs, InUpload(run[p]),
         NEW d \in Places, d \in run[p].queue, NEW s \in Sids, s = run[p].item,
         Writes(archive, archive', d, s), Writes(manifest, manifest', d, s),
         NothingTorn => /\ WritesWhole(archive, archive', d, s)
                        /\ WritesWhole(manifest, manifest', d, s),
         UNCHANGED <<markers, stored, pruned>>,
         NEW r \in Run, Becomes(p, r), InUpload(r),
         r.sid = run[p].sid, r.item = s, r.phase = run[p].phase,
         r.todo = run[p].todo, r.stored = run[p].stored,
         \/ r.got = run[p].got
         \/ r.got = run[p].got \cup {d} /\ Held(d, s)' /\ (d = Local => Sealed(s)'),
         r.pc = "sidecar" => r.at = d /\ archive'[d][s] = "whole"
  PROVE  Holds'
<1> USE BackupAssumption
<1>1. run[p] \in Run /\ Shape(run[p]) /\ Tracks(run[p], stored, markers, clock)
  BY DEF Control, TypeOK
<1>2. Relies(run[p]) /\ Seals(run[p]) /\ OnlyPolicyRemoves /\ \A t \in markers : Sealed(t)
  BY DEF Holds
<1>3. markers \subseteq stored /\ stored \subseteq Sids /\ Local \in Places
  BY DEF Control, TypeOK, Places
<1>4. /\ Shipping(run[p]) = Shipping(r) /\ Undelivered(run[p]) = Undelivered(r)
      /\ CatchingUp(r) => Shipping(r)
      /\ ~Clearing(r) /\ r.pc \in {"archive", "sidecar"} /\ run[p].pc # "idle"
      /\ Shipping(r) \/ Undelivered(r)
  BY DEF InUpload, Shipping, Undelivered, CatchingUp, Clearing
<1>5. /\ Shipping(r) => d # Local /\ s # r.sid /\ s \in stored
      /\ Undelivered(r) => s = r.sid /\ s \notin stored
  BY <1>1, <1>4 DEF Shape, Tracks
<1>6. ASSUME NEW e \in Places, NEW t \in Sids, e # d \/ t # s
      PROVE  Held(e, t) => Held(e, t)'
  BY <1>6 DEF Held, Complete, Writes
<1>7. ASSUME NEW t \in Sids, d # Local \/ t # s PROVE Sealed(t) => Sealed(t)'
  BY <1>3, <1>7 DEF Sealed, Writes
<1>8. run[p].got \subseteq Places \ {d} /\ r.sid \in Sids /\ r.todo \subseteq stored
  <2>1. run[p].got \subseteq Places /\ d \notin run[p].got
    BY <1>1 DEF Run, Shape
  <2>2. run[p].sid \in Sids
    BY <1>1, <1>4 DEF Shape
  <2>3. run[p].todo \subseteq stored
    BY <1>1 DEF Tracks
  <2> QED
    BY <2>1, <2>2, <2>3
<1>9. (Careful(archive, archive', p) /\ Careful(manifest, manifest', p)) \/ ~NothingTorn
  BY DEF Careful, Writes, WritesWhole
<1>10. Relies(r)'
  <2>1. \A e \in r.got : Held(e, s)'
    BY <1>2, <1>6, <1>8 DEF Relies
  <2>2. Shipping(r) => \A e \in OffsiteOf(r) : Held(e, r.sid)'
    <3>1. OffsiteOf(r) \subseteq Places /\ OffsiteOf(r) = OffsiteOf(run[p])
      BY DEF OffsiteOf, Run
    <3> QED
      BY <1>2, <1>4, <1>5, <1>6, <1>8, <3>1 DEF Relies, CatchingUp
  <2>3. Sequential /\ Shipping(r) => Held(Local, s)'
    BY <1>2, <1>3, <1>4, <1>5, <1>6 DEF Relies
  <2> QED
    BY <1>4, <2>1, <2>2, <2>3 DEF Relies
<1>11. Seals(r)'
  <2>1. Undelivered(r) /\ Local \in r.got => Sealed(r.sid)'
    BY <1>2, <1>4, <1>5, <1>7, <1>8 DEF Seals
  <2>2. \A t \in r.todo : Sealed(t)'
    BY <1>2, <1>3, <1>4, <1>5, <1>7, <1>8 DEF Seals
  <2>3. Shipping(r) => Sealed(s)'
    BY <1>2, <1>4, <1>5, <1>7 DEF Seals
  <2>4. Undelivered(r) /\ r.pc = "sidecar" /\ r.at = Local => archive'[Local][r.sid] # "torn"
    BY <1>5
  <2> QED
    BY <1>4, <2>1, <2>2, <2>3, <2>4 DEF Seals
<1>12. \A t \in markers' : Sealed(t)'
  BY <1>2, <1>3, <1>4, <1>5, <1>7
<1>13. OnlyPolicyRemoves'
  <2> SUFFICES ASSUME NEW t \in stored, t \notin pruned PROVE Restorable(t)'
    BY DEF OnlyPolicyRemoves
  <2>1. PICK e \in Places : Complete(e, t)
    BY <1>2 DEF OnlyPolicyRemoves, Restorable
  <2>2. t \in Sids
    BY <1>3
  <2>3. CASE t # s \/ e # d
    BY <1>6, <2>1, <2>2, <2>3 DEF Held, Restorable
  <2>4. CASE t = s /\ e = d
    <3>1. CASE Sequential
      <4>1. Held(Local, s)'
        BY <1>2, <1>3, <1>4, <1>5, <1>6, <2>4, <3>1 DEF Relies
      <4> QED
        BY <1>3, <2>4, <4>1 DEF Held, Restorable
    <3>2. CASE NothingTorn
      BY <2>1, <2>4, <3>2 DEF WritesWhole, Complete, Restorable
    <3> QED
      BY <3>1, <3>2 DEF Safe
  <2> QED
    BY <2>3, <2>4
<1> QED
  BY <1>4, <1>9, <1>10, <1>11, <1>12, <1>13, AdvanceHolds

(***************************************************************************)
(* The two puts and their failures, for the delivery, the fallback and the *)
(* shipping of a pending snapshot alike.                                   *)
(***************************************************************************)
LEMMA UploadingHolds ==
  ASSUME Control, Holds, Safe, NEW p \in Procs, NEW d \in Places,
         \/ PutArchive(p, d)
         \/ ArchivePutFails(p, d)
         \/ PutSidecar(p)
         \/ SidecarPutFails(p)
  PROVE  Holds'
<1> USE BackupAssumption
<1>a. run[p] \in Run /\ Shape(run[p]) /\ Tracks(run[p], stored, markers, clock)
  BY DEF Control, TypeOK
<1>b. Relies(run[p]) /\ Seals(run[p])
  BY DEF Holds
<1>d. /\ archive \in [Places -> [Sids -> Condition]] /\ manifest \in [Places -> [Sids -> Condition]]
      /\ Local \in Places
  BY DEF Control, TypeOK, Places
<1>e. InUpload(run[p])
  BY DEF PutArchive, ArchivePutFails, PutSidecar, SidecarPutFails, At, InUpload
<1>f. PICK s \in Sids : s = run[p].item
  BY <1>a, <1>e DEF Shape
<1>g. /\ ArchiveSource(p) # "absent" => ArchiveSource(p) = "whole"
      /\ ManifestSource(p) # "absent" => ManifestSource(p) = "whole"
  BY <1>e, SourcesAreWhole
<1>h. /\ Writes(archive, archive, d, s) /\ Writes(manifest, manifest, d, s)
      /\ WritesWhole(archive, archive, d, s) /\ WritesWhole(manifest, manifest, d, s)
  BY DEF Writes, WritesWhole
<1>1. CASE PutArchive(p, d)
  <2>1. PICK r : r = [run[p] EXCEPT !.pc = "sidecar", !.at = d]
    OBVIOUS
  <2>2. Becomes(p, r) /\ d \in run[p].queue /\ UNCHANGED <<manifest, markers, stored, pruned>>
    BY <1>1, <2>1 DEF PutArchive, history
  <2>3. archive' = [archive EXCEPT ![d][s] = "whole"]
    BY <1>1, <1>f, <1>g DEF PutArchive
  <2>4. /\ Writes(archive, archive', d, s) /\ WritesWhole(archive, archive', d, s)
        /\ archive'[d][s] = "whole"
    BY <2>3, <1>d, CellValues DEF Writes, WritesWhole
  <2>5. Writes(manifest, manifest', d, s) /\ WritesWhole(manifest, manifest', d, s)
    BY <2>2, <1>h
  <2>6. /\ r \in Run /\ InUpload(r) /\ r.sid = run[p].sid /\ r.item = s /\ r.phase = run[p].phase
        /\ r.todo = run[p].todo /\ r.stored = run[p].stored /\ r.got = run[p].got
        /\ r.pc = "sidecar" /\ r.at = d
    BY <2>1, <1>a, <1>f DEF Run, InUpload
  <2>7. UNCHANGED <<markers, stored, pruned>>
    BY <2>2
  <2> QED
    BY <2>2, <2>4, <2>5, <2>6, <2>7, <1>e, <1>f, WritingHolds
<1>2. CASE ArchivePutFails(p, d)
  <2>1. PICK r : r = [run[p] EXCEPT !.queue = @ \ {d}, !.errors = TRUE]
    OBVIOUS
  <2>2. /\ Becomes(p, r) /\ d \in run[p].queue /\ run[p].pc = "archive"
        /\ UNCHANGED <<manifest, markers, stored, pruned>>
    BY <1>2, <2>1 DEF ArchivePutFails, history, At
  <2>3. \/ archive' = archive
        \/ /\ \E left \in ArchiveLeft : archive' = [archive EXCEPT ![d][s] = IF left = "whole" THEN ArchiveSource(p) ELSE left]
           /\ ArchiveSource(p) # "absent"
    BY <1>2, <1>f DEF ArchivePutFails
  <2>4. Writes(archive, archive', d, s) /\ (NothingTorn => WritesWhole(archive, archive', d, s))
    <3>1. CASE archive' = archive
      BY <3>1, <1>h
    <3>2. CASE archive' # archive
      <4>1. PICK left \in ArchiveLeft : archive' = [archive EXCEPT ![d][s] = IF left = "whole" THEN ArchiveSource(p) ELSE left]
        BY <2>3, <3>2
      <4>2. PICK c : c = IF left = "whole" THEN ArchiveSource(p) ELSE left
        OBVIOUS
      <4>3. NothingTorn => c = "whole"
        BY <2>3, <3>2, <4>2, <1>g DEF NothingTorn
      <4>4. \A e \in Places, t \in Sids : archive'[e][t] = IF e = d /\ t = s THEN c ELSE archive[e][t]
        BY <4>1, <4>2, <1>d, CellValues
      <4> QED
        BY <4>3, <4>4 DEF Writes, WritesWhole
    <3> QED
      BY <3>1, <3>2
  <2>5. Writes(manifest, manifest', d, s) /\ WritesWhole(manifest, manifest', d, s)
    BY <2>2, <1>h
  <2>6. /\ r \in Run /\ InUpload(r) /\ r.sid = run[p].sid /\ r.item = s /\ r.phase = run[p].phase
        /\ r.todo = run[p].todo /\ r.stored = run[p].stored /\ r.got = run[p].got
        /\ r.pc = "archive"
    BY <2>1, <2>2, <1>a, <1>f DEF Run, InUpload
  <2>7. UNCHANGED <<markers, stored, pruned>>
    BY <2>2
  <2> QED
    BY <2>2, <2>4, <2>5, <2>6, <2>7, <1>e, <1>f, WritingHolds
<1>3. CASE PutSidecar(p)
  <2>1. PICK r : r = [run[p] EXCEPT !.pc = "archive", !.at = Local,
                                    !.queue = @ \ {run[p].at},
                                    !.got = @ \cup {run[p].at}]
    OBVIOUS
  <2>2. /\ Becomes(p, r) /\ run[p].pc = "sidecar"
        /\ UNCHANGED <<archive, markers, stored, pruned>>
    BY <1>3, <2>1 DEF PutSidecar, history, At
  <2>3. PICK e \in Places : e = run[p].at /\ e \in run[p].queue
    BY <2>2, <1>a DEF Run, Shape
  <2>4. manifest' = [manifest EXCEPT ![e][s] = "whole"]
    BY <1>3, <2>3, <1>f, <1>g DEF PutSidecar
  <2>5. /\ Writes(manifest, manifest', e, s) /\ WritesWhole(manifest, manifest', e, s)
        /\ manifest'[e][s] = "whole"
    BY <2>4, <1>d, CellValues DEF Writes, WritesWhole
  <2>6. Writes(archive, archive', e, s) /\ WritesWhole(archive, archive', e, s)
    BY <2>2 DEF Writes, WritesWhole
  <2>7. Held(e, s)'
    BY <2>2, <2>3, <2>5, <1>b, <1>f DEF Relies, Held, Complete
  <2>8. e = Local => Sealed(s)'
    <3>1. e = Local => Undelivered(run[p]) /\ s = run[p].sid
      BY <2>2, <2>3, <1>a, <1>e, <1>f DEF Shape, Shipping, Undelivered
    <3> QED
      BY <2>2, <2>3, <2>5, <3>1, <1>b DEF Seals, Sealed
  <2>9. /\ r \in Run /\ InUpload(r) /\ r.sid = run[p].sid /\ r.item = s /\ r.phase = run[p].phase
        /\ r.todo = run[p].todo /\ r.stored = run[p].stored /\ r.got = run[p].got \cup {e}
        /\ r.pc = "archive"
    BY ZenonT(60), <2>1, <2>3, <1>a, <1>d, <1>f DEF Run, InUpload
  <2>10. UNCHANGED <<markers, stored, pruned>>
    BY <2>2
  <2> QED
    BY <2>2, <2>3, <2>5, <2>6, <2>7, <2>8, <2>9, <2>10, <1>e, <1>f, WritingHolds
<1>4. CASE SidecarPutFails(p)
  <2>1. PICK r : r = [run[p] EXCEPT !.pc = "archive", !.at = Local,
                                    !.queue = @ \ {run[p].at}, !.errors = TRUE]
    OBVIOUS
  <2>2. /\ Becomes(p, r) /\ run[p].pc = "sidecar"
        /\ UNCHANGED <<archive, markers, stored, pruned>>
    BY <1>4, <2>1 DEF SidecarPutFails, history, At
  <2>3. PICK e \in Places : e = run[p].at /\ e \in run[p].queue
    BY <2>2, <1>a DEF Run, Shape
  <2>4. \/ manifest' = manifest
        \/ /\ \E left \in ManifestLeft : manifest' = [manifest EXCEPT ![e][s] = IF left = "whole" THEN ManifestSource(p) ELSE left]
           /\ ManifestSource(p) # "absent"
    BY <1>4, <2>3, <1>f DEF SidecarPutFails
  <2>5. Writes(manifest, manifest', e, s) /\ (NothingTorn => WritesWhole(manifest, manifest', e, s))
    <3>1. CASE manifest' = manifest
      BY <3>1 DEF Writes, WritesWhole
    <3>2. CASE manifest' # manifest
      <4>1. PICK left \in ManifestLeft : manifest' = [manifest EXCEPT ![e][s] = IF left = "whole" THEN ManifestSource(p) ELSE left]
        BY <2>4, <3>2
      <4>2. PICK c : c = IF left = "whole" THEN ManifestSource(p) ELSE left
        OBVIOUS
      <4>3. NothingTorn => c = "whole"
        BY <2>4, <3>2, <4>2, <1>g DEF NothingTorn
      <4>4. \A o \in Places, t \in Sids : manifest'[o][t] = IF o = e /\ t = s THEN c ELSE manifest[o][t]
        BY <4>1, <4>2, <1>d, CellValues
      <4> QED
        BY <4>3, <4>4 DEF Writes, WritesWhole
    <3> QED
      BY <3>1, <3>2
  <2>6. Writes(archive, archive', e, s) /\ WritesWhole(archive, archive', e, s)
    BY <2>2 DEF Writes, WritesWhole
  <2>7. /\ r \in Run /\ InUpload(r) /\ r.sid = run[p].sid /\ r.item = s /\ r.phase = run[p].phase
        /\ r.todo = run[p].todo /\ r.stored = run[p].stored /\ r.got = run[p].got
        /\ r.pc = "archive"
    BY ZenonT(60), <2>1, <2>3, <1>a, <1>d, <1>f DEF Run, InUpload
  <2>8. UNCHANGED <<markers, stored, pruned>>
    BY <2>2
  <2> QED
    BY <2>2, <2>3, <2>5, <2>6, <2>7, <2>8, <1>e, <1>f, WritingHolds
<1> QED
  BY <1>1, <1>2, <1>3, <1>4

(***************************************************************************)
(* No place holds anything, and no run relies on anything.                 *)
(***************************************************************************)
LEMMA HoldsInit == Init => Holds
<1> SUFFICES ASSUME Init PROVE Holds
  OBVIOUS
<1>1. \A p \in Procs : run[p] = Idle
  BY DEF Init
<1>2. Relies(Idle) /\ Seals(Idle)
  BY DEF Idle, Relies, Seals, InUpload, Shipping, Undelivered, Clearing, CatchingUp
<1> QED
  BY <1>1, <1>2 DEF Init, Holds, OnlyPolicyRemoves

(***************************************************************************)
(* Every step of every process keeps the second layer.                     *)
(***************************************************************************)
LEMMA HoldsStep == Safe /\ Control /\ Holds /\ [Next]_vars => Holds'
<1> SUFFICES ASSUME Safe, Control, Holds, [Next]_vars PROVE Holds'
  OBVIOUS
<1>1. ASSUME NEW p \in Procs, Step(p) PROVE Holds'
  <2>1. Local \in Places
    BY DEF Places
  <2>2. CASE \E d \in Places : PutArchive(p, d) \/ ArchivePutFails(p, d)
    BY <2>2, UploadingHolds
  <2>3. CASE PutSidecar(p) \/ SidecarPutFails(p)
    BY <2>1, <2>3, UploadingHolds
  <2>4. CASE \/ \E d \in Places : SelectSnapshots(p, d) \/ ListingFails(p, d)
             \/ \E s \in Sids : PruneSnapshot(p, s)
             \/ PlacePruned(p) \/ DeletionFails(p) \/ RetentionDone(p) \/ KeepLocalCopy(p)
    <3>1. run[p].pc # "idle"
      BY <2>4 DEF SelectSnapshots, ListingFails, NextPlace, PruneSnapshot, PlacePruned,
                  DeletionFails, RetentionDone, KeepLocalCopy, At
    <3>2. run[p].sid \in Sids
      BY <3>1 DEF Control, Shape
    <3> QED
      BY <2>1, <2>4, <3>2, RetainingHolds
  <2> QED
    BY <1>1, <2>2, <2>3, <2>4, StagingHolds, TrackingHolds, Deleting, EndingHolds DEF Step
<1>2. ASSUME Reconfigure \/ UNCHANGED vars PROVE Holds'
  <2>1. UNCHANGED <<archive, manifest, markers, run, stored, pruned>>
    BY <1>2 DEF Reconfigure, places, history, vars
  <2> QED
    BY ZenonT(60), <2>1 DEF Holds, Relies, Seals, Sealed, Held, Complete,
         OnlyPolicyRemoves, Restorable
<1> QED
  BY <1>1, <1>2, BeginningHolds, EndingHolds DEF Next

(***************************************************************************)
(* Four pieces of code delete copies, each on what it learned some steps   *)
(* earlier; still a snapshot a run reported as stored keeps a complete     *)
(* copy until a retention policy selects it, for every number of places,   *)
(* runs and kills. Runs that overlap need that a put never leaves a torn   *)
(* file.                                                                   *)
(***************************************************************************)
THEOREM StoredIsKept ==
  ASSUME Sequential \/ NothingTorn
  PROVE  Spec => []OnlyPolicyRemoves
<1>1. Safe
  BY DEF Safe
<1>2. Init => Control /\ Holds
  BY ControlInit, HoldsInit
<1>3. Control /\ Holds /\ [Next]_vars => (Control /\ Holds)'
  BY <1>1, ControlStep, HoldsStep
<1>4. Control /\ Holds => OnlyPolicyRemoves
  BY DEF Holds
<1> QED
  BY <1>2, <1>3, <1>4, PTL DEF Spec

-----------------------------------------------------------------------------
(* What each action does, as the later layers use it: for an action A, a     *)
(* record r that has the changed fields of the run o, and the cell that is   *)
(* written or erased. ADoes derives AEffect from the action.                 *)

Fields == {"pc", "sid", "failed", "errors", "dests", "stored", "phase", "item", "at",
           "queue", "got", "todo", "plan", "keys"}

\* Of the fields of o, r has only changed these.
Only(r, o, changed) == \A f \in Fields \ changed : r[f] = o[f]

\* g is f with c for s at d.
Sets(f, g, d, s, c) ==
  \A e \in Places, t \in Sids : g[e][t] = IF e = d /\ t = s THEN c ELSE f[e][t]

\* What a put that raised has made of f.
FailedPut(f, g, d, s, source, left) ==
  \/ g = f
  \/ /\ source # "absent" /\ left # {}
     /\ \E c \in {source} \cup (left \ {"whole"}) : Sets(f, g, d, s, c)

\* The places a run of the job stores its snapshot in if all goes well.
Wanted == job.s3 \cup (IF job.local \/ job.s3 = {} THEN {Local} ELSE {})

LEMMA FailedPutSets ==
  ASSUME NEW f \in [Places -> [Sids -> Condition]], NEW g, NEW d, NEW s, NEW source, NEW left,
         \/ g = f
         \/ /\ source # "absent"
            /\ \E l \in left : g = [f EXCEPT ![d][s] = IF l = "whole" THEN source ELSE l]
  PROVE  FailedPut(f, g, d, s, source, left)
<1>1. CASE g # f
  <2>1. PICK l \in left : g = [f EXCEPT ![d][s] = IF l = "whole" THEN source ELSE l]
    BY <1>1
  <2>2. PICK c : c = IF l = "whole" THEN source ELSE l
    OBVIOUS
  <2>3. g = [f EXCEPT ![d][s] = c]
    BY <2>1, <2>2
  <2>4. Sets(f, g, d, s, c)
    BY <2>3, CellValues DEF Sets
  <2> QED
    BY <1>1, <2>2, <2>4 DEF FailedPut
<1> QED
  BY <1>1 DEF FailedPut

ProduceEffect(o, r) ==
  /\ Only(r, o, {"pc", "failed", "errors"})
  /\ o.pc = "produce"
  /\ r.pc = "connect"
  /\ UNCHANGED <<job, clock, last, breaks, archive, manifest, markers, stored, due, good, pruned>>

LEMMA ProduceDoes ==
  ASSUME Control, NEW p \in Procs, Produce(p),
         NEW o, o = run[p], NEW r, r = run'[p]
  PROVE  ProduceEffect(o, r)
<1>1. o \in Run /\ \A m : Becomes(p, m) => r = m
  BY DEF Control, TypeOK, Becomes
<1>2. PICK failed \in Failures, warned \in BOOLEAN : r = [o EXCEPT !.pc = "connect", !.failed = failed, !.errors = failed \/ warned]
  BY <1>1 DEF Produce
<1>3. /\ Only(r, o, {"pc", "failed", "errors"})
      /\ r.pc = "connect"
  BY <1>1, <1>2 DEF Only, Fields, Run
<1>4. /\ o.pc = "produce"
      /\ UNCHANGED <<job, clock, last, breaks, archive, manifest, markers, stored, due,
                     good, pruned>>
  BY DEF Produce, At, env, places, history
<1> QED
  BY <1>3, <1>4 DEF ProduceEffect

PutArchiveEffect(p, d, o, r) ==
  /\ Only(r, o, {"pc", "at"})
  /\ o.pc = "archive"
  /\ d \in o.queue
  /\ ArchiveSource(p) # "absent"
  /\ r.pc = "sidecar"
  /\ r.at = d
  /\ Sets(archive, archive', d, o.item, ArchiveSource(p))
  /\ UNCHANGED <<job, clock, last, breaks, manifest, markers, stored, due, good, pruned>>

LEMMA PutArchiveDoes ==
  ASSUME Control, NEW p \in Procs, NEW d \in Places, PutArchive(p, d),
         NEW o, o = run[p], NEW r, r = run'[p]
  PROVE  PutArchiveEffect(p, d, o, r)
<1>1. o \in Run /\ \A m : Becomes(p, m) => r = m
  BY DEF Control, TypeOK, Becomes
<1>2. r = [o EXCEPT !.pc = "sidecar", !.at = d]
  BY <1>1 DEF PutArchive
<1>3. /\ Only(r, o, {"pc", "at"})
      /\ r.pc = "sidecar"
      /\ r.at = d
  BY <1>1, <1>2 DEF Only, Fields, Run
<1>4. /\ o.pc = "archive"
      /\ d \in o.queue
      /\ ArchiveSource(p) # "absent"
      /\ UNCHANGED <<job, clock, last, breaks, manifest, markers, stored, due, good, pruned>>
  BY DEF PutArchive, At, env, places, history
<1>5. archive \in [Places -> [Sids -> Condition]]
  BY DEF Control, TypeOK
<1>6. archive' = [archive EXCEPT ![d][o.item] = ArchiveSource(p)]
  BY DEF PutArchive, At
<1>7. Sets(archive, archive', d, o.item, ArchiveSource(p))
  BY <1>5, <1>6, CellValues DEF Sets
<1> QED
  BY <1>3, <1>4, <1>7 DEF PutArchiveEffect

PutSidecarEffect(p, o, r) ==
  /\ Only(r, o, {"pc", "at", "queue", "got"})
  /\ o.pc = "sidecar"
  /\ ManifestSource(p) # "absent"
  /\ r.pc = "archive"
  /\ r.queue = o.queue \ {o.at}
  /\ r.got = o.got \cup {o.at}
  /\ Sets(manifest, manifest', o.at, o.item, ManifestSource(p))
  /\ UNCHANGED <<job, clock, last, breaks, archive, markers, stored, due, good, pruned>>

LEMMA PutSidecarDoes ==
  ASSUME Control, NEW p \in Procs, PutSidecar(p),
         NEW o, o = run[p], NEW r, r = run'[p]
  PROVE  PutSidecarEffect(p, o, r)
<1>1. o \in Run /\ \A m : Becomes(p, m) => r = m
  BY DEF Control, TypeOK, Becomes
<1>2. r = [o EXCEPT !.pc = "archive", !.at = Local, !.queue = @ \ {o.at}, !.got = @ \cup {o.at}]
  BY <1>1 DEF PutSidecar
<1>3. /\ Only(r, o, {"pc", "at", "queue", "got"})
      /\ r.pc = "archive"
      /\ r.queue = o.queue \ {o.at}
      /\ r.got = o.got \cup {o.at}
  BY <1>1, <1>2 DEF Only, Fields, Run
<1>4. /\ o.pc = "sidecar"
      /\ ManifestSource(p) # "absent"
      /\ UNCHANGED <<job, clock, last, breaks, archive, markers, stored, due, good, pruned>>
  BY DEF PutSidecar, At, env, places, history
<1>5. manifest \in [Places -> [Sids -> Condition]]
  BY DEF Control, TypeOK
<1>6. manifest' = [manifest EXCEPT ![o.at][o.item] = ManifestSource(p)]
  BY DEF PutSidecar, At
<1>7. Sets(manifest, manifest', o.at, o.item, ManifestSource(p))
  BY <1>5, <1>6, CellValues DEF Sets
<1> QED
  BY <1>3, <1>4, <1>7 DEF PutSidecarEffect

ArchivePutFailsEffect(p, d, o, r) ==
  /\ Only(r, o, {"queue", "errors"})
  /\ o.pc = "archive"
  /\ d \in o.queue
  /\ r.queue = o.queue \ {d}
  /\ r.errors
  /\ FailedPut(archive, archive', d, o.item, ArchiveSource(p), ArchiveLeft)
  /\ UNCHANGED <<job, clock, last, breaks, manifest, markers, stored, due, good, pruned>>

LEMMA ArchivePutFailsDoes ==
  ASSUME Control, NEW p \in Procs, NEW d \in Places, ArchivePutFails(p, d),
         NEW o, o = run[p], NEW r, r = run'[p]
  PROVE  ArchivePutFailsEffect(p, d, o, r)
<1>1. o \in Run /\ \A m : Becomes(p, m) => r = m
  BY DEF Control, TypeOK, Becomes
<1>2. r = [o EXCEPT !.queue = @ \ {d}, !.errors = TRUE]
  BY <1>1 DEF ArchivePutFails
<1>3. /\ Only(r, o, {"queue", "errors"})
      /\ r.queue = o.queue \ {d}
      /\ r.errors
  BY <1>1, <1>2 DEF Only, Fields, Run
<1>4. /\ o.pc = "archive"
      /\ d \in o.queue
      /\ UNCHANGED <<job, clock, last, breaks, manifest, markers, stored, due, good, pruned>>
  BY DEF ArchivePutFails, At, env, places, history
<1>5. archive \in [Places -> [Sids -> Condition]]
  BY DEF Control, TypeOK
<1>7. FailedPut(archive, archive', d, o.item, ArchiveSource(p), ArchiveLeft)
  BY <1>5, FailedPutSets DEF ArchivePutFails
<1> QED
  BY <1>3, <1>4, <1>7 DEF ArchivePutFailsEffect

SidecarPutFailsEffect(p, o, r) ==
  /\ Only(r, o, {"pc", "at", "queue", "errors"})
  /\ o.pc = "sidecar"
  /\ r.pc = "archive"
  /\ r.queue = o.queue \ {o.at}
  /\ r.errors
  /\ FailedPut(manifest, manifest', o.at, o.item, ManifestSource(p), ManifestLeft)
  /\ UNCHANGED <<job, clock, last, breaks, archive, markers, stored, due, good, pruned>>

LEMMA SidecarPutFailsDoes ==
  ASSUME Control, NEW p \in Procs, SidecarPutFails(p),
         NEW o, o = run[p], NEW r, r = run'[p]
  PROVE  SidecarPutFailsEffect(p, o, r)
<1>1. o \in Run /\ \A m : Becomes(p, m) => r = m
  BY DEF Control, TypeOK, Becomes
<1>2. r = [o EXCEPT !.pc = "archive", !.at = Local, !.queue = @ \ {o.at}, !.errors = TRUE]
  BY <1>1 DEF SidecarPutFails
<1>3. /\ Only(r, o, {"pc", "at", "queue", "errors"})
      /\ r.pc = "archive"
      /\ r.queue = o.queue \ {o.at}
      /\ r.errors
  BY <1>1, <1>2 DEF Only, Fields, Run
<1>4. /\ o.pc = "sidecar"
      /\ UNCHANGED <<job, clock, last, breaks, archive, markers, stored, due, good, pruned>>
  BY DEF SidecarPutFails, At, env, places, history
<1>5. manifest \in [Places -> [Sids -> Condition]]
  BY DEF Control, TypeOK
<1>7. FailedPut(manifest, manifest', o.at, o.item, ManifestSource(p), ManifestLeft)
  BY <1>5, FailedPutSets DEF SidecarPutFails
<1> QED
  BY <1>3, <1>4, <1>7 DEF SidecarPutFailsEffect

FallBackEffect(o, r) ==
  /\ Only(r, o, {"phase", "queue"})
  /\ o.pc = "archive"
  /\ o.queue = {}
  /\ o.phase = "deliver"
  /\ o.got = {}
  /\ Local \notin o.dests
  /\ r.phase = "fallback"
  /\ r.queue = {Local}
  /\ UNCHANGED <<job, clock, last, breaks, archive, manifest, markers, stored, due, good, pruned>>

LEMMA FallBackDoes ==
  ASSUME Control, NEW p \in Procs, FallBack(p),
         NEW o, o = run[p], NEW r, r = run'[p]
  PROVE  FallBackEffect(o, r)
<1>1. o \in Run /\ \A m : Becomes(p, m) => r = m
  BY DEF Control, TypeOK, Becomes
<1>2. r = [o EXCEPT !.phase = "fallback", !.queue = {Local}]
  BY <1>1 DEF FallBack
<1>3. /\ Only(r, o, {"phase", "queue"})
      /\ r.phase = "fallback"
      /\ r.queue = {Local}
  BY <1>1, <1>2 DEF Only, Fields, Run
<1>4. /\ o.pc = "archive"
      /\ o.queue = {}
      /\ o.phase = "deliver"
      /\ o.got = {}
      /\ Local \notin o.dests
      /\ UNCHANGED <<job, clock, last, breaks, archive, manifest, markers, stored, due,
                     good, pruned>>
  BY DEF FallBack, At, env, places, history, Uploaded
<1> QED
  BY <1>3, <1>4 DEF FallBackEffect

DeliveredEffect(o, r) ==
  /\ Only(r, o, {"pc", "stored", "got", "item"})
  /\ o.pc = "archive"
  /\ o.phase # "ship"
  /\ o.queue = {}
  /\ o.phase = "deliver" => o.got # {} \/ Local \in o.dests
  /\ r.pc = "track"
  /\ r.stored = o.got
  /\ r.got = {}
  /\ stored' = stored \cup (IF o.got # {} THEN {o.sid} ELSE {})
  /\ due' = IF job.s3 # {} THEN due \cup (IF o.got # {} THEN {o.sid} ELSE {}) ELSE due
  /\ UNCHANGED <<job, clock, last, breaks, archive, manifest, markers, pruned>>

LEMMA DeliveredDoes ==
  ASSUME Control, NEW p \in Procs, Delivered(p),
         NEW o, o = run[p], NEW r, r = run'[p]
  PROVE  DeliveredEffect(o, r)
<1>1. o \in Run /\ \A m : Becomes(p, m) => r = m
  BY DEF Control, TypeOK, Becomes
<1>2. r = [o EXCEPT !.pc = "track", !.stored = o.got, !.got = {}, !.item = 0]
  BY <1>1 DEF Delivered
<1>3. /\ Only(r, o, {"pc", "stored", "got", "item"})
      /\ r.pc = "track"
      /\ r.stored = o.got
      /\ r.got = {}
  BY <1>1, <1>2 DEF Only, Fields, Run
<1>4. /\ o.pc = "archive"
      /\ o.phase # "ship"
      /\ o.queue = {}
      /\ o.phase = "deliver" => o.got # {} \/ Local \in o.dests
      /\ stored' = stored \cup (IF o.got # {} THEN {o.sid} ELSE {})
      /\ due' = IF job.s3 # {} THEN due \cup (IF o.got # {} THEN {o.sid} ELSE {}) ELSE due
      /\ UNCHANGED <<job, clock, last, breaks, archive, manifest, markers, pruned>>
  BY DEF Delivered, At, env, places, history, Uploaded
<1> QED
  BY <1>3, <1>4 DEF DeliveredEffect

MarkPendingEffect(o, r) ==
  /\ Only(r, o, {"pc", "queue"})
  /\ o.pc = "track"
  /\ OffsiteOf(o) = {}
  /\ r.pc = "retain"
  /\ markers' = IF job.s3 # {} /\ o.stored # {} THEN markers \cup {o.sid} ELSE markers
  /\ UNCHANGED <<job, clock, last, breaks, archive, manifest, stored, due, good, pruned>>

LEMMA MarkPendingDoes ==
  ASSUME Control, NEW p \in Procs, MarkPending(p),
         NEW o, o = run[p], NEW r, r = run'[p]
  PROVE  MarkPendingEffect(o, r)
<1>1. o \in Run /\ \A m : Becomes(p, m) => r = m
  BY DEF Control, TypeOK, Becomes
<1>2. r = [o EXCEPT !.pc = "retain",
                            !.queue = o.dests \cup (IF (o.phase = "fallback") THEN {Local} ELSE {})]
  BY <1>1 DEF MarkPending, StoodIn
<1>3. /\ Only(r, o, {"pc", "queue"})
      /\ r.pc = "retain"
  BY <1>1, <1>2 DEF Only, Fields, Run
<1>4. /\ o.pc = "track"
      /\ OffsiteOf(o) = {}
      /\ markers' = IF job.s3 # {} /\ o.stored # {} THEN markers \cup {o.sid} ELSE markers
      /\ UNCHANGED <<job, clock, last, breaks, archive, manifest, stored, due, good, pruned>>
  BY DEF MarkPending, At, env, places, history, Offsite, OffsiteOf
<1> QED
  BY <1>3, <1>4 DEF MarkPendingEffect

CatchUpEffect(o, r) ==
  /\ Only(r, o, {"pc", "todo"})
  /\ o.pc = "track"
  /\ OffsiteOf(o) # {}
  /\ r.pc = "ship"
  /\ r.todo = markers
  /\ UNCHANGED <<job, clock, last, breaks, archive, manifest, markers, stored, due, good, pruned>>

LEMMA CatchUpDoes ==
  ASSUME Control, NEW p \in Procs, CatchUp(p),
         NEW o, o = run[p], NEW r, r = run'[p]
  PROVE  CatchUpEffect(o, r)
<1>1. o \in Run /\ \A m : Becomes(p, m) => r = m
  BY DEF Control, TypeOK, Becomes
<1>2. r = [o EXCEPT !.pc = "ship", !.todo = markers]
  BY <1>1 DEF CatchUp
<1>3. /\ Only(r, o, {"pc", "todo"})
      /\ r.pc = "ship"
      /\ r.todo = markers
  BY <1>1, <1>2 DEF Only, Fields, Run
<1>4. /\ o.pc = "track"
      /\ OffsiteOf(o) # {}
      /\ UNCHANGED <<job, clock, last, breaks, archive, manifest, markers, stored, due,
                     good, pruned>>
  BY DEF CatchUp, At, env, places, history, Offsite, OffsiteOf
<1> QED
  BY <1>3, <1>4 DEF CatchUpEffect

StaysPendingEffect(o, r) ==
  /\ Only(r, o, {"pc", "errors", "got", "item"})
  /\ o.pc = "archive"
  /\ o.phase = "ship"
  /\ o.queue = {}
  /\ r.pc = "ship"
  /\ r.errors
  /\ r.got = {}
  /\ UNCHANGED <<job, clock, last, breaks, archive, manifest, markers, stored, due, good, pruned>>

LEMMA StaysPendingDoes ==
  ASSUME Control, NEW p \in Procs, StaysPending(p),
         NEW o, o = run[p], NEW r, r = run'[p]
  PROVE  StaysPendingEffect(o, r)
<1>1. o \in Run /\ \A m : Becomes(p, m) => r = m
  BY DEF Control, TypeOK, Becomes
<1>2. r = [o EXCEPT !.pc = "ship", !.errors = TRUE, !.got = {}, !.item = 0]
  BY <1>1 DEF StaysPending
<1>3. /\ Only(r, o, {"pc", "errors", "got", "item"})
      /\ r.pc = "ship"
      /\ r.errors
      /\ r.got = {}
  BY <1>1, <1>2 DEF Only, Fields, Run
<1>4. /\ o.pc = "archive"
      /\ o.phase = "ship"
      /\ o.queue = {}
      /\ UNCHANGED <<job, clock, last, breaks, archive, manifest, markers, stored, due,
                     good, pruned>>
  BY DEF StaysPending, At, env, places, history, Uploaded
<1> QED
  BY <1>3, <1>4 DEF StaysPendingEffect

ShippedEffect(o, r) ==
  /\ Only(r, o, {"pc", "got"})
  /\ o.pc = "archive"
  /\ o.phase = "ship"
  /\ o.queue = {}
  /\ o.got = OffsiteOf(o)
  /\ r.pc \in {"ship", "clear archive"} /\ (~KeepsLocal(job) => r.pc = "clear archive")
  /\ r.got = {}
  /\ markers' = markers \ {o.item}
  /\ UNCHANGED <<job, clock, last, breaks, archive, manifest, stored, due, good, pruned>>

LEMMA ShippedDoes ==
  ASSUME Control, NEW p \in Procs, Shipped(p),
         NEW o, o = run[p], NEW r, r = run'[p]
  PROVE  ShippedEffect(o, r)
<1>1. o \in Run /\ \A m : Becomes(p, m) => r = m
  BY DEF Control, TypeOK, Becomes
<1>2. r = [o EXCEPT !.pc = IF KeepsLocal(job) THEN "ship" ELSE "clear archive", !.got = {}]
  BY <1>1 DEF Shipped
<1>3. /\ Only(r, o, {"pc", "got"})
      /\ r.pc \in {"ship", "clear archive"} /\ (~KeepsLocal(job) => r.pc = "clear archive")
      /\ r.got = {}
  BY <1>1, <1>2 DEF Only, Fields, Run
<1>4. /\ o.pc = "archive"
      /\ o.phase = "ship"
      /\ o.queue = {}
      /\ o.got = OffsiteOf(o)
      /\ markers' = markers \ {o.item}
      /\ UNCHANGED <<job, clock, last, breaks, archive, manifest, stored, due, good, pruned>>
  BY DEF Shipped, At, env, places, history, Uploaded, Offsite, OffsiteOf
<1> QED
  BY <1>3, <1>4 DEF ShippedEffect

ClearArchiveEffect(o, r) ==
  /\ Only(r, o, {"pc"})
  /\ o.pc = "clear archive"
  /\ r.pc = "clear manifest"
  /\ Sets(archive, archive', Local, o.item, "absent")
  /\ UNCHANGED <<job, clock, last, breaks, manifest, markers, stored, due, good, pruned>>

LEMMA ClearArchiveDoes ==
  ASSUME Control, NEW p \in Procs, ClearArchive(p),
         NEW o, o = run[p], NEW r, r = run'[p]
  PROVE  ClearArchiveEffect(o, r)
<1>1. o \in Run /\ \A m : Becomes(p, m) => r = m
  BY DEF Control, TypeOK, Becomes
<1>2. r = [o EXCEPT !.pc = "clear manifest"]
  BY <1>1 DEF ClearArchive
<1>3. /\ Only(r, o, {"pc"})
      /\ r.pc = "clear manifest"
  BY <1>1, <1>2 DEF Only, Fields, Run
<1>4. /\ o.pc = "clear archive"
      /\ UNCHANGED <<job, clock, last, breaks, manifest, markers, stored, due, good, pruned>>
  BY DEF ClearArchive, At, env, places, history
<1>5. archive \in [Places -> [Sids -> Condition]]
  BY DEF Control, TypeOK
<1>6. archive' = [archive EXCEPT ![Local][o.item] = "absent"]
  BY DEF ClearArchive, At
<1>7. Sets(archive, archive', Local, o.item, "absent")
  BY <1>5, <1>6, CellValues DEF Sets
<1> QED
  BY <1>3, <1>4, <1>7 DEF ClearArchiveEffect

ClearManifestEffect(o, r) ==
  /\ Only(r, o, {"pc", "item"})
  /\ o.pc = "clear manifest"
  /\ r.pc = "ship"
  /\ Sets(manifest, manifest', Local, o.item, "absent")
  /\ UNCHANGED <<job, clock, last, breaks, archive, markers, stored, due, good, pruned>>

LEMMA ClearManifestDoes ==
  ASSUME Control, NEW p \in Procs, ClearManifest(p),
         NEW o, o = run[p], NEW r, r = run'[p]
  PROVE  ClearManifestEffect(o, r)
<1>1. o \in Run /\ \A m : Becomes(p, m) => r = m
  BY DEF Control, TypeOK, Becomes
<1>2. r = [o EXCEPT !.pc = "ship", !.item = 0]
  BY <1>1 DEF ClearManifest
<1>3. /\ Only(r, o, {"pc", "item"})
      /\ r.pc = "ship"
  BY <1>1, <1>2 DEF Only, Fields, Run
<1>4. /\ o.pc = "clear manifest"
      /\ UNCHANGED <<job, clock, last, breaks, archive, markers, stored, due, good, pruned>>
  BY DEF ClearManifest, At, env, places, history
<1>5. manifest \in [Places -> [Sids -> Condition]]
  BY DEF Control, TypeOK
<1>6. manifest' = [manifest EXCEPT ![Local][o.item] = "absent"]
  BY DEF ClearManifest, At
<1>7. Sets(manifest, manifest', Local, o.item, "absent")
  BY <1>5, <1>6, CellValues DEF Sets
<1> QED
  BY <1>3, <1>4, <1>7 DEF ClearManifestEffect

CaughtUpEffect(o, r) ==
  /\ Only(r, o, {"pc", "queue"})
  /\ o.pc = "ship"
  /\ o.todo = {}
  /\ r.pc = "retain"
  /\ UNCHANGED <<job, clock, last, breaks, archive, manifest, markers, stored, due, good, pruned>>

LEMMA CaughtUpDoes ==
  ASSUME Control, NEW p \in Procs, CaughtUp(p),
         NEW o, o = run[p], NEW r, r = run'[p]
  PROVE  CaughtUpEffect(o, r)
<1>1. o \in Run /\ \A m : Becomes(p, m) => r = m
  BY DEF Control, TypeOK, Becomes
<1>2. r = [o EXCEPT !.pc = "retain", !.queue = o.dests]
  BY <1>1 DEF CaughtUp
<1>3. /\ Only(r, o, {"pc", "queue"})
      /\ r.pc = "retain"
  BY <1>1, <1>2 DEF Only, Fields, Run
<1>4. /\ o.pc = "ship"
      /\ o.todo = {}
      /\ UNCHANGED <<job, clock, last, breaks, archive, manifest, markers, stored, due,
                     good, pruned>>
  BY DEF CaughtUp, At, env, places, history
<1> QED
  BY <1>3, <1>4 DEF CaughtUpEffect

PlacePrunedEffect(o, r) ==
  /\ Only(r, o, {"pc", "at", "item"})
  /\ o.pc = "prune"
  /\ r.pc = "retain"
  /\ UNCHANGED <<job, clock, last, breaks, archive, manifest, markers, stored, due, good, pruned>>

LEMMA PlacePrunedDoes ==
  ASSUME Control, NEW p \in Procs, PlacePruned(p),
         NEW o, o = run[p], NEW r, r = run'[p]
  PROVE  PlacePrunedEffect(o, r)
<1>1. o \in Run /\ \A m : Becomes(p, m) => r = m
  BY DEF Control, TypeOK, Becomes
<1>2. r = [o EXCEPT !.pc = "retain", !.at = Local, !.item = 0]
  BY <1>1 DEF PlacePruned
<1>3. /\ Only(r, o, {"pc", "at", "item"})
      /\ r.pc = "retain"
  BY <1>1, <1>2 DEF Only, Fields, Run
<1>4. /\ o.pc = "prune"
      /\ UNCHANGED <<job, clock, last, breaks, archive, manifest, markers, stored, due,
                     good, pruned>>
  BY DEF PlacePruned, At, env, places, history
<1> QED
  BY <1>3, <1>4 DEF PlacePrunedEffect

ListingFailsEffect(o, r) ==
  /\ Only(r, o, {"queue", "errors"})
  /\ o.pc = "retain"
  /\ r.errors
  /\ UNCHANGED <<job, clock, last, breaks, archive, manifest, markers, stored, due, good, pruned>>

LEMMA ListingFailsDoes ==
  ASSUME Control, NEW p \in Procs, NEW d \in Places, ListingFails(p, d),
         NEW o, o = run[p], NEW r, r = run'[p]
  PROVE  ListingFailsEffect(o, r)
<1>1. o \in Run /\ \A m : Becomes(p, m) => r = m
  BY DEF Control, TypeOK, Becomes
<1>2. r = [o EXCEPT !.queue = @ \ {d}, !.errors = TRUE]
  BY <1>1 DEF ListingFails
<1>3. /\ Only(r, o, {"queue", "errors"})
      /\ r.errors
  BY <1>1, <1>2 DEF Only, Fields, Run
<1>4. /\ o.pc = "retain"
      /\ UNCHANGED <<job, clock, last, breaks, archive, manifest, markers, stored, due,
                     good, pruned>>
  BY DEF ListingFails, At, env, places, history, NextPlace
<1> QED
  BY <1>3, <1>4 DEF ListingFailsEffect

DeletionFailsEffect(o, r) ==
  /\ Only(r, o, {"pc", "at", "item", "plan", "keys", "errors"})
  /\ o.pc \in {"prune", "delete"}
  /\ r.pc = "retain"
  /\ r.plan = {}
  /\ r.errors
  /\ UNCHANGED <<job, clock, last, breaks, archive, manifest, markers, stored, due, good, pruned>>

LEMMA DeletionFailsDoes ==
  ASSUME Control, NEW p \in Procs, DeletionFails(p),
         NEW o, o = run[p], NEW r, r = run'[p]
  PROVE  DeletionFailsEffect(o, r)
<1>1. o \in Run /\ \A m : Becomes(p, m) => r = m
  BY DEF Control, TypeOK, Becomes
<1>2. r = [o EXCEPT !.pc = "retain", !.at = Local, !.item = 0, !.plan = {}, !.keys = {}, !.errors = TRUE]
  BY <1>1 DEF DeletionFails
<1>3. /\ Only(r, o, {"pc", "at", "item", "plan", "keys", "errors"})
      /\ r.pc = "retain"
      /\ r.plan = {}
      /\ r.errors
  BY <1>1, <1>2 DEF Only, Fields, Run
<1>4. /\ o.pc \in {"prune", "delete"}
      /\ UNCHANGED <<job, clock, last, breaks, archive, manifest, markers, stored, due,
                     good, pruned>>
  BY DEF DeletionFails, At, env, places, history
<1> QED
  BY <1>3, <1>4 DEF DeletionFailsEffect

RetentionDoneEffect(o, r) ==
  /\ Only(r, o, {"pc"})
  /\ o.pc = "retain"
  /\ r.pc = "drop"
  /\ UNCHANGED <<job, clock, last, breaks, archive, manifest, markers, stored, due, good, pruned>>

LEMMA RetentionDoneDoes ==
  ASSUME Control, NEW p \in Procs, RetentionDone(p),
         NEW o, o = run[p], NEW r, r = run'[p]
  PROVE  RetentionDoneEffect(o, r)
<1>1. o \in Run /\ \A m : Becomes(p, m) => r = m
  BY DEF Control, TypeOK, Becomes
<1>2. r = [o EXCEPT !.pc = "drop"]
  BY <1>1 DEF RetentionDone
<1>3. /\ Only(r, o, {"pc"})
      /\ r.pc = "drop"
  BY <1>1, <1>2 DEF Only, Fields, Run
<1>4. /\ o.pc = "retain"
      /\ UNCHANGED <<job, clock, last, breaks, archive, manifest, markers, stored, due,
                     good, pruned>>
  BY DEF RetentionDone, At, env, places, history
<1> QED
  BY <1>3, <1>4 DEF RetentionDoneEffect

DropLocalArchiveEffect(o, r) ==
  /\ Only(r, o, {"pc"})
  /\ o.pc = "drop"
  /\ ~job.keep_local
  /\ job.local
  /\ Local \in o.stored
  /\ OffsiteOf(o) # {}
  /\ r.pc = "drop manifest"
  /\ Sets(archive, archive', Local, o.sid, "absent")
  /\ UNCHANGED <<job, clock, last, breaks, manifest, markers, stored, due, good, pruned>>

LEMMA DropLocalArchiveDoes ==
  ASSUME Control, NEW p \in Procs, DropLocalArchive(p),
         NEW o, o = run[p], NEW r, r = run'[p]
  PROVE  DropLocalArchiveEffect(o, r)
<1>1. o \in Run /\ \A m : Becomes(p, m) => r = m
  BY DEF Control, TypeOK, Becomes
<1>2. r = [o EXCEPT !.pc = "drop manifest"]
  BY <1>1 DEF DropLocalArchive
<1>3. /\ Only(r, o, {"pc"})
      /\ r.pc = "drop manifest"
  BY <1>1, <1>2 DEF Only, Fields, Run
<1>4. /\ o.pc = "drop"
      /\ ~job.keep_local
      /\ job.local
      /\ Local \in o.stored
      /\ OffsiteOf(o) # {}
      /\ UNCHANGED <<job, clock, last, breaks, manifest, markers, stored, due, good, pruned>>
  BY DEF DropLocalArchive, At, env, places, history, DropsLocal, Offsite, OffsiteOf
<1>5. archive \in [Places -> [Sids -> Condition]]
  BY DEF Control, TypeOK
<1>6. archive' = [archive EXCEPT ![Local][o.sid] = "absent"]
  BY DEF DropLocalArchive, At, DropsLocal, Offsite, OffsiteOf
<1>7. Sets(archive, archive', Local, o.sid, "absent")
  BY <1>5, <1>6, CellValues DEF Sets
<1> QED
  BY <1>3, <1>4, <1>7 DEF DropLocalArchiveEffect

DropLocalManifestEffect(o, r) ==
  /\ Only(r, o, {"pc"})
  /\ o.pc = "drop manifest"
  /\ r.pc = "record"
  /\ Sets(manifest, manifest', Local, o.sid, "absent")
  /\ UNCHANGED <<job, clock, last, breaks, archive, markers, stored, due, good, pruned>>

LEMMA DropLocalManifestDoes ==
  ASSUME Control, NEW p \in Procs, DropLocalManifest(p),
         NEW o, o = run[p], NEW r, r = run'[p]
  PROVE  DropLocalManifestEffect(o, r)
<1>1. o \in Run /\ \A m : Becomes(p, m) => r = m
  BY DEF Control, TypeOK, Becomes
<1>2. r = [o EXCEPT !.pc = "record"]
  BY <1>1 DEF DropLocalManifest
<1>3. /\ Only(r, o, {"pc"})
      /\ r.pc = "record"
  BY <1>1, <1>2 DEF Only, Fields, Run
<1>4. /\ o.pc = "drop manifest"
      /\ UNCHANGED <<job, clock, last, breaks, archive, markers, stored, due, good, pruned>>
  BY DEF DropLocalManifest, At, env, places, history
<1>5. manifest \in [Places -> [Sids -> Condition]]
  BY DEF Control, TypeOK
<1>6. manifest' = [manifest EXCEPT ![Local][o.sid] = "absent"]
  BY DEF DropLocalManifest, At
<1>7. Sets(manifest, manifest', Local, o.sid, "absent")
  BY <1>5, <1>6, CellValues DEF Sets
<1> QED
  BY <1>3, <1>4, <1>7 DEF DropLocalManifestEffect

ConnectEffect(o, r) ==
  /\ Only(r, o, {"pc", "phase", "item", "dests", "queue", "got", "errors"})
  /\ o.pc = "connect" /\ r.pc = "archive" /\ r.phase = "deliver" /\ r.item = o.sid
  /\ r.queue = r.dests /\ r.got = {}
  /\ ~r.errors => ~o.errors /\ r.dests = Wanted
  /\ Local \in r.dests => job.local \/ job.s3 = {}
  /\ UNCHANGED <<job, clock, last, breaks, archive, manifest, markers, stored, due, good, pruned>>

LEMMA ConnectDoes ==
  ASSUME Control, NEW p \in Procs, Connect(p), NEW o, o = run[p], NEW r, r = run'[p]
  PROVE  ConnectEffect(o, r)
<1>1. o \in Run /\ \A m : Becomes(p, m) => r = m
  BY DEF Control, TypeOK, Becomes
<1>2. PICK up \in SUBSET job.s3 :
        LET built == up \cup (IF job.local THEN {Local} ELSE {})
            dests == IF built = {} /\ job.s3 = {} THEN {Local} ELSE built
        IN  r = [o EXCEPT !.pc = "archive", !.phase = "deliver", !.item = o.sid,
                          !.dests = dests, !.queue = dests, !.got = {},
                          !.errors = @ \/ up # job.s3]
  BY <1>1 DEF Connect
<1> DEFINE built == up \cup (IF job.local THEN {Local} ELSE {})
<1>3. PICK dests : dests = IF built = {} /\ job.s3 = {} THEN {Local} ELSE built
  OBVIOUS
<1>4. PICK errors : errors = (o.errors \/ up # job.s3)
  OBVIOUS
<1>5. r = [o EXCEPT !.pc = "archive", !.phase = "deliver", !.item = o.sid,
                    !.dests = dests, !.queue = dests, !.got = {}, !.errors = errors]
  BY <1>2, <1>3, <1>4
<1>6. /\ Only(r, o, {"pc", "phase", "item", "dests", "queue", "got", "errors"})
      /\ r.pc = "archive" /\ r.phase = "deliver" /\ r.item = o.sid
      /\ r.queue = dests /\ r.dests = dests /\ r.got = {} /\ r.errors = errors
  BY <1>1, <1>5 DEF Only, Fields, Run
<1>7. up = job.s3 => dests = Wanted
  BY <1>3 DEF Wanted
<1>8. o.pc = "connect"
      /\ UNCHANGED <<job, clock, last, breaks, archive, manifest, markers, stored, due,
                     good, pruned>>
  BY DEF Connect, At, env, places, history
<1>9. Local \in dests => job.local \/ job.s3 = {}
  <2>1. Local \notin up
    BY BackupAssumption DEF Control, TypeOK, Job
  <2> QED
    BY <1>3, <2>1
<1> QED
  BY <1>4, <1>6, <1>7, <1>8, <1>9 DEF ConnectEffect

ForgetPendingEffect(o, r) ==
  /\ Only(r, o, {"todo"}) /\ o.pc = "ship"
  /\ \E s \in o.todo : /\ archive[Local][s] = "absent" \/ manifest[Local][s] = "absent"
                       /\ markers' = markers \ {s} /\ r.todo = o.todo \ {s}
  /\ UNCHANGED <<job, clock, last, breaks, archive, manifest, stored, due, good, pruned>>

LEMMA ForgetPendingDoes ==
  ASSUME Control, NEW p \in Procs, ForgetPending(p), NEW o, o = run[p], NEW r, r = run'[p]
  PROVE  ForgetPendingEffect(o, r)
<1>1. o \in Run /\ \A m : Becomes(p, m) => r = m
  BY DEF Control, TypeOK, Becomes
<1>2. PICK s \in o.todo : /\ NextPending(p, s)
                          /\ archive[Local][s] = "absent" \/ manifest[Local][s] = "absent"
                          /\ markers' = markers \ {s}
                          /\ r = [o EXCEPT !.todo = @ \ {s}]
  BY <1>1 DEF ForgetPending
<1>3. Only(r, o, {"todo"}) /\ r.todo = o.todo \ {s}
  BY <1>1, <1>2 DEF Only, Fields, Run
<1>4. o.pc = "ship"
      /\ UNCHANGED <<job, clock, last, breaks, archive, manifest, stored, due, good, pruned>>
  BY <1>2 DEF ForgetPending, NextPending, At, env, places, history
<1> QED
  BY <1>2, <1>3, <1>4 DEF ForgetPendingEffect

ShipPendingEffect(o, r) ==
  /\ Only(r, o, {"pc", "phase", "item", "queue", "got", "todo"})
  /\ o.pc = "ship" /\ r.pc = "archive" /\ r.phase = "ship"
  /\ r.queue = OffsiteOf(o) /\ r.got = {}
  /\ r.item \in o.todo /\ r.todo = o.todo \ {r.item}
  /\ archive[Local][r.item] # "absent" /\ manifest[Local][r.item] # "absent"
  /\ UNCHANGED <<job, clock, last, breaks, archive, manifest, markers, stored, due, good, pruned>>

LEMMA ShipPendingDoes ==
  ASSUME Control, NEW p \in Procs, ShipPending(p), NEW o, o = run[p], NEW r, r = run'[p]
  PROVE  ShipPendingEffect(o, r)
<1>1. o \in Run /\ \A m : Becomes(p, m) => r = m
  BY DEF Control, TypeOK, Becomes
<1>2. PICK s \in o.todo :
        /\ NextPending(p, s)
        /\ archive[Local][s] # "absent" /\ manifest[Local][s] # "absent"
        /\ r = [o EXCEPT !.pc = "archive", !.phase = "ship", !.item = s,
                         !.queue = OffsiteOf(o), !.got = {}, !.todo = @ \ {s}]
  BY <1>1 DEF ShipPending, Offsite, OffsiteOf
<1>3. /\ Only(r, o, {"pc", "phase", "item", "queue", "got", "todo"})
      /\ r.pc = "archive" /\ r.phase = "ship" /\ r.item = s /\ r.queue = OffsiteOf(o)
      /\ r.got = {} /\ r.todo = o.todo \ {s}
  BY <1>1, <1>2 DEF Only, Fields, Run
<1>4. o.pc = "ship"
      /\ UNCHANGED <<job, clock, last, breaks, archive, manifest, markers, stored, due,
                     good, pruned>>
  BY <1>2 DEF ShipPending, NextPending, At, env, places, history
<1> QED
  BY <1>2, <1>3, <1>4 DEF ShipPendingEffect

SelectSnapshotsEffect(p, d, o, r) ==
  /\ Only(r, o, {"pc", "at", "queue", "plan"})
  /\ o.pc = "retain" /\ r.pc = "prune" /\ r.at = d
  /\ r.plan = SelectPrunable(Snaps(Candidates(p, d)), job.retention, o.sid)
  /\ UNCHANGED <<job, clock, last, breaks, archive, manifest, markers, stored, due, good, pruned>>

LEMMA SelectSnapshotsDoes ==
  ASSUME Control, NEW p \in Procs, NEW d \in Places, SelectSnapshots(p, d),
         NEW o, o = run[p], NEW r, r = run'[p]
  PROVE  SelectSnapshotsEffect(p, d, o, r)
<1>1. o \in Run /\ \A m : Becomes(p, m) => r = m
  BY DEF Control, TypeOK, Becomes
<1>2. PICK plan : plan = SelectPrunable(Snaps(Candidates(p, d)), job.retention, o.sid)
  OBVIOUS
<1>3. r = [o EXCEPT !.pc = "prune", !.at = d, !.queue = @ \ {d}, !.plan = plan]
  BY <1>1, <1>2 DEF SelectSnapshots
<1>4. Only(r, o, {"pc", "at", "queue", "plan"}) /\ r.pc = "prune" /\ r.at = d /\ r.plan = plan
  BY <1>1, <1>3 DEF Only, Fields, Run
<1>5. o.pc = "retain"
      /\ UNCHANGED <<job, clock, last, breaks, archive, manifest, markers, stored, due,
                     good, pruned>>
  BY DEF SelectSnapshots, NextPlace, At, env, places, history
<1> QED
  BY <1>2, <1>4, <1>5 DEF SelectSnapshotsEffect

PruneSnapshotEffect(s, o, r) ==
  /\ Only(r, o, {"pc", "item", "keys", "plan"})
  /\ o.pc = "prune" /\ r.pc \in {"prune", "delete"} /\ s \in o.plan /\ r.item = s
  /\ r.keys = Keys(o.at, s) /\ r.plan = o.plan \ {s}
  /\ pruned' = pruned \cup {s}
  /\ UNCHANGED <<job, clock, last, breaks, archive, manifest, markers, stored, due, good>>

LEMMA PruneSnapshotDoes ==
  ASSUME Control, NEW p \in Procs, NEW s \in Sids, PruneSnapshot(p, s),
         NEW o, o = run[p], NEW r, r = run'[p]
  PROVE  PruneSnapshotEffect(s, o, r)
<1>1. o \in Run /\ \A m : Becomes(p, m) => r = m
  BY DEF Control, TypeOK, Becomes
<1>2. PICK keys : keys = Keys(o.at, s)
  OBVIOUS
<1>3. r = [o EXCEPT !.pc = IF keys = {} THEN "prune" ELSE "delete", !.item = s,
                    !.keys = keys, !.plan = @ \ {s}]
  BY <1>1, <1>2 DEF PruneSnapshot
<1>4. /\ Only(r, o, {"pc", "item", "keys", "plan"}) /\ r.pc \in {"prune", "delete"}
      /\ r.item = s /\ r.keys = keys /\ r.plan = o.plan \ {s}
  BY <1>1, <1>3 DEF Only, Fields, Run
<1>5. /\ o.pc = "prune" /\ s \in o.plan /\ pruned' = pruned \cup {s}
      /\ UNCHANGED <<job, clock, last, breaks, archive, manifest, markers, stored, due, good>>
  BY DEF PruneSnapshot, At, env, places
<1> QED
  BY <1>2, <1>4, <1>5 DEF PruneSnapshotEffect

DeleteKeyEffect(o, r, k) ==
  /\ Only(r, o, {"pc", "keys"})
  /\ o.pc = "delete" /\ r.pc \in {"prune", "delete"} /\ r.keys = o.keys \ {k}
  /\ IF k = "manifest" THEN Sets(manifest, manifest', o.at, o.item, "absent")
                       ELSE manifest' = manifest
  /\ markers'  = IF k = "marker" THEN markers \ {o.item} ELSE markers
  /\ IF k = "archive" THEN Sets(archive, archive', o.at, o.item, "absent")
                      ELSE archive' = archive
  /\ UNCHANGED <<job, clock, last, breaks, stored, due, good, pruned>>

LEMMA DeleteKeyDoes ==
  ASSUME Control, NEW p \in Procs, DeleteKey(p),
         NEW o, o = run[p], NEW r, r = run'[p], NEW k, k = FirstKey(o.keys)
  PROVE  DeleteKeyEffect(o, r, k)
<1>1. o \in Run /\ \A m : Becomes(p, m) => r = m
  BY DEF Control, TypeOK, Becomes
<1>2. r = [o EXCEPT !.pc = IF o.keys = {k} THEN "prune" ELSE "delete", !.keys = @ \ {k}]
  BY <1>1 DEF DeleteKey
<1>3. Only(r, o, {"pc", "keys"}) /\ r.pc \in {"prune", "delete"} /\ r.keys = o.keys \ {k}
  BY <1>1, <1>2 DEF Only, Fields, Run
<1>4. /\ o.pc = "delete"
      /\ manifest' = IF k = "manifest" THEN [manifest EXCEPT ![o.at][o.item] = "absent"]
                                       ELSE manifest
      /\ markers'  = IF k = "marker" THEN markers \ {o.item} ELSE markers
      /\ archive'  = IF k = "archive" THEN [archive EXCEPT ![o.at][o.item] = "absent"]
                                      ELSE archive
      /\ UNCHANGED <<job, clock, last, breaks, stored, due, good, pruned>>
  BY DEF DeleteKey, At, env, history
<1>5. archive \in [Places -> [Sids -> Condition]] /\ manifest \in [Places -> [Sids -> Condition]]
  BY DEF Control, TypeOK
<1>6. k = "manifest" => Sets(manifest, manifest', o.at, o.item, "absent")
  BY <1>4, <1>5, CellValues DEF Sets
<1>7. k = "archive" => Sets(archive, archive', o.at, o.item, "absent")
  BY <1>4, <1>5, CellValues DEF Sets
<1> QED
  BY <1>3, <1>4, <1>6, <1>7 DEF DeleteKeyEffect

KeepLocalCopyEffect(o, r) ==
  /\ Only(r, o, {"pc", "errors"})
  /\ o.pc = "drop" /\ r.pc = "record" /\ (~r.errors => ~o.errors)
  /\ ~(~job.keep_local /\ job.local /\ Local \in o.stored /\ OffsiteOf(o) # {})
  /\ UNCHANGED <<job, clock, last, breaks, archive, manifest, markers, stored, due, good, pruned>>

LEMMA KeepLocalCopyDoes ==
  ASSUME Control, NEW p \in Procs, KeepLocalCopy(p), NEW o, o = run[p], NEW r, r = run'[p]
  PROVE  KeepLocalCopyEffect(o, r)
<1>1. o \in Run /\ \A m : Becomes(p, m) => r = m
  BY DEF Control, TypeOK, Becomes
<1>2. PICK errors : errors = (o.errors \/ (~job.keep_local /\ job.local /\ Local \in o.stored))
  OBVIOUS
<1>3. r = [o EXCEPT !.pc = "record", !.errors = errors]
  BY <1>1, <1>2 DEF KeepLocalCopy
<1>4. Only(r, o, {"pc", "errors"}) /\ r.pc = "record" /\ r.errors = errors
  BY <1>1, <1>3 DEF Only, Fields, Run
<1>5. /\ o.pc = "drop"
      /\ ~(~job.keep_local /\ job.local /\ Local \in o.stored /\ OffsiteOf(o) # {})
      /\ UNCHANGED <<job, clock, last, breaks, archive, manifest, markers, stored, due,
                     good, pruned>>
  BY DEF KeepLocalCopy, DropsLocal, Offsite, OffsiteOf, At, env, places, history
<1> QED
  BY <1>2, <1>4, <1>5 DEF KeepLocalCopyEffect

BeginEffect(o, r) ==
  /\ Only(r, o, {"pc", "sid"})
  /\ o.pc = "idle" /\ r.pc = "produce" /\ r.sid = clock + 1 /\ clock' = clock + 1
  /\ clock < MaxRuns
  /\ UNCHANGED <<job, last, breaks, archive, manifest, markers, stored, due, good, pruned>>

LEMMA BeginDoes ==
  ASSUME Control, NEW p \in Procs, Begin(p), NEW o, o = run[p], NEW r, r = run'[p]
  PROVE  BeginEffect(o, r)
<1>1. o \in Run /\ \A m : Becomes(p, m) => r = m
  BY DEF Control, TypeOK, Becomes
<1>2. PICK t : t = clock + 1
  OBVIOUS
<1>3. r = [o EXCEPT !.pc = "produce", !.sid = t]
  BY <1>1, <1>2 DEF Begin
<1>4. Only(r, o, {"pc", "sid"}) /\ r.pc = "produce" /\ r.sid = t
  BY <1>1, <1>3 DEF Only, Fields, Run
<1>5. /\ o.pc = "idle" /\ clock' = clock + 1 /\ clock < MaxRuns
      /\ UNCHANGED <<job, last, breaks, archive, manifest, markers, stored, due, good, pruned>>
  BY DEF Begin, At, places, history
<1> QED
  BY <1>2, <1>4, <1>5 DEF BeginEffect

Ends(p) == AbortRun(p) \/ Record(p) \/ Kill(p) \/ AbortStoredRun(p)

EndsEffect(o, r) ==
  /\ r = Idle /\ o.pc # "idle" /\ breaks <= breaks'
  /\ o.pc = "track" => breaks' # 0
  /\ o.pc \notin {"produce", "record"} => breaks' # 0
  /\ UNCHANGED <<job, clock, archive, manifest, markers, stored, due, good, pruned>>

LEMMA EndsDoes ==
  ASSUME Control, NEW p \in Procs, Ends(p), NEW o, o = run[p], NEW r, r = run'[p]
  PROVE  EndsEffect(o, r)
<1>1. r = Idle
  BY DEF Control, TypeOK, Becomes, Ends, AbortRun, Record, Kill, AbortStoredRun
<1>2. breaks \in Nat
  BY BackupAssumption DEF Control, TypeOK
<1>3. breaks' = breaks \/ breaks' = breaks + 1
  BY DEF Ends, AbortRun, Record, Kill, AbortStoredRun, RecordState
<1>4. o.pc # "idle" /\ (o.pc \notin {"produce", "record"} => breaks' = breaks + 1)
  BY DEF Ends, AbortRun, Record, Kill, AbortStoredRun, At, Uploaded
<1>5. UNCHANGED <<job, clock, archive, manifest, markers, stored, due, good, pruned>>
  BY DEF Ends, AbortRun, Record, Kill, AbortStoredRun, places, history
<1> QED
  BY <1>1, <1>2, <1>3, <1>4, <1>5 DEF EndsEffect

\* The other runs stay as they are, whatever step p takes.
LEMMA OthersStay ==
  ASSUME Control, NEW p \in Procs, Begin(p) \/ Step(p) \/ Kill(p) \/ AbortStoredRun(p)
  PROVE  \A q \in Procs \ {p} : run'[q] = run[q]
<1>1. \E m : Becomes(p, m)
  BY DEF Begin, Step, Kill, AbortStoredRun, Produce, AbortRun, Connect, PutArchive, ArchivePutFails,
         PutSidecar, SidecarPutFails, FallBack, Delivered, MarkPending, CatchUp, ForgetPending,
         ShipPending, StaysPending, Shipped, ClearArchive, ClearManifest, CaughtUp,
         SelectSnapshots, ListingFails, PruneSnapshot, DeleteKey, DeletionFails, PlacePruned,
         RetentionDone, DropLocalArchive, DropLocalManifest, KeepLocalCopy, Record
<1> QED
  BY <1>1 DEF Becomes, Control, TypeOK

-----------------------------------------------------------------------------
(* What is listed has its archive *)

\* Between the two puts of a snapshot its archive is there already; between
\* the deletions its manifest is gone, or next.
Ordered(r) ==
  /\ r.pc = "sidecar" => archive[r.at][r.item] # "absent"
  /\ r.pc = "delete" /\ manifest[r.at][r.item] # "absent" => "manifest" \in r.keys

ListingOrder == ListedHasArchive /\ \A p \in Procs : Ordered(run[p])

\* The steps that leave the archives and manifests alone and begin no put and
\* no deletion.
Quiet(p) ==
  \/ Produce(p) \/ Connect(p) \/ FallBack(p) \/ Delivered(p)
  \/ MarkPending(p) \/ CatchUp(p) \/ ForgetPending(p) \/ ShipPending(p)
  \/ StaysPending(p) \/ Shipped(p) \/ CaughtUp(p)
  \/ \E d \in Places : SelectSnapshots(p, d) \/ ListingFails(p, d)
  \/ DeletionFails(p) \/ PlacePruned(p) \/ RetentionDone(p) \/ KeepLocalCopy(p)

LEMMA QuietDoes ==
  ASSUME Control, NEW p \in Procs, Quiet(p)
  PROVE  UNCHANGED <<archive, manifest>> /\ run'[p].pc \notin {"sidecar", "delete"}
<1> PICK o : o = run[p]
  OBVIOUS
<1> PICK r : r = run'[p]
  OBVIOUS
<1>1. CASE Produce(p) \/ Connect(p)
  BY <1>1, ProduceDoes, ConnectDoes DEF ProduceEffect, ConnectEffect
<1>2. CASE FallBack(p)
  BY <1>2, FallBackDoes DEF Only, Fields, FallBackEffect
<1>3. CASE Delivered(p) \/ MarkPending(p) \/ CatchUp(p) \/ ShipPending(p)
  BY <1>3, DeliveredDoes, MarkPendingDoes, CatchUpDoes, ShipPendingDoes DEF DeliveredEffect,
     MarkPendingEffect, CatchUpEffect, ShipPendingEffect
<1>4. CASE ForgetPending(p)
  BY <1>4, ForgetPendingDoes DEF Only, Fields, ForgetPendingEffect
<1>5. CASE StaysPending(p) \/ Shipped(p) \/ CaughtUp(p)
  BY <1>5, StaysPendingDoes, ShippedDoes, CaughtUpDoes DEF StaysPendingEffect, ShippedEffect,
     CaughtUpEffect
<1>6. ASSUME NEW d \in Places, SelectSnapshots(p, d) \/ ListingFails(p, d)
      PROVE  UNCHANGED <<archive, manifest>> /\ r.pc \notin {"sidecar", "delete"}
  BY <1>6, SelectSnapshotsDoes, ListingFailsDoes DEF Only, Fields, SelectSnapshotsEffect,
     ListingFailsEffect
<1>7. CASE DeletionFails(p) \/ PlacePruned(p) \/ RetentionDone(p) \/ KeepLocalCopy(p)
  BY <1>7, DeletionFailsDoes, PlacePrunedDoes, RetentionDoneDoes, KeepLocalCopyDoes DEF
     DeletionFailsEffect, PlacePrunedEffect, RetentionDoneEffect, KeepLocalCopyEffect
<1> QED
  BY <1>1, <1>2, <1>3, <1>4, <1>5, <1>6, <1>7 DEF Quiet

\* The steps that delete in the data dir outside retention.
Clears(p) == ClearArchive(p) \/ ClearManifest(p) \/ DropLocalArchive(p) \/ DropLocalManifest(p)

LEMMA ClearsDoes ==
  ASSUME Control, NEW p \in Procs, Clears(p), NEW o, o = run[p]
  PROVE  /\ run'[p].pc \notin {"sidecar", "delete"}
         /\ \E s \in {o.item, o.sid} :
              \/ Sets(archive, archive', Local, s, "absent") /\ manifest' = manifest
              \/ Sets(manifest, manifest', Local, s, "absent") /\ archive' = archive
<1> PICK r : r = run'[p]
  OBVIOUS
<1>1. CASE ClearArchive(p)
  BY <1>1, ClearArchiveDoes DEF ClearArchiveEffect
<1>2. CASE ClearManifest(p)
  BY <1>2, ClearManifestDoes DEF ClearManifestEffect
<1>3. CASE DropLocalArchive(p)
  BY <1>3, DropLocalArchiveDoes DEF DropLocalArchiveEffect
<1>4. CASE DropLocalManifest(p)
  BY <1>4, DropLocalManifestDoes DEF DropLocalManifestEffect
<1> QED
  BY <1>1, <1>2, <1>3, <1>4 DEF Clears

LEMMA ListingByStep ==
  ASSUME Sequential, Control, ListingOrder, NEW p \in Procs, Step(p)
  PROVE  ListingOrder'
<1> PICK o : o = run[p]
  OBVIOUS
<1> PICK r : r = run'[p]
  OBVIOUS
<1> USE BackupAssumption
<1>a. o \in Run /\ Shape(o) /\ Ordered(o)
  BY DEF Control, TypeOK, ListingOrder
<1>b. /\ archive \in [Places -> [Sids -> Condition]] /\ manifest \in [Places -> [Sids -> Condition]]
      /\ \A d \in S3 : d \in Places /\ d # Local
  BY DEF Control, TypeOK, Places
<1>c. \A d \in S3, s \in Sids : manifest[d][s] # "absent" => archive[d][s] # "absent"
  BY DEF ListingOrder, ListedHasArchive, Listed
<1> DEFINE Good == \A d \in S3, s \in Sids : manifest'[d][s] # "absent" => archive'[d][s] # "absent"
<1>d. Good /\ Ordered(r)' => ListingOrder'
  <2>1. \A q \in Procs : q = p
    BY DEF Sequential
  <2> QED
    BY <2>1 DEF ListingOrder, ListedHasArchive, Listed, Ordered
<1>1. CASE Quiet(p)
  BY <1>1, <1>c, <1>d, QuietDoes DEF Ordered
<1>2. CASE Ends(p)
  BY <1>2, <1>c, <1>d, EndsDoes DEF Ordered, Idle, EndsEffect
<1>3. CASE Clears(p)
  <2>1. r.pc \notin {"sidecar", "delete"}
        /\ \E s \in {o.item, o.sid} :
             \/ Sets(archive, archive', Local, s, "absent") /\ manifest' = manifest
             \/ Sets(manifest, manifest', Local, s, "absent") /\ archive' = archive
    BY <1>3, ClearsDoes
  <2>2. \A d \in S3, s \in Sids : archive'[d][s] = archive[d][s] /\ manifest'[d][s] = manifest[d][s]
    BY <2>1, <1>b DEF Sets
  <2> QED
    BY <2>1, <2>2, <1>c, <1>d DEF Ordered
<1>4. ASSUME NEW d \in Places, PutArchive(p, d)
      PROVE  ListingOrder'
  <2>0. o.pc = "archive" /\ Only(r, o, {"pc", "at"})
    BY <1>4, PutArchiveDoes DEF PutArchiveEffect
  <2>1. o.item \in Sids /\ r.item = o.item
    BY <1>a, <2>0 DEF Shape, InUpload, Only, Fields
  <2>2. \A e \in Places, t \in Sids :
          archive'[e][t] = IF e = d /\ t = o.item THEN ArchiveSource(p) ELSE archive[e][t]
    <3>1. Sets(archive, archive', d, o.item, ArchiveSource(p))
      BY <1>4, PutArchiveDoes DEF PutArchiveEffect
    <3> QED
      BY <3>1 DEF Sets
  <2>3. manifest' = manifest /\ ArchiveSource(p) # "absent" /\ r.pc = "sidecar" /\ r.at = d
    BY <1>4, PutArchiveDoes DEF PutArchiveEffect
  <2> QED
    BY <2>1, <2>2, <2>3, <1>b, <1>c, <1>d DEF Ordered
<1>5. ASSUME NEW d \in Places, ArchivePutFails(p, d)
      PROVE  ListingOrder'
  <2>0. o.pc = "archive" /\ Only(r, o, {"queue", "errors"}) /\ manifest' = manifest
    BY <1>5, ArchivePutFailsDoes DEF ArchivePutFailsEffect
  <2>1. o.item \in Sids /\ r.pc = "archive"
    BY <1>a, <2>0 DEF Shape, InUpload, Only, Fields
  <2>2. \A e \in Places, t \in Sids : archive[e][t] # "absent" => archive'[e][t] # "absent"
    <3>1. FailedPut(archive, archive', d, o.item, ArchiveSource(p), ArchiveLeft)
      BY <1>5, ArchivePutFailsDoes DEF ArchivePutFailsEffect
    <3>2. "absent" \notin ArchiveLeft
      OBVIOUS
    <3> QED
      BY <3>1, <3>2 DEF FailedPut, Sets
  <2> QED
    BY <2>0, <2>1, <2>2, <1>b, <1>c, <1>d DEF Ordered
<1>6. CASE PutSidecar(p)
  <2>1. /\ o.item \in Sids /\ o.at \in Places /\ archive[o.at][o.item] # "absent"
        /\ r.pc = "archive" /\ archive' = archive
    BY <1>6, <1>a, PutSidecarDoes DEF Shape, InUpload, Ordered, Run, PutSidecarEffect
  <2>2. Sets(manifest, manifest', o.at, o.item, ManifestSource(p))
    BY <1>6, PutSidecarDoes DEF PutSidecarEffect
  <2>3. \A e \in Places, t \in Sids :
          manifest'[e][t] = IF e = o.at /\ t = o.item THEN ManifestSource(p) ELSE manifest[e][t]
    BY <2>2 DEF Sets
  <2> QED
    BY <2>1, <2>3, <1>b, <1>c, <1>d DEF Ordered
<1>7. CASE SidecarPutFails(p)
  <2>1. /\ o.item \in Sids /\ o.at \in Places /\ archive[o.at][o.item] # "absent"
        /\ r.pc = "archive" /\ archive' = archive
    BY <1>7, <1>a, SidecarPutFailsDoes DEF Shape, InUpload, Ordered, Run, SidecarPutFailsEffect
  <2>2. \A e \in Places, t \in Sids : manifest'[e][t] = manifest[e][t] \/ (e = o.at /\ t = o.item)
    <3>1. FailedPut(manifest, manifest', o.at, o.item, ManifestSource(p), ManifestLeft)
      BY <1>7, SidecarPutFailsDoes DEF SidecarPutFailsEffect
    <3> QED
      BY <3>1 DEF FailedPut, Sets
  <2> QED
    BY <2>1, <2>2, <1>b, <1>c, <1>d DEF Ordered
<1>8. ASSUME NEW s \in Sids, PruneSnapshot(p, s)
      PROVE  ListingOrder'
  <2>1. /\ r.item = s /\ r.at = o.at /\ r.keys = Keys(o.at, s) /\ r.pc # "sidecar"
        /\ UNCHANGED <<archive, manifest>>
    BY <1>8, PruneSnapshotDoes DEF Only, Fields, PruneSnapshotEffect
  <2>2. manifest[o.at][s] # "absent" => "manifest" \in r.keys
    BY <2>1 DEF Keys
  <2> QED
    BY <2>1, <2>2, <1>c, <1>d DEF Ordered
<1>9. CASE DeleteKey(p)
  <2> PICK k : k = FirstKey(o.keys)
    OBVIOUS
  <2>0. /\ Only(r, o, {"pc", "keys"})
        /\ o.pc = "delete" /\ r.pc \in {"prune", "delete"} /\ r.keys = o.keys \ {k}
        /\ IF k = "manifest" THEN Sets(manifest, manifest', o.at, o.item, "absent")
                             ELSE manifest' = manifest
        /\ IF k = "archive" THEN Sets(archive, archive', o.at, o.item, "absent")
                            ELSE archive' = archive
    BY <1>9, DeleteKeyDoes DEF DeleteKeyEffect
  <2>1. /\ r.item = o.item /\ r.at = o.at /\ r.pc # "sidecar"
        /\ o.at \in Places /\ o.item \in Sids
    BY <2>0, <1>a DEF Only, Fields, Run, Shape
  <2>2. CASE k = "manifest"
    <3>1. archive' = archive /\ \A e \in Places, t \in Sids :
            manifest'[e][t] = IF e = o.at /\ t = o.item THEN "absent" ELSE manifest[e][t]
      BY <2>0, <2>2 DEF Sets
    <3> QED
      BY <2>0, <2>1, <3>1, <1>b, <1>c, <1>d DEF Ordered
  <2>3. CASE k # "manifest"
    <3>1. "manifest" \notin o.keys
      BY <2>3 DEF FirstKey
    <3>2. manifest' = manifest /\ manifest[o.at][o.item] = "absent"
      BY <2>0, <2>3, <3>1, <1>a DEF Ordered
    <3>3. \A e \in Places, t \in Sids : archive'[e][t] = archive[e][t] \/ (e = o.at /\ t = o.item)
      <4>1. CASE k = "archive"
        BY <2>0, <4>1 DEF Sets
      <4>2. CASE k # "archive"
        BY <2>0, <4>2
      <4> QED
        BY <4>1, <4>2
    <3> QED
      BY <2>0, <2>1, <3>2, <3>3, <1>b, <1>c, <1>d DEF Ordered
  <2> QED
    BY <2>2, <2>3
<1> QED
  BY <1>1, <1>2, <1>3, <1>4, <1>5, <1>6, <1>7, <1>8, <1>9 DEF Step, Quiet, Ends, Clears

LEMMA ListingStep ==
  ASSUME Sequential, Control, ListingOrder, [Next]_vars
  PROVE  ListingOrder'
<1>1. ASSUME NEW p \in Procs, Begin(p)
      PROVE  ListingOrder'
  <2> PICK r : r = run'[p]
    OBVIOUS
  <2>1. r.pc = "produce" /\ UNCHANGED <<archive, manifest>>
    BY <1>1, BeginDoes DEF BeginEffect
  <2>2. \A q \in Procs : q = p
    BY DEF Sequential
  <2> QED
    BY <2>1, <2>2 DEF ListingOrder, ListedHasArchive, Listed, Ordered
<1>2. ASSUME NEW p \in Procs, Kill(p) \/ AbortStoredRun(p)
      PROVE  ListingOrder'
  <2>1. run'[p] = Idle /\ UNCHANGED <<archive, manifest>>
    BY <1>2, EndsDoes DEF Ends, EndsEffect
  <2>2. \A q \in Procs : q = p
    BY DEF Sequential
  <2> QED
    BY <2>1, <2>2 DEF ListingOrder, ListedHasArchive, Listed, Ordered, Idle
<1>3. CASE Reconfigure \/ UNCHANGED vars
  BY <1>3 DEF Reconfigure, vars, places, ListingOrder, ListedHasArchive, Listed, Ordered
<1> QED
  BY <1>1, <1>2, <1>3, ListingByStep DEF Next

LEMMA ListingInit == Init => ListingOrder
BY DEF Init, ListingOrder, ListedHasArchive, Listed, Ordered, Idle, Places

(***************************************************************************)
(* With one process, what an S3 place lists it also holds, whatever a      *)
(* failed put leaves and wherever the run is killed.                       *)
(***************************************************************************)
THEOREM ListedIsHeld ==
  ASSUME Sequential
  PROVE  Spec => []ListedHasArchive
<1>1. Init => Control /\ ListingOrder
  BY ControlInit, ListingInit
<1>2. Control /\ ListingOrder /\ [Next]_vars => (Control /\ ListingOrder)'
  BY ControlStep, ListingStep
<1>3. Control /\ ListingOrder => ListedHasArchive
  BY DEF ListingOrder
<1> QED
  BY <1>1, <1>2, <1>3, PTL DEF Spec

(***************************************************************************)
(* The invariant behind StoredIsKept holds of every behaviour, however     *)
(* many runs overlap.                                                      *)
(***************************************************************************)
THEOREM DeletionIsSafe == Spec => []SafeDeletion
<1>1. Init => Control /\ Holds
  BY ControlInit, HoldsInit
<1>2. Init => SafeDeletion
  BY <1>1 DEF SafeDeletion
<1>3. Control /\ Holds /\ Safe /\ [Next]_vars => (Control /\ Holds)'
  BY ControlStep, HoldsStep
<1>4. (Sequential \/ NothingTorn)' = (Sequential \/ NothingTorn)
  BY DEF Sequential, NothingTorn
<1>5. SafeDeletion /\ [Next]_vars => SafeDeletion'
  BY <1>3, <1>4 DEF SafeDeletion, Safe
<1> QED
  BY <1>2, <1>5, PTL DEF Spec

-----------------------------------------------------------------------------
(* What a run that reports success has done *)

After(r) == r.pc \in {"track", "retain", "prune", "delete", "drop", "drop manifest", "record"}
            \/ CatchingUp(r)

Retained(r) == r.pc \in {"retain", "prune", "delete", "drop", "drop manifest", "record"}

\* A run without an error has left no place and no pending snapshot out so far.
Flawless(r) ==
  ~r.errors =>
  /\ Undelivered(r) /\ InUpload(r) =>
       r.phase = "deliver" /\ r.dests = Wanted /\ r.queue \cup r.got = Wanted
  /\ After(r) => r.stored = Wanted
  /\ r.pc = "ship" \/ Clearing(r) => markers \subseteq r.todo
  /\ Shipping(r) => markers \subseteq r.todo \cup {r.item}
  /\ Retained(r) /\ job.s3 # {} => markers = {}

\* The local copy the job does not keep.
Dropped(r, d) ==
  /\ d = Local /\ r.pc \in {"drop manifest", "record"}
  /\ ~KeepsLocal(job) /\ OffsiteOf(r) # {}

\* The snapshot of the run is the newest, so that no policy selects it, ...
Newest(r) ==
  /\ r.pc # "idle" => r.sid = clock /\ r.sid \notin pruned \cup r.plan
  /\ \A s \in r.plan : s <= clock
  /\ r.pc = "delete" \/ Clearing(r) => r.item # r.sid

\* ... and stays where it was stored.
Kept(r) ==
  /\ After(r) => \A d \in r.stored : Complete(d, r.sid) \/ Dropped(r, d)
  /\ Undelivered(r) /\ InUpload(r) => \A d \in r.got : Complete(d, r.sid)
  /\ r.pc = "sidecar" /\ Undelivered(r) => archive[r.at][r.sid] = "whole"
  /\ r.pc = "drop manifest" => Dropped(r, Local)

NothingLater ==
  /\ \A d \in Places : \A s \in Listed(d) : s <= clock
  /\ \A s \in pruned : s <= clock

SuccessKept == NothingLater /\ \A p \in Procs : Flawless(run[p]) /\ Newest(run[p]) /\ Kept(run[p])

LEMMA NewestIsSpared ==
  ASSUME NEW x \in Nat, NEW sids, \A s \in sids : s \in Nat /\ s <= x, NEW cfg \in RetentionConfig
  PROVE  x \notin SelectPrunable(Snaps(sids), cfg, x)
<1> SUFFICES ASSUME x \in SelectPrunable(Snaps(sids), cfg, x) PROVE FALSE
  OBVIOUS
<1>1. CASE x \in CountPrunable(Snaps(sids), cfg.count)
  <2>1. PICK s \in Snaps(sids) : /\ s.id = x
                                 /\ cfg.count > 0
                                 /\ Cardinality(NewerThan(s, Snaps(sids))) >= cfg.count
    BY <1>1 DEF CountPrunable, Ids
  <2>2. NewerThan(s, Snaps(sids)) = {}
    BY <2>1 DEF NewerThan, Snaps
  <2>3. cfg.count \in Int
    BY DEF RetentionConfig
  <2> QED
    BY <2>1, <2>2, <2>3, FS_EmptySet
<1>2. CASE x \in AgePrunable(Snaps(sids), cfg.age_days, x)
  <2>1. PICK s \in Snaps(sids) : /\ s.id = x
                                 /\ cfg.age_days > 0 /\ s.when < x - cfg.age_days * DayLen
    BY <1>2 DEF AgePrunable, Ids
  <2>2. s.when = x
    BY <2>1 DEF Snaps
  <2>3. PICK a : a = cfg.age_days * DayLen
    OBVIOUS
  <2>4. a \in Nat
    BY <2>3, CalendarAssumption DEF RetentionConfig
  <2> QED
    BY <2>1, <2>2, <2>3, <2>4
<1> QED
  BY <1>1, <1>2 DEF SelectPrunable

\* Once the snapshot is delivered, a step has only to spare its copies.
LEMMA KeptStays ==
  ASSUME NEW o, NEW r, Kept(o), After(o), After(r), r.sid = o.sid, r.stored = o.stored,
         \A d \in o.stored : Complete(d, o.sid) => Complete(d, o.sid)' \/ Dropped(r, d)',
         \A d \in o.stored : Dropped(o, d) => Dropped(r, d)',
         r.pc = "drop manifest" => Dropped(r, Local)'
  PROVE  Kept(r)'
<1>1. ~Undelivered(r)
  BY DEF After, CatchingUp, Shipping, InUpload, Undelivered, Clearing
<1> QED
  BY <1>1 DEF Kept

LEMMA ErasesOnly ==
  ASSUME NEW f, NEW g, NEW d, NEW s, g = f \/ Sets(f, g, d, s, "absent")
  PROVE  /\ \A e \in Places, t \in Sids : g[e][t] # "absent" => f[e][t] # "absent"
         /\ \A e \in Places, t \in Sids : e # d \/ t # s => g[e][t] = f[e][t]
BY DEF Sets

LEMMA SuccessAdvances ==
  ASSUME Sequential, Control, Control', SuccessKept, NEW p \in Procs,
         NEW r, r = run'[p], NothingLater', Flawless(r)', Newest(r)', Kept(r)'
  PROVE  SuccessKept'
BY DEF Sequential, SuccessKept

LEMMA SuccessEnds ==
  ASSUME Sequential, Control, Control', SuccessKept, NEW p \in Procs,
         NEW o, NEW r, r = run'[p], EndsEffect(o, r)
  PROVE  SuccessKept'
<1>1. NothingLater'
  BY DEF EndsEffect, SuccessKept, NothingLater, Listed
<1>2. r.pc = "idle" /\ r.plan = {}
  BY DEF EndsEffect, Idle
<1>3. Flawless(r)' /\ Newest(r)' /\ Kept(r)'
  BY <1>2 DEF Flawless, Newest, Kept, After, Retained, CatchingUp, InUpload, Shipping, Undelivered,
     Clearing
<1> QED
  BY <1>1, <1>3, SuccessAdvances

LEMMA SuccessByStep ==
  ASSUME Sequential, Control, Control', SuccessKept, NEW p \in Procs, Step(p)
  PROVE  SuccessKept'
<1> PICK o : o = run[p]
  OBVIOUS
<1> PICK r : r = run'[p]
  OBVIOUS
<1>a. /\ o \in Run /\ Shape(o) /\ Tracks(o, stored, markers, clock)
      /\ r \in Run /\ Shape(r) /\ clock \in Nat
      /\ NothingLater /\ Flawless(o) /\ Newest(o) /\ Kept(o)
  BY BackupAssumption DEF Control, TypeOK, SuccessKept
<1>b. /\ Local \notin S3 /\ job.s3 \subseteq S3 /\ Local \in Places
      /\ o.queue \subseteq Places /\ o.got \subseteq Places /\ o.stored \subseteq Places /\ o.at \in Places
  BY BackupAssumption DEF Control, TypeOK, Job, Run, Places
<1>c. \A s \in stored : s \in Sids /\ s <= clock
  BY DEF Control, TypeOK
<1>d. NothingLater' /\ Flawless(r)' /\ Newest(r)' /\ Kept(r)' => SuccessKept'
  BY SuccessAdvances
<1> HIDE DEF SuccessKept
<1>1. CASE Produce(p)
  <2>0. ProduceEffect(o, r)
    BY <1>1, ProduceDoes
  <2>1. r.sid = o.sid /\ r.dests = o.dests /\ r.stored = o.stored /\ r.phase = o.phase /\ r.item
             = o.item /\ r.at = o.at /\ r.queue = o.queue /\ r.got = o.got /\ r.todo = o.todo /\
             r.plan = o.plan
    BY <2>0 DEF ProduceEffect, Only, Fields
  <2>2. NothingLater'
    BY <2>0, <2>1, <1>a, <1>b, <1>c DEF ProduceEffect, NothingLater, Listed
  <2>3. Flawless(r)'
    BY <2>0, <2>1, <1>a, <1>b, <1>c DEF ProduceEffect, Flawless, Wanted, After, Retained,
         CatchingUp, InUpload, Shipping, Undelivered, Clearing
  <2>4. Newest(r)'
    BY <2>0, <2>1, <1>a, <1>b, <1>c DEF ProduceEffect, Newest, After, Retained, CatchingUp,
         InUpload, Shipping, Undelivered, Clearing
  <2>5. Kept(r)'
    BY <2>0, <2>1, <1>a, <1>b, <1>c DEF ProduceEffect, Kept, Complete, Dropped, KeepsLocal,
         OffsiteOf, After, Retained, CatchingUp, InUpload, Shipping, Undelivered, Clearing
  <2> QED
    BY <2>2, <2>3, <2>4, <2>5, <1>d
<1>2. CASE Connect(p)
  <2>0. ConnectEffect(o, r)
    BY <1>2, ConnectDoes
  <2>1. r.sid = o.sid /\ r.stored = o.stored /\ r.at = o.at /\ r.todo = o.todo /\ r.plan =
             o.plan
    BY <2>0 DEF ConnectEffect, Only, Fields
  <2>2. NothingLater'
    BY <2>0, <2>1, <1>a, <1>b, <1>c DEF ConnectEffect, NothingLater, Listed
  <2>3. Flawless(r)'
    BY <2>0, <2>1, <1>a, <1>b, <1>c DEF ConnectEffect, Flawless, Wanted, After, Retained,
         CatchingUp, InUpload, Shipping, Undelivered, Clearing
  <2>4. Newest(r)'
    BY <2>0, <2>1, <1>a, <1>b, <1>c DEF ConnectEffect, Newest, After, Retained, CatchingUp,
         InUpload, Shipping, Undelivered, Clearing
  <2>5. Kept(r)'
    BY <2>0, <2>1, <1>a, <1>b, <1>c DEF ConnectEffect, Kept, Complete, Dropped, KeepsLocal,
         OffsiteOf, After, Retained, CatchingUp, InUpload, Shipping, Undelivered, Clearing
  <2> QED
    BY <2>2, <2>3, <2>4, <2>5, <1>d
<1>3. CASE FallBack(p)
  <2>0. FallBackEffect(o, r)
    BY <1>3, FallBackDoes
  <2>1. r.pc = o.pc /\ r.sid = o.sid /\ r.errors = o.errors /\ r.dests = o.dests /\ r.stored =
             o.stored /\ r.item = o.item /\ r.at = o.at /\ r.got = o.got /\ r.todo = o.todo /\
             r.plan = o.plan
    BY <2>0 DEF FallBackEffect, Only, Fields
  <2>2. NothingLater'
    BY <2>0, <2>1, <1>a, <1>b, <1>c DEF FallBackEffect, NothingLater, Listed
  <2>3. Flawless(r)'
    BY <2>0, <2>1, <1>a, <1>b, <1>c DEF FallBackEffect, Flawless, Wanted, After, Retained,
         CatchingUp, InUpload, Shipping, Undelivered, Clearing
  <2>4. Newest(r)'
    BY <2>0, <2>1, <1>a, <1>b, <1>c DEF FallBackEffect, Newest, After, Retained, CatchingUp,
         InUpload, Shipping, Undelivered, Clearing
  <2>5. Kept(r)'
    BY <2>0, <2>1, <1>a, <1>b, <1>c DEF FallBackEffect, Kept, Complete, Dropped, KeepsLocal,
         OffsiteOf, After, Retained, CatchingUp, InUpload, Shipping, Undelivered, Clearing
  <2> QED
    BY <2>2, <2>3, <2>4, <2>5, <1>d
<1>4. CASE Delivered(p)
  <2>0. DeliveredEffect(o, r)
    BY <1>4, DeliveredDoes
  <2>1. r.sid = o.sid /\ r.errors = o.errors /\ r.dests = o.dests /\ r.phase = o.phase /\ r.at =
             o.at /\ r.queue = o.queue /\ r.todo = o.todo /\ r.plan = o.plan
    BY <2>0 DEF DeliveredEffect, Only, Fields
  <2>2. NothingLater'
    BY <2>0, <2>1, <1>a, <1>b, <1>c DEF DeliveredEffect, NothingLater, Listed
  <2>3. Flawless(r)'
    BY <2>0, <2>1, <1>a, <1>b, <1>c DEF DeliveredEffect, Flawless, Wanted, After, Retained,
         CatchingUp, InUpload, Shipping, Undelivered, Clearing
  <2>4. Newest(r)'
    BY <2>0, <2>1, <1>a, <1>b, <1>c DEF DeliveredEffect, Newest, After, Retained, CatchingUp,
         InUpload, Shipping, Undelivered, Clearing
  <2>5. Kept(r)'
    BY <2>0, <2>1, <1>a, <1>b, <1>c DEF DeliveredEffect, Kept, Complete, Dropped, KeepsLocal,
         OffsiteOf, After, Retained, CatchingUp, InUpload, Shipping, Undelivered, Clearing
  <2> QED
    BY <2>2, <2>3, <2>4, <2>5, <1>d
<1>5. CASE MarkPending(p)
  <2>0. MarkPendingEffect(o, r)
    BY <1>5, MarkPendingDoes
  <2>1. r.sid = o.sid /\ r.errors = o.errors /\ r.dests = o.dests /\ r.stored = o.stored /\
             r.phase = o.phase /\ r.item = o.item /\ r.at = o.at /\ r.got = o.got /\ r.todo =
             o.todo /\ r.plan = o.plan
    BY <2>0 DEF MarkPendingEffect, Only, Fields
  <2>2. NothingLater'
    BY <2>0, <2>1, <1>a, <1>b, <1>c DEF MarkPendingEffect, NothingLater, Listed
  <2>3. Flawless(r)'
    BY <2>0, <2>1, <1>a, <1>b, <1>c DEF MarkPendingEffect, OffsiteOf, Flawless, Wanted, After,
         Retained, CatchingUp, InUpload, Shipping, Undelivered, Clearing
  <2>4. Newest(r)'
    BY <2>0, <2>1, <1>a, <1>b, <1>c DEF MarkPendingEffect, Newest, After, Retained, CatchingUp,
         InUpload, Shipping, Undelivered, Clearing
  <2>5. Kept(r)'
    BY <2>0, <2>1, <1>a, <1>b, <1>c DEF MarkPendingEffect, Kept, Complete, Dropped, KeepsLocal,
         OffsiteOf, After, Retained, CatchingUp, InUpload, Shipping, Undelivered, Clearing
  <2> QED
    BY <2>2, <2>3, <2>4, <2>5, <1>d
<1>6. CASE CatchUp(p)
  <2>0. CatchUpEffect(o, r)
    BY <1>6, CatchUpDoes
  <2>1. r.sid = o.sid /\ r.errors = o.errors /\ r.dests = o.dests /\ r.stored = o.stored /\
             r.phase = o.phase /\ r.item = o.item /\ r.at = o.at /\ r.queue = o.queue /\ r.got =
             o.got /\ r.plan = o.plan
    BY <2>0 DEF CatchUpEffect, Only, Fields
  <2>2. NothingLater'
    BY <2>0, <2>1, <1>a, <1>b, <1>c DEF CatchUpEffect, NothingLater, Listed
  <2>3. Flawless(r)'
    BY <2>0, <2>1, <1>a, <1>b, <1>c DEF CatchUpEffect, Flawless, Wanted, After, Retained,
         CatchingUp, InUpload, Shipping, Undelivered, Clearing
  <2>4. Newest(r)'
    BY <2>0, <2>1, <1>a, <1>b, <1>c DEF CatchUpEffect, Newest, After, Retained, CatchingUp,
         InUpload, Shipping, Undelivered, Clearing
  <2>5. Kept(r)'
    BY <2>0, <2>1, <1>a, <1>b, <1>c DEF CatchUpEffect, Kept, Complete, Dropped, KeepsLocal,
         OffsiteOf, After, Retained, CatchingUp, InUpload, Shipping, Undelivered, Clearing
  <2> QED
    BY <2>2, <2>3, <2>4, <2>5, <1>d
<1>7. CASE ForgetPending(p)
  <2>0. ForgetPendingEffect(o, r)
    BY <1>7, ForgetPendingDoes
  <2>1. r.pc = o.pc /\ r.sid = o.sid /\ r.errors = o.errors /\ r.dests = o.dests /\ r.stored =
             o.stored /\ r.phase = o.phase /\ r.item = o.item /\ r.at = o.at /\ r.queue =
             o.queue /\ r.got = o.got /\ r.plan = o.plan
    BY <2>0 DEF ForgetPendingEffect, Only, Fields
  <2>2. NothingLater'
    BY <2>0, <2>1, <1>a, <1>b, <1>c DEF ForgetPendingEffect, NothingLater, Listed
  <2>3. Flawless(r)'
    BY <2>0, <2>1, <1>a, <1>b, <1>c DEF ForgetPendingEffect, Flawless, Wanted, After, Retained,
         CatchingUp, InUpload, Shipping, Undelivered, Clearing
  <2>4. Newest(r)'
    BY <2>0, <2>1, <1>a, <1>b, <1>c DEF ForgetPendingEffect, Newest, After, Retained,
         CatchingUp, InUpload, Shipping, Undelivered, Clearing
  <2>5. Kept(r)'
    BY <2>0, <2>1, <1>a, <1>b, <1>c DEF ForgetPendingEffect, Kept, Complete, Dropped,
         KeepsLocal, OffsiteOf, After, Retained, CatchingUp, InUpload, Shipping, Undelivered,
         Clearing
  <2> QED
    BY <2>2, <2>3, <2>4, <2>5, <1>d
<1>8. CASE ShipPending(p)
  <2>0. ShipPendingEffect(o, r)
    BY <1>8, ShipPendingDoes
  <2>1. r.sid = o.sid /\ r.errors = o.errors /\ r.dests = o.dests /\ r.stored = o.stored /\ r.at
             = o.at /\ r.plan = o.plan
    BY <2>0 DEF ShipPendingEffect, Only, Fields
  <2>2. NothingLater'
    BY <2>0, <2>1, <1>a, <1>b, <1>c DEF ShipPendingEffect, NothingLater, Listed
  <2>3. Flawless(r)'
    BY <2>0, <2>1, <1>a, <1>b, <1>c DEF ShipPendingEffect, Flawless, Wanted, After, Retained,
         CatchingUp, InUpload, Shipping, Undelivered, Clearing
  <2>4. Newest(r)'
    BY <2>0, <2>1, <1>a, <1>b, <1>c DEF ShipPendingEffect, Newest, After, Retained, CatchingUp,
         InUpload, Shipping, Undelivered, Clearing
  <2>5. Kept(r)'
    BY <2>0, <2>1, <1>a, <1>b, <1>c DEF ShipPendingEffect, Kept, Complete, Dropped, KeepsLocal,
         OffsiteOf, After, Retained, CatchingUp, InUpload, Shipping, Undelivered, Clearing
  <2> QED
    BY <2>2, <2>3, <2>4, <2>5, <1>d
<1>9. CASE StaysPending(p)
  <2>0. StaysPendingEffect(o, r)
    BY <1>9, StaysPendingDoes
  <2>1. r.sid = o.sid /\ r.dests = o.dests /\ r.stored = o.stored /\ r.phase = o.phase /\ r.at =
             o.at /\ r.queue = o.queue /\ r.todo = o.todo /\ r.plan = o.plan
    BY <2>0 DEF StaysPendingEffect, Only, Fields
  <2>2. NothingLater'
    BY <2>0, <2>1, <1>a, <1>b, <1>c DEF StaysPendingEffect, NothingLater, Listed
  <2>3. Flawless(r)'
    BY <2>0, <2>1, <1>a, <1>b, <1>c DEF StaysPendingEffect, Flawless, Wanted, After, Retained,
         CatchingUp, InUpload, Shipping, Undelivered, Clearing
  <2>4. Newest(r)'
    BY <2>0, <2>1, <1>a, <1>b, <1>c DEF StaysPendingEffect, Newest, After, Retained, CatchingUp,
         InUpload, Shipping, Undelivered, Clearing
  <2>5. Kept(r)'
    BY <2>0, <2>1, <1>a, <1>b, <1>c DEF StaysPendingEffect, Kept, Complete, Dropped, KeepsLocal,
         OffsiteOf, After, Retained, CatchingUp, InUpload, Shipping, Undelivered, Clearing
  <2> QED
    BY <2>2, <2>3, <2>4, <2>5, <1>d
<1>10. CASE Shipped(p)
  <2>0. ShippedEffect(o, r)
    BY <1>10, ShippedDoes
  <2>1. r.sid = o.sid /\ r.errors = o.errors /\ r.dests = o.dests /\ r.stored = o.stored /\
             r.phase = o.phase /\ r.item = o.item /\ r.at = o.at /\ r.queue = o.queue /\ r.todo
             = o.todo /\ r.plan = o.plan
    BY <2>0 DEF ShippedEffect, Only, Fields
  <2>2. NothingLater'
    BY <2>0, <2>1, <1>a, <1>b, <1>c DEF ShippedEffect, NothingLater, Listed
  <2>3. Flawless(r)'
    BY <2>0, <2>1, <1>a, <1>b, <1>c DEF ShippedEffect, Flawless, Wanted, After, Retained,
         CatchingUp, InUpload, Shipping, Undelivered, Clearing
  <2>4. Newest(r)'
    BY <2>0, <2>1, <1>a, <1>b, <1>c DEF ShippedEffect, Tracks, Newest, After, Retained,
         CatchingUp, InUpload, Shipping, Undelivered, Clearing
  <2>5. Kept(r)'
    <3>1. After(o) /\ After(r) /\ r.sid = o.sid /\ r.stored = o.stored
      BY <2>0, <2>1 DEF ShippedEffect, After, CatchingUp, Shipping, InUpload, Clearing
    <3>2. \A d \in o.stored : Complete(d, o.sid) => Complete(d, o.sid)' \/ Dropped(r, d)'
      BY <2>0 DEF ShippedEffect, Complete
    <3>3. \A d \in o.stored : Dropped(o, d) => Dropped(r, d)'
      BY <2>0, <2>1 DEF ShippedEffect, Dropped, OffsiteOf
    <3>4. r.pc = "drop manifest" => Dropped(r, Local)'
      BY <2>0, <2>1, <1>a DEF ShippedEffect, Kept, Dropped, KeepsLocal, OffsiteOf
    <3> QED
      BY <3>1, <3>2, <3>3, <3>4, <1>a, KeptStays
  <2> QED
    BY <2>2, <2>3, <2>4, <2>5, <1>d
<1>11. CASE CaughtUp(p)
  <2>0. CaughtUpEffect(o, r)
    BY <1>11, CaughtUpDoes
  <2>1. r.sid = o.sid /\ r.errors = o.errors /\ r.dests = o.dests /\ r.stored = o.stored /\
             r.phase = o.phase /\ r.item = o.item /\ r.at = o.at /\ r.got = o.got /\ r.todo =
             o.todo /\ r.plan = o.plan
    BY <2>0 DEF CaughtUpEffect, Only, Fields
  <2>2. NothingLater'
    BY <2>0, <2>1, <1>a, <1>b, <1>c DEF CaughtUpEffect, NothingLater, Listed
  <2>3. Flawless(r)'
    BY <2>0, <2>1, <1>a, <1>b, <1>c DEF CaughtUpEffect, Flawless, Wanted, After, Retained,
         CatchingUp, InUpload, Shipping, Undelivered, Clearing
  <2>4. Newest(r)'
    BY <2>0, <2>1, <1>a, <1>b, <1>c DEF CaughtUpEffect, Newest, After, Retained, CatchingUp,
         InUpload, Shipping, Undelivered, Clearing
  <2>5. Kept(r)'
    BY <2>0, <2>1, <1>a, <1>b, <1>c DEF CaughtUpEffect, Kept, Complete, Dropped, KeepsLocal,
         OffsiteOf, After, Retained, CatchingUp, InUpload, Shipping, Undelivered, Clearing
  <2> QED
    BY <2>2, <2>3, <2>4, <2>5, <1>d
<1>12. CASE DeletionFails(p)
  <2>0. DeletionFailsEffect(o, r)
    BY <1>12, DeletionFailsDoes
  <2>1. r.sid = o.sid /\ r.dests = o.dests /\ r.stored = o.stored /\ r.phase = o.phase /\
             r.queue = o.queue /\ r.got = o.got /\ r.todo = o.todo
    BY <2>0 DEF DeletionFailsEffect, Only, Fields
  <2>2. NothingLater'
    BY <2>0, <2>1, <1>a, <1>b, <1>c DEF DeletionFailsEffect, NothingLater, Listed
  <2>3. Flawless(r)'
    BY <2>0, <2>1, <1>a, <1>b, <1>c DEF DeletionFailsEffect, Flawless, Wanted, After, Retained,
         CatchingUp, InUpload, Shipping, Undelivered, Clearing
  <2>4. Newest(r)'
    BY <2>0, <2>1, <1>a, <1>b, <1>c DEF DeletionFailsEffect, Newest, After, Retained,
         CatchingUp, InUpload, Shipping, Undelivered, Clearing
  <2>5. Kept(r)'
    <3>1. After(o) /\ After(r) /\ r.sid = o.sid /\ r.stored = o.stored
      BY <2>0, <2>1 DEF DeletionFailsEffect, After, CatchingUp, Shipping, InUpload, Clearing
    <3>2. \A d \in o.stored : Complete(d, o.sid) => Complete(d, o.sid)' \/ Dropped(r, d)'
      BY <2>0 DEF DeletionFailsEffect, Complete
    <3>3. \A d \in o.stored : Dropped(o, d) => Dropped(r, d)'
      BY <2>0, <2>1 DEF DeletionFailsEffect, Dropped, OffsiteOf
    <3>4. r.pc = "drop manifest" => Dropped(r, Local)'
      BY <2>0, <2>1, <1>a DEF DeletionFailsEffect, Kept, Dropped, KeepsLocal, OffsiteOf
    <3> QED
      BY <3>1, <3>2, <3>3, <3>4, <1>a, KeptStays
  <2> QED
    BY <2>2, <2>3, <2>4, <2>5, <1>d
<1>13. CASE PlacePruned(p)
  <2>0. PlacePrunedEffect(o, r)
    BY <1>13, PlacePrunedDoes
  <2>1. r.sid = o.sid /\ r.errors = o.errors /\ r.dests = o.dests /\ r.stored = o.stored /\
             r.phase = o.phase /\ r.queue = o.queue /\ r.got = o.got /\ r.todo = o.todo /\
             r.plan = o.plan
    BY <2>0 DEF PlacePrunedEffect, Only, Fields
  <2>2. NothingLater'
    BY <2>0, <2>1, <1>a, <1>b, <1>c DEF PlacePrunedEffect, NothingLater, Listed
  <2>3. Flawless(r)'
    BY <2>0, <2>1, <1>a, <1>b, <1>c DEF PlacePrunedEffect, Flawless, Wanted, After, Retained,
         CatchingUp, InUpload, Shipping, Undelivered, Clearing
  <2>4. Newest(r)'
    BY <2>0, <2>1, <1>a, <1>b, <1>c DEF PlacePrunedEffect, Newest, After, Retained, CatchingUp,
         InUpload, Shipping, Undelivered, Clearing
  <2>5. Kept(r)'
    BY <2>0, <2>1, <1>a, <1>b, <1>c DEF PlacePrunedEffect, Kept, Complete, Dropped, KeepsLocal,
         OffsiteOf, After, Retained, CatchingUp, InUpload, Shipping, Undelivered, Clearing
  <2> QED
    BY <2>2, <2>3, <2>4, <2>5, <1>d
<1>14. CASE RetentionDone(p)
  <2>0. RetentionDoneEffect(o, r)
    BY <1>14, RetentionDoneDoes
  <2>1. r.sid = o.sid /\ r.errors = o.errors /\ r.dests = o.dests /\ r.stored = o.stored /\
             r.phase = o.phase /\ r.item = o.item /\ r.at = o.at /\ r.queue = o.queue /\ r.got =
             o.got /\ r.todo = o.todo /\ r.plan = o.plan
    BY <2>0 DEF RetentionDoneEffect, Only, Fields
  <2>2. NothingLater'
    BY <2>0, <2>1, <1>a, <1>b, <1>c DEF RetentionDoneEffect, NothingLater, Listed
  <2>3. Flawless(r)'
    BY <2>0, <2>1, <1>a, <1>b, <1>c DEF RetentionDoneEffect, Flawless, Wanted, After, Retained,
         CatchingUp, InUpload, Shipping, Undelivered, Clearing
  <2>4. Newest(r)'
    BY <2>0, <2>1, <1>a, <1>b, <1>c DEF RetentionDoneEffect, Newest, After, Retained,
         CatchingUp, InUpload, Shipping, Undelivered, Clearing
  <2>5. Kept(r)'
    BY <2>0, <2>1, <1>a, <1>b, <1>c DEF RetentionDoneEffect, Kept, Complete, Dropped,
         KeepsLocal, OffsiteOf, After, Retained, CatchingUp, InUpload, Shipping, Undelivered,
         Clearing
  <2> QED
    BY <2>2, <2>3, <2>4, <2>5, <1>d
<1>15. CASE KeepLocalCopy(p)
  <2>0. KeepLocalCopyEffect(o, r)
    BY <1>15, KeepLocalCopyDoes
  <2>1. r.sid = o.sid /\ r.dests = o.dests /\ r.stored = o.stored /\ r.phase = o.phase /\ r.item
             = o.item /\ r.at = o.at /\ r.queue = o.queue /\ r.got = o.got /\ r.todo = o.todo /\
             r.plan = o.plan
    BY <2>0 DEF KeepLocalCopyEffect, Only, Fields
  <2>2. NothingLater'
    BY <2>0, <2>1, <1>a, <1>b, <1>c DEF KeepLocalCopyEffect, NothingLater, Listed
  <2>3. Flawless(r)'
    BY <2>0, <2>1, <1>a, <1>b, <1>c DEF KeepLocalCopyEffect, Flawless, Wanted, After, Retained,
         CatchingUp, InUpload, Shipping, Undelivered, Clearing
  <2>4. Newest(r)'
    BY <2>0, <2>1, <1>a, <1>b, <1>c DEF KeepLocalCopyEffect, Newest, After, Retained,
         CatchingUp, InUpload, Shipping, Undelivered, Clearing
  <2>5. Kept(r)'
    BY <2>0, <2>1, <1>a, <1>b, <1>c DEF KeepLocalCopyEffect, Kept, Complete, Dropped,
         KeepsLocal, OffsiteOf, After, Retained, CatchingUp, InUpload, Shipping, Undelivered,
         Clearing
  <2> QED
    BY <2>2, <2>3, <2>4, <2>5, <1>d
<1>16. CASE DropLocalArchive(p)
  <2>0. DropLocalArchiveEffect(o, r)
    BY <1>16, DropLocalArchiveDoes
  <2>1. r.sid = o.sid /\ r.errors = o.errors /\ r.dests = o.dests /\ r.stored = o.stored /\
             r.phase = o.phase /\ r.item = o.item /\ r.at = o.at /\ r.queue = o.queue /\ r.got =
             o.got /\ r.todo = o.todo /\ r.plan = o.plan
    BY <2>0 DEF DropLocalArchiveEffect, Only, Fields
  <2>x. /\ \A d \in Places, s \in Sids : manifest'[d][s] # "absent" => manifest[d][s] # "absent"
        /\ \A d \in Places, s \in Sids : d # Local \/ s # o.sid =>
             archive'[d][s] = archive[d][s] /\ manifest'[d][s] = manifest[d][s]
    <3>1. Sets(archive, archive', Local, o.sid, "absent") /\ manifest' = manifest
      BY <2>0 DEF DropLocalArchiveEffect
    <3> QED
      BY <3>1 DEF Sets
  <2>y. o.sid \in Sids
    BY <2>0, <1>a DEF DropLocalArchiveEffect, Newest, Shape, Clearing
  <2>2. NothingLater'
    BY <2>0, <2>1, <2>x, <1>a, <1>b, <1>c DEF DropLocalArchiveEffect, NothingLater, Listed
  <2>3. Flawless(r)'
    BY <2>0, <2>1, <2>x, <1>a, <1>b, <1>c DEF DropLocalArchiveEffect, Flawless, Wanted, After,
         Retained, CatchingUp, InUpload, Shipping, Undelivered, Clearing
  <2>4. Newest(r)'
    BY <2>0, <2>1, <2>x, <1>a, <1>b, <1>c DEF DropLocalArchiveEffect, Newest, After, Retained,
         CatchingUp, InUpload, Shipping, Undelivered, Clearing
  <2>5. Kept(r)'
    <3>1. After(o) /\ After(r) /\ r.sid = o.sid /\ r.stored = o.stored
      BY <2>0, <2>1 DEF DropLocalArchiveEffect, After, CatchingUp, Shipping, InUpload, Clearing
    <3>2. \A d \in o.stored : Complete(d, o.sid) => Complete(d, o.sid)' \/ Dropped(r, d)'
      <4>1. \A d \in o.stored \ {Local} : Complete(d, o.sid) => Complete(d, o.sid)'
        BY <2>x, <2>y, <1>b DEF Complete
      <4>2. Local \in o.stored => Dropped(r, Local)'
        BY <2>0, <2>1, <1>a DEF DropLocalArchiveEffect, Kept, Dropped, KeepsLocal, OffsiteOf
      <4> QED
        BY <4>1, <4>2
    <3>3. \A d \in o.stored : Dropped(o, d) => Dropped(r, d)'
      BY <2>0, <2>1 DEF DropLocalArchiveEffect, Dropped, OffsiteOf
    <3>4. r.pc = "drop manifest" => Dropped(r, Local)'
      BY <2>0, <2>1, <1>a DEF DropLocalArchiveEffect, Kept, Dropped, KeepsLocal, OffsiteOf
    <3> QED
      BY <3>1, <3>2, <3>3, <3>4, <1>a, KeptStays
  <2> QED
    BY <2>2, <2>3, <2>4, <2>5, <1>d
<1>17. CASE DropLocalManifest(p)
  <2>0. DropLocalManifestEffect(o, r)
    BY <1>17, DropLocalManifestDoes
  <2>1. r.sid = o.sid /\ r.errors = o.errors /\ r.dests = o.dests /\ r.stored = o.stored /\
             r.phase = o.phase /\ r.item = o.item /\ r.at = o.at /\ r.queue = o.queue /\ r.got =
             o.got /\ r.todo = o.todo /\ r.plan = o.plan
    BY <2>0 DEF DropLocalManifestEffect, Only, Fields
  <2>x. /\ \A d \in Places, s \in Sids : manifest'[d][s] # "absent" => manifest[d][s] # "absent"
        /\ \A d \in Places, s \in Sids : d # Local \/ s # o.sid =>
             archive'[d][s] = archive[d][s] /\ manifest'[d][s] = manifest[d][s]
    <3>1. Sets(manifest, manifest', Local, o.sid, "absent") /\ archive' = archive
      BY <2>0 DEF DropLocalManifestEffect
    <3> QED
      BY <3>1 DEF Sets
  <2>y. o.sid \in Sids
    BY <2>0, <1>a DEF DropLocalManifestEffect, Newest, Shape, Clearing
  <2>2. NothingLater'
    BY <2>0, <2>1, <2>x, <1>a, <1>b, <1>c DEF DropLocalManifestEffect, NothingLater, Listed
  <2>3. Flawless(r)'
    BY <2>0, <2>1, <2>x, <1>a, <1>b, <1>c DEF DropLocalManifestEffect, Flawless, Wanted, After,
         Retained, CatchingUp, InUpload, Shipping, Undelivered, Clearing
  <2>4. Newest(r)'
    BY <2>0, <2>1, <2>x, <1>a, <1>b, <1>c DEF DropLocalManifestEffect, Newest, After, Retained,
         CatchingUp, InUpload, Shipping, Undelivered, Clearing
  <2>5. Kept(r)'
    <3>1. After(o) /\ After(r) /\ r.sid = o.sid /\ r.stored = o.stored
      BY <2>0, <2>1 DEF DropLocalManifestEffect, After, CatchingUp, Shipping, InUpload, Clearing
    <3>2. \A d \in o.stored : Complete(d, o.sid) => Complete(d, o.sid)' \/ Dropped(r, d)'
      <4>1. \A d \in o.stored \ {Local} : Complete(d, o.sid) => Complete(d, o.sid)'
        BY <2>x, <2>y, <1>b DEF Complete
      <4>2. Local \in o.stored => Dropped(r, Local)'
        BY <2>0, <2>1, <1>a DEF DropLocalManifestEffect, Kept, Dropped, KeepsLocal, OffsiteOf
      <4> QED
        BY <4>1, <4>2
    <3>3. \A d \in o.stored : Dropped(o, d) => Dropped(r, d)'
      BY <2>0, <2>1 DEF DropLocalManifestEffect, Dropped, OffsiteOf
    <3>4. r.pc = "drop manifest" => Dropped(r, Local)'
      BY <2>0, <2>1, <1>a DEF DropLocalManifestEffect, Kept, Dropped, KeepsLocal, OffsiteOf
    <3> QED
      BY <3>1, <3>2, <3>3, <3>4, <1>a, KeptStays
  <2> QED
    BY <2>2, <2>3, <2>4, <2>5, <1>d
<1>18. CASE ClearArchive(p)
  <2>0. ClearArchiveEffect(o, r)
    BY <1>18, ClearArchiveDoes
  <2>1. r.sid = o.sid /\ r.errors = o.errors /\ r.dests = o.dests /\ r.stored = o.stored /\
             r.phase = o.phase /\ r.item = o.item /\ r.at = o.at /\ r.queue = o.queue /\ r.got =
             o.got /\ r.todo = o.todo /\ r.plan = o.plan
    BY <2>0 DEF ClearArchiveEffect, Only, Fields
  <2>x. /\ \A d \in Places, s \in Sids : manifest'[d][s] # "absent" => manifest[d][s] # "absent"
        /\ \A d \in Places, s \in Sids : d # Local \/ s # o.item =>
             archive'[d][s] = archive[d][s] /\ manifest'[d][s] = manifest[d][s]
    <3>1. Sets(archive, archive', Local, o.item, "absent") /\ manifest' = manifest
      BY <2>0 DEF ClearArchiveEffect
    <3> QED
      BY <3>1 DEF Sets
  <2>y. o.sid \in Sids /\ o.item # o.sid
    BY <2>0, <1>a DEF ClearArchiveEffect, Newest, Shape, Clearing
  <2>2. NothingLater'
    BY <2>0, <2>1, <2>x, <1>a, <1>b, <1>c DEF ClearArchiveEffect, NothingLater, Listed
  <2>3. Flawless(r)'
    BY <2>0, <2>1, <2>x, <1>a, <1>b, <1>c DEF ClearArchiveEffect, Flawless, Wanted, After,
         Retained, CatchingUp, InUpload, Shipping, Undelivered, Clearing
  <2>4. Newest(r)'
    BY <2>0, <2>1, <2>x, <1>a, <1>b, <1>c DEF ClearArchiveEffect, Newest, After, Retained,
         CatchingUp, InUpload, Shipping, Undelivered, Clearing
  <2>5. Kept(r)'
    <3>1. After(o) /\ After(r) /\ r.sid = o.sid /\ r.stored = o.stored
      BY <2>0, <2>1 DEF ClearArchiveEffect, After, CatchingUp, Shipping, InUpload, Clearing
    <3>2. \A d \in o.stored : Complete(d, o.sid) => Complete(d, o.sid)' \/ Dropped(r, d)'
      BY <2>x, <2>y, <1>b DEF Complete
    <3>3. \A d \in o.stored : Dropped(o, d) => Dropped(r, d)'
      BY <2>0, <2>1 DEF ClearArchiveEffect, Dropped, OffsiteOf
    <3>4. r.pc = "drop manifest" => Dropped(r, Local)'
      BY <2>0, <2>1, <1>a DEF ClearArchiveEffect, Kept, Dropped, KeepsLocal, OffsiteOf
    <3> QED
      BY <3>1, <3>2, <3>3, <3>4, <1>a, KeptStays
  <2> QED
    BY <2>2, <2>3, <2>4, <2>5, <1>d
<1>19. CASE ClearManifest(p)
  <2>0. ClearManifestEffect(o, r)
    BY <1>19, ClearManifestDoes
  <2>1. r.sid = o.sid /\ r.errors = o.errors /\ r.dests = o.dests /\ r.stored = o.stored /\
             r.phase = o.phase /\ r.at = o.at /\ r.queue = o.queue /\ r.got = o.got /\ r.todo =
             o.todo /\ r.plan = o.plan
    BY <2>0 DEF ClearManifestEffect, Only, Fields
  <2>x. /\ \A d \in Places, s \in Sids : manifest'[d][s] # "absent" => manifest[d][s] # "absent"
        /\ \A d \in Places, s \in Sids : d # Local \/ s # o.item =>
             archive'[d][s] = archive[d][s] /\ manifest'[d][s] = manifest[d][s]
    <3>1. Sets(manifest, manifest', Local, o.item, "absent") /\ archive' = archive
      BY <2>0 DEF ClearManifestEffect
    <3> QED
      BY <3>1 DEF Sets
  <2>y. o.sid \in Sids /\ o.item # o.sid
    BY <2>0, <1>a DEF ClearManifestEffect, Newest, Shape, Clearing
  <2>2. NothingLater'
    BY <2>0, <2>1, <2>x, <1>a, <1>b, <1>c DEF ClearManifestEffect, NothingLater, Listed
  <2>3. Flawless(r)'
    BY <2>0, <2>1, <2>x, <1>a, <1>b, <1>c DEF ClearManifestEffect, Flawless, Wanted, After,
         Retained, CatchingUp, InUpload, Shipping, Undelivered, Clearing
  <2>4. Newest(r)'
    BY <2>0, <2>1, <2>x, <1>a, <1>b, <1>c DEF ClearManifestEffect, Newest, After, Retained,
         CatchingUp, InUpload, Shipping, Undelivered, Clearing
  <2>5. Kept(r)'
    <3>1. After(o) /\ After(r) /\ r.sid = o.sid /\ r.stored = o.stored
      BY <2>0, <2>1 DEF ClearManifestEffect, After, CatchingUp, Shipping, InUpload, Clearing
    <3>2. \A d \in o.stored : Complete(d, o.sid) => Complete(d, o.sid)' \/ Dropped(r, d)'
      BY <2>x, <2>y, <1>b DEF Complete
    <3>3. \A d \in o.stored : Dropped(o, d) => Dropped(r, d)'
      BY <2>0, <2>1 DEF ClearManifestEffect, Dropped, OffsiteOf
    <3>4. r.pc = "drop manifest" => Dropped(r, Local)'
      BY <2>0, <2>1, <1>a DEF ClearManifestEffect, Kept, Dropped, KeepsLocal, OffsiteOf
    <3> QED
      BY <3>1, <3>2, <3>3, <3>4, <1>a, KeptStays
  <2> QED
    BY <2>2, <2>3, <2>4, <2>5, <1>d
<1>20. CASE PutSidecar(p)
  <2>0. PutSidecarEffect(p, o, r)
    BY <1>20, PutSidecarDoes
  <2>1. r.sid = o.sid /\ r.errors = o.errors /\ r.dests = o.dests /\ r.stored = o.stored /\
             r.phase = o.phase /\ r.item = o.item /\ r.todo = o.todo /\ r.plan = o.plan
    BY <2>0 DEF PutSidecarEffect, Only, Fields
  <2>2. NothingLater'
    BY <2>0, <2>1, <1>a, <1>b, <1>c DEF PutSidecarEffect, Sets, FailedPut, Shape, Tracks,
         Newest, After, Retained, CatchingUp, InUpload, Shipping, Undelivered, Clearing,
         NothingLater, Listed
  <2>3. Flawless(r)'
    BY <2>0, <2>1, <1>a, <1>b, <1>c DEF PutSidecarEffect, Shape, Flawless, Wanted, After,
         Retained, CatchingUp, InUpload, Shipping, Undelivered, Clearing
  <2>4. Newest(r)'
    BY <2>0, <2>1, <1>a, <1>b, <1>c DEF PutSidecarEffect, Newest, After, Retained, CatchingUp,
         InUpload, Shipping, Undelivered, Clearing
  <2>5. Kept(r)'
    BY <2>0, <2>1, <1>a, <1>b, <1>c DEF PutSidecarEffect, Sets, FailedPut, ManifestSource,
         Shape, Tracks, Newest, Kept, Complete, Dropped, KeepsLocal, OffsiteOf, After, Retained,
         CatchingUp, InUpload, Shipping, Undelivered, Clearing
  <2> QED
    BY <2>2, <2>3, <2>4, <2>5, <1>d
<1>21. CASE SidecarPutFails(p)
  <2>0. SidecarPutFailsEffect(p, o, r)
    BY <1>21, SidecarPutFailsDoes
  <2>1. r.sid = o.sid /\ r.dests = o.dests /\ r.stored = o.stored /\ r.phase = o.phase /\ r.item
             = o.item /\ r.got = o.got /\ r.todo = o.todo /\ r.plan = o.plan
    BY <2>0 DEF SidecarPutFailsEffect, Only, Fields
  <2>2. NothingLater'
    BY <2>0, <2>1, <1>a, <1>b, <1>c DEF SidecarPutFailsEffect, Sets, FailedPut, Shape, Tracks,
         Newest, After, Retained, CatchingUp, InUpload, Shipping, Undelivered, Clearing,
         NothingLater, Listed
  <2>3. Flawless(r)'
    BY <2>0, <2>1, <1>a, <1>b, <1>c DEF SidecarPutFailsEffect, Shape, Flawless, Wanted, After,
         Retained, CatchingUp, InUpload, Shipping, Undelivered, Clearing
  <2>4. Newest(r)'
    BY <2>0, <2>1, <1>a, <1>b, <1>c DEF SidecarPutFailsEffect, Newest, After, Retained,
         CatchingUp, InUpload, Shipping, Undelivered, Clearing
  <2>5. Kept(r)'
    BY <2>0, <2>1, <1>a, <1>b, <1>c DEF SidecarPutFailsEffect, Sets, FailedPut, ManifestSource,
         Shape, Tracks, Newest, Kept, Complete, Dropped, KeepsLocal, OffsiteOf, After, Retained,
         CatchingUp, InUpload, Shipping, Undelivered, Clearing
  <2> QED
    BY <2>2, <2>3, <2>4, <2>5, <1>d
<1>22. CASE DeleteKey(p)
  <2> PICK k : k = FirstKey(o.keys)
    OBVIOUS
  <2>0. DeleteKeyEffect(o, r, k)
    BY <1>22, DeleteKeyDoes
  <2>1. r.sid = o.sid /\ r.errors = o.errors /\ r.dests = o.dests /\ r.stored = o.stored /\
             r.phase = o.phase /\ r.item = o.item /\ r.at = o.at /\ r.queue = o.queue /\ r.got =
             o.got /\ r.todo = o.todo /\ r.plan = o.plan
    BY <2>0 DEF DeleteKeyEffect, Only, Fields
  <2>x. /\ \A d \in Places, s \in Sids : manifest'[d][s] # "absent" => manifest[d][s] # "absent"
        /\ \A d \in Places, s \in Sids : d # o.at \/ s # o.item =>
             archive'[d][s] = archive[d][s] /\ manifest'[d][s] = manifest[d][s]
    BY <2>0, ErasesOnly DEF DeleteKeyEffect
  <2>y. o.sid \in Sids /\ o.item # o.sid
    BY <2>0, <1>a DEF DeleteKeyEffect, Newest, Shape, Clearing
  <2>2. NothingLater'
    BY <2>0, <2>1, <2>x, <1>a, <1>b, <1>c DEF DeleteKeyEffect, NothingLater, Listed
  <2>3. Flawless(r)'
    BY <2>0, <2>1, <2>x, <1>a, <1>b, <1>c DEF DeleteKeyEffect, Flawless, Wanted, After,
         Retained, CatchingUp, InUpload, Shipping, Undelivered, Clearing
  <2>4. Newest(r)'
    BY <2>0, <2>1, <2>x, <1>a, <1>b, <1>c DEF DeleteKeyEffect, Newest, After, Retained,
         CatchingUp, InUpload, Shipping, Undelivered, Clearing
  <2>5. Kept(r)'
    <3>1. After(o) /\ After(r) /\ r.sid = o.sid /\ r.stored = o.stored
      BY <2>0, <2>1 DEF DeleteKeyEffect, After, CatchingUp, Shipping, InUpload, Clearing
    <3>2. \A d \in o.stored : Complete(d, o.sid) => Complete(d, o.sid)' \/ Dropped(r, d)'
      BY <2>x, <2>y, <1>b DEF Complete
    <3>3. \A d \in o.stored : Dropped(o, d) => Dropped(r, d)'
      BY <2>0, <2>1 DEF DeleteKeyEffect, Dropped, OffsiteOf
    <3>4. r.pc = "drop manifest" => Dropped(r, Local)'
      BY <2>0, <2>1, <1>a DEF DeleteKeyEffect, Kept, Dropped, KeepsLocal, OffsiteOf
    <3> QED
      BY <3>1, <3>2, <3>3, <3>4, <1>a, KeptStays
  <2> QED
    BY <2>2, <2>3, <2>4, <2>5, <1>d
<1>23. ASSUME NEW d \in Places, PutArchive(p, d)
      PROVE  SuccessKept'
  <2>0. PutArchiveEffect(p, d, o, r)
    BY <1>23, PutArchiveDoes
  <2>1. r.sid = o.sid /\ r.errors = o.errors /\ r.dests = o.dests /\ r.stored = o.stored /\
             r.phase = o.phase /\ r.item = o.item /\ r.queue = o.queue /\ r.got = o.got /\
             r.todo = o.todo /\ r.plan = o.plan
    BY <2>0 DEF PutArchiveEffect, Only, Fields
  <2>2. NothingLater'
    BY <2>0, <2>1, <1>a, <1>b, <1>c DEF PutArchiveEffect, NothingLater, Listed
  <2>3. Flawless(r)'
    BY <2>0, <2>1, <1>a, <1>b, <1>c DEF PutArchiveEffect, Flawless, Wanted, After, Retained,
         CatchingUp, InUpload, Shipping, Undelivered, Clearing
  <2>4. Newest(r)'
    BY <2>0, <2>1, <1>a, <1>b, <1>c DEF PutArchiveEffect, Newest, After, Retained, CatchingUp,
         InUpload, Shipping, Undelivered, Clearing
  <2>5. Kept(r)'
    BY <2>0, <2>1, <1>a, <1>b, <1>c DEF PutArchiveEffect, Sets, FailedPut, ArchiveSource, Shape,
         Tracks, Kept, Complete, Dropped, KeepsLocal, OffsiteOf, After, Retained, CatchingUp,
         InUpload, Shipping, Undelivered, Clearing
  <2> QED
    BY <2>2, <2>3, <2>4, <2>5, <1>d
<1>24. ASSUME NEW d \in Places, ArchivePutFails(p, d)
      PROVE  SuccessKept'
  <2>0. ArchivePutFailsEffect(p, d, o, r)
    BY <1>24, ArchivePutFailsDoes
  <2>1. r.pc = o.pc /\ r.sid = o.sid /\ r.dests = o.dests /\ r.stored = o.stored /\ r.phase =
             o.phase /\ r.item = o.item /\ r.at = o.at /\ r.got = o.got /\ r.todo = o.todo /\
             r.plan = o.plan
    BY <2>0 DEF ArchivePutFailsEffect, Only, Fields
  <2>2. NothingLater'
    BY <2>0, <2>1, <1>a, <1>b, <1>c DEF ArchivePutFailsEffect, NothingLater, Listed
  <2>3. Flawless(r)'
    BY <2>0, <2>1, <1>a, <1>b, <1>c DEF ArchivePutFailsEffect, Flawless, Wanted, After,
         Retained, CatchingUp, InUpload, Shipping, Undelivered, Clearing
  <2>4. Newest(r)'
    BY <2>0, <2>1, <1>a, <1>b, <1>c DEF ArchivePutFailsEffect, Newest, After, Retained,
         CatchingUp, InUpload, Shipping, Undelivered, Clearing
  <2>5. Kept(r)'
    BY <2>0, <2>1, <1>a, <1>b, <1>c DEF ArchivePutFailsEffect, Sets, FailedPut, ArchiveSource,
         Shape, Tracks, Kept, Complete, Dropped, KeepsLocal, OffsiteOf, After, Retained,
         CatchingUp, InUpload, Shipping, Undelivered, Clearing
  <2> QED
    BY <2>2, <2>3, <2>4, <2>5, <1>d
<1>25. ASSUME NEW d \in Places, ListingFails(p, d)
      PROVE  SuccessKept'
  <2>0. ListingFailsEffect(o, r)
    BY <1>25, ListingFailsDoes
  <2>1. r.pc = o.pc /\ r.sid = o.sid /\ r.dests = o.dests /\ r.stored = o.stored /\ r.phase =
             o.phase /\ r.item = o.item /\ r.at = o.at /\ r.got = o.got /\ r.todo = o.todo /\
             r.plan = o.plan
    BY <2>0 DEF ListingFailsEffect, Only, Fields
  <2>2. NothingLater'
    BY <2>0, <2>1, <1>a, <1>b, <1>c DEF ListingFailsEffect, NothingLater, Listed
  <2>3. Flawless(r)'
    BY <2>0, <2>1, <1>a, <1>b, <1>c DEF ListingFailsEffect, Flawless, Wanted, After, Retained,
         CatchingUp, InUpload, Shipping, Undelivered, Clearing
  <2>4. Newest(r)'
    BY <2>0, <2>1, <1>a, <1>b, <1>c DEF ListingFailsEffect, Newest, After, Retained, CatchingUp,
         InUpload, Shipping, Undelivered, Clearing
  <2>5. Kept(r)'
    BY <2>0, <2>1, <1>a, <1>b, <1>c DEF ListingFailsEffect, Kept, Complete, Dropped, KeepsLocal,
         OffsiteOf, After, Retained, CatchingUp, InUpload, Shipping, Undelivered, Clearing
  <2> QED
    BY <2>2, <2>3, <2>4, <2>5, <1>d
<1>26. ASSUME NEW d \in Places, SelectSnapshots(p, d)
      PROVE  SuccessKept'
  <2>0. SelectSnapshotsEffect(p, d, o, r)
    BY <1>26, SelectSnapshotsDoes
  <2>1. r.sid = o.sid /\ r.errors = o.errors /\ r.dests = o.dests /\ r.stored = o.stored /\
             r.phase = o.phase /\ r.item = o.item /\ r.got = o.got /\ r.todo = o.todo
    BY <2>0 DEF SelectSnapshotsEffect, Only, Fields
  <2>s. Candidates(p, d) \subseteq Sids /\ \A s \in Candidates(p, d) : s <= clock
    BY <1>a DEF Candidates, NothingLater, Listed
  <2>t. o.sid = clock /\ o.sid \in Nat
    BY <2>0, <1>a DEF SelectSnapshotsEffect, Newest
  <2>u. r.plan \subseteq Candidates(p, d)
    BY <2>0, SelectedIsListed DEF SelectSnapshotsEffect
  <2>v. o.sid \notin r.plan
    <3>1. job.retention \in RetentionConfig
      BY BackupAssumption DEF Control, TypeOK, Job
    <3>2. \A s \in Candidates(p, d) : s \in Nat /\ s <= o.sid
      BY <2>s, <2>t DEF Sids
    <3>3. o.sid \notin SelectPrunable(Snaps(Candidates(p, d)), job.retention, o.sid)
      BY <2>t, <3>1, <3>2, NewestIsSpared
    <3> QED
      BY <2>0, <3>3 DEF SelectSnapshotsEffect
  <2>2. NothingLater'
    BY <2>0, <2>1, <1>a, <1>b, <1>c DEF SelectSnapshotsEffect, NothingLater, Listed
  <2>3. Flawless(r)'
    BY <2>0, <2>1, <1>a, <1>b, <1>c DEF SelectSnapshotsEffect, Flawless, Wanted, After,
         Retained, CatchingUp, InUpload, Shipping, Undelivered, Clearing
  <2>4. Newest(r)'
    BY <2>0, <2>1, <2>s, <2>u, <2>v, <1>a DEF SelectSnapshotsEffect, Newest, After, Retained,
         CatchingUp, InUpload, Shipping, Undelivered, Clearing
  <2>5. Kept(r)'
    BY <2>0, <2>1, <1>a, <1>b, <1>c DEF SelectSnapshotsEffect, Kept, Complete, Dropped,
         KeepsLocal, OffsiteOf, After, Retained, CatchingUp, InUpload, Shipping, Undelivered,
         Clearing
  <2> QED
    BY <2>2, <2>3, <2>4, <2>5, <1>d
<1>27. ASSUME NEW s \in Sids, PruneSnapshot(p, s)
      PROVE  SuccessKept'
  <2>0. PruneSnapshotEffect(s, o, r)
    BY <1>27, PruneSnapshotDoes
  <2>1. r.sid = o.sid /\ r.errors = o.errors /\ r.dests = o.dests /\ r.stored = o.stored /\
             r.phase = o.phase /\ r.at = o.at /\ r.queue = o.queue /\ r.got = o.got /\ r.todo =
             o.todo
    BY <2>0 DEF PruneSnapshotEffect, Only, Fields
  <2>2. NothingLater'
    BY <2>0, <2>1, <1>a, <1>b, <1>c DEF PruneSnapshotEffect, Newest, NothingLater, Listed
  <2>3. Flawless(r)'
    BY <2>0, <2>1, <1>a, <1>b, <1>c DEF PruneSnapshotEffect, Flawless, Wanted, After, Retained,
         CatchingUp, InUpload, Shipping, Undelivered, Clearing
  <2>4. Newest(r)'
    BY <2>0, <2>1, <1>a, <1>b, <1>c DEF PruneSnapshotEffect, Newest, After, Retained,
         CatchingUp, InUpload, Shipping, Undelivered, Clearing
  <2>5. Kept(r)'
    BY <2>0, <2>1, <1>a, <1>b, <1>c DEF PruneSnapshotEffect, Kept, Complete, Dropped,
         KeepsLocal, OffsiteOf, After, Retained, CatchingUp, InUpload, Shipping, Undelivered,
         Clearing
  <2> QED
    BY <2>2, <2>3, <2>4, <2>5, <1>d
<1>28. CASE Ends(p)
  <2>1. EndsEffect(o, r)
    BY <1>28, EndsDoes
  <2> QED
    BY <2>1, SuccessEnds
<1> QED
  BY <1>1, <1>2, <1>3, <1>4, <1>5, <1>6, <1>7, <1>8, <1>9, <1>10, <1>11, <1>12, <1>13, <1>14,
       <1>15, <1>16, <1>17, <1>18, <1>19, <1>20, <1>21, <1>22, <1>23, <1>24, <1>25, <1>26,
       <1>27, <1>28 DEF Step, Ends

LEMMA SuccessInit == Init => SuccessKept
<1> SUFFICES ASSUME Init PROVE SuccessKept
  OBVIOUS
<1>1. NothingLater
  BY DEF Init, NothingLater, Listed
<1>2. ASSUME NEW p \in Procs PROVE Flawless(run[p]) /\ Newest(run[p]) /\ Kept(run[p])
  <2>1. run[p] = Idle
    BY DEF Init
  <2> QED
    BY <2>1 DEF Idle, Flawless, Newest, Kept, After, Retained, CatchingUp, InUpload, Shipping,
         Undelivered, Clearing
<1> QED
  BY <1>1, <1>2 DEF SuccessKept

LEMMA SuccessStep ==
  ASSUME Sequential, Control, Control', SuccessKept, [Next]_vars
  PROVE  SuccessKept'
<1>1. ASSUME NEW p \in Procs, Begin(p)
      PROVE  SuccessKept'
  <2> PICK o : o = run[p]
    OBVIOUS
  <2> PICK r : r = run'[p]
    OBVIOUS
  <2>1. BeginEffect(o, r)
    BY <1>1, BeginDoes
  <2>2. /\ clock \in Nat /\ NothingLater /\ Newest(o) /\ r.plan = o.plan
        /\ \A s \in Sids : s \in Nat
        /\ pruned \subseteq Sids /\ o.plan \subseteq Sids
    <3>1. o \in Run /\ clock \in Nat /\ NothingLater /\ Newest(o) /\ pruned \subseteq Sids
      BY BackupAssumption DEF Control, TypeOK, SuccessKept
    <3>2. r.plan = o.plan
      BY <2>1 DEF BeginEffect, Only, Fields
    <3>3. o.plan \subseteq Sids
      BY <3>1 DEF Run
    <3>4. \A s \in Sids : s \in Nat
      BY DEF Sids
    <3> QED
      BY <3>1, <3>2, <3>3, <3>4
  <2>3. NothingLater'
    BY <2>1, <2>2 DEF BeginEffect, NothingLater, Listed
  <2>4. Newest(r)'
    BY <2>1, <2>2 DEF BeginEffect, Newest, NothingLater, Clearing
  <2>5. Flawless(r)' /\ Kept(r)'
    BY <2>1 DEF BeginEffect, Flawless, Kept, After, Retained, CatchingUp, InUpload, Shipping,
         Undelivered, Clearing
  <2> QED
    BY <2>3, <2>4, <2>5, SuccessAdvances
<1>2. ASSUME NEW p \in Procs, Kill(p) \/ AbortStoredRun(p)
      PROVE  SuccessKept'
  <2> PICK o : o = run[p]
    OBVIOUS
  <2> PICK r : r = run'[p]
    OBVIOUS
  <2>1. EndsEffect(o, r)
    BY <1>2, EndsDoes DEF Ends
  <2> QED
    BY <2>1, SuccessEnds
<1>3. CASE Reconfigure
  <2>1. UNCHANGED <<clock, archive, manifest, markers, run, pruned>> /\ \A p \in Procs : run[p].pc = "idle"
    BY <1>3 DEF Reconfigure, places, history, At
  <2>2. NothingLater'
    BY <2>1 DEF SuccessKept, NothingLater, Listed
  <2>3. ASSUME NEW p \in Procs PROVE (Flawless(run[p]) /\ Newest(run[p]) /\ Kept(run[p]))'
    <3> PICK r : r = run[p]
      OBVIOUS
    <3>1. r.pc = "idle" /\ Newest(r) /\ run'[p] = r
      BY <2>1 DEF SuccessKept
    <3>2. Newest(r)'
      BY <2>1, <3>1 DEF Newest
    <3>3. Flawless(r)' /\ Kept(r)'
      BY <3>1 DEF Flawless, Kept, After, Retained, CatchingUp, InUpload, Shipping, Undelivered,
           Clearing
    <3> QED
      BY <3>1, <3>2, <3>3
  <2> QED
    BY <2>2, <2>3 DEF SuccessKept
<1>4. CASE UNCHANGED vars
  <2>1. UNCHANGED <<job, clock, archive, manifest, markers, run, pruned>>
    BY <1>4 DEF vars
  <2>2. NothingLater'
    BY <2>1 DEF SuccessKept, NothingLater, Listed
  <2>3. ASSUME NEW p \in Procs PROVE (Flawless(run[p]) /\ Newest(run[p]) /\ Kept(run[p]))'
    <3> PICK r : r = run[p]
      OBVIOUS
    <3>1. Flawless(r) /\ Newest(r) /\ Kept(r) /\ run'[p] = r
      BY <2>1 DEF SuccessKept
    <3>2. Flawless(r)' /\ Newest(r)' /\ Kept(r)'
      BY <2>1, <3>1 DEF Flawless, Newest, Kept, Wanted, Complete, Dropped, KeepsLocal
    <3> QED
      BY <3>1, <3>2
  <2> QED
    BY <2>2, <2>3 DEF SuccessKept
<1> QED
  BY <1>1, <1>2, <1>3, <1>4, SuccessByStep DEF Next

LEMMA SuccessFollows == Control /\ SuccessKept => SuccessIsComplete
<1> SUFFICES ASSUME Control, SuccessKept, NEW p \in Procs, NEW r, r = run[p],
                    r.pc = "record", JobStatus(r) = "success"
             PROVE  /\ \A d \in job.s3 : Complete(d, r.sid)
                    /\ KeepsLocal(job) \/ job.s3 = {} => Complete(Local, r.sid)
                    /\ job.s3 # {} => markers = {}
  BY DEF SuccessIsComplete, At
<1>1. ~r.errors /\ Flawless(r) /\ Kept(r) /\ job.s3 \subseteq S3 /\ Local \notin S3
  BY BackupAssumption DEF SuccessKept, JobStatus, Control, TypeOK, Job
<1>2. r.stored = Wanted /\ (job.s3 # {} => markers = {})
  BY <1>1 DEF Flawless, After, Retained
<1>3. \A d \in Wanted : Complete(d, r.sid) \/ Dropped(r, d)
  BY <1>1, <1>2 DEF Kept, After
<1>4. \A d \in job.s3 : d \in Wanted /\ d # Local
  BY <1>1 DEF Wanted
<1>5. KeepsLocal(job) \/ job.s3 = {} => Local \in Wanted /\ ~Dropped(r, Local)
  BY <1>2 DEF Wanted, KeepsLocal, Dropped, OffsiteOf
<1> QED
  BY <1>2, <1>3, <1>4, <1>5 DEF Dropped

(***************************************************************************)
(* With one process, a run that reports success is complete everywhere it  *)
(* should be and has left nothing pending, whatever the runs before it met *)
(* and however the job was configured for them.                            *)
(***************************************************************************)
THEOREM SuccessHolds ==
  ASSUME Sequential
  PROVE  Spec => []SuccessIsComplete
<1>1. Init => Control /\ SuccessKept
  BY ControlInit, SuccessInit
<1>2. Control /\ SuccessKept /\ [Next]_vars => (Control /\ SuccessKept)'
  BY ControlStep, SuccessStep
<1>3. Control /\ SuccessKept => SuccessIsComplete
  BY SuccessFollows
<1> QED
  BY <1>1, <1>2, <1>3, PTL DEF Spec

-----------------------------------------------------------------------------
(* What a step does to the archives and manifests of all places *)

\* At most the copy of s at d changes: it is put ...
PutsAt(d, s) ==
  /\ Writes(archive, archive', d, s) /\ Writes(manifest, manifest', d, s)
  /\ archive'[d][s] = "absent" => archive[d][s] = "absent"
  /\ manifest'[d][s] = "absent" => manifest[d][s] = "absent"
  /\ NothingTorn => /\ WritesWhole(archive, archive', d, s)
                    /\ WritesWhole(manifest, manifest', d, s)

\* ... or erased, for a reason.
ErasesAt(d, s) == Removes(archive, archive', d, s) /\ Removes(manifest, manifest', d, s)

MayErase(o, d, s) ==
  \/ o.pc = "delete" /\ s = o.item
  \/ d = Local /\ Clearing(o) /\ s = o.item
  \/ d = Local /\ o.pc \in {"drop", "drop manifest"} /\ OffsiteOf(o) # {} /\ s = o.sid

PutStep(o) == InUpload(o) /\ UNCHANGED markers /\ \E d \in o.queue : PutsAt(d, o.item)

EraseStep(o) == \E d \in Places, s \in Sids : ErasesAt(d, s) /\ MayErase(o, d, s)

LEMMA PutWrites ==
  ASSUME NEW f, NEW g, NEW d \in Places, NEW s \in Sids, NEW c, Sets(f, g, d, s, c), c # "absent",
         NothingTorn => c = "whole"
  PROVE  /\ Writes(f, g, d, s) /\ (g[d][s] = "absent" => f[d][s] = "absent")
         /\ NothingTorn => WritesWhole(f, g, d, s)
BY DEF Sets, Writes, WritesWhole

LEMMA FailedPutWrites ==
  ASSUME NEW f, NEW g, NEW d \in Places, NEW s \in Sids, NEW source, NEW left,
         FailedPut(f, g, d, s, source, left),
         "absent" \notin left, NothingTorn => left \subseteq {"whole"},
         NothingTorn /\ source # "absent" => source = "whole"
  PROVE  /\ Writes(f, g, d, s) /\ (g[d][s] = "absent" => f[d][s] = "absent")
         /\ NothingTorn => WritesWhole(f, g, d, s)
<1>1. CASE g = f
  BY <1>1 DEF Writes, WritesWhole
<1>2. CASE g # f
  <2>1. PICK c \in {source} \cup (left \ {"whole"}) : source # "absent" /\ Sets(f, g, d, s, c)
    BY <1>2 DEF FailedPut
  <2>2. c # "absent" /\ (NothingTorn => c = "whole")
    BY <2>1
  <2> QED
    BY <2>1, <2>2, PutWrites
<1> QED
  BY <1>1, <1>2

LEMMA ErasedCell ==
  ASSUME NEW f, NEW g, NEW d, NEW s, Sets(f, g, d, s, "absent")
  PROVE  Removes(f, g, d, s)
BY DEF Sets, Removes

LEMMA UntouchedCells ==
  ASSUME NEW f, NEW g, g = f, NEW d, NEW s
  PROVE  /\ Removes(f, g, d, s) /\ Writes(f, g, d, s) /\ WritesWhole(f, g, d, s)
BY DEF Removes, Writes, WritesWhole

LEMMA CellsMove ==
  ASSUME Control, Holds, NEW p \in Procs, Step(p), NEW o, o = run[p]
  PROVE  \/ UNCHANGED <<archive, manifest>>
         \/ PutStep(o)
         \/ EraseStep(o)
<1> PICK r : r = run'[p]
  OBVIOUS
<1>a. o \in Run /\ Shape(o) /\ Local \in Places
  BY DEF Control, TypeOK, Places
<1>b. "absent" \notin ArchiveLeft \cup ManifestLeft
      /\ (NothingTorn => ArchiveLeft \subseteq {"whole"} /\ ManifestLeft \subseteq {"whole"})
  BY BackupAssumption DEF NothingTorn
<1>c. InUpload(o) => /\ ArchiveSource(p) # "absent" => ArchiveSource(p) = "whole"
                     /\ ManifestSource(p) # "absent" => ManifestSource(p) = "whole"
  BY SourcesAreWhole
<1>d. InUpload(o) => o.item \in Sids /\ o.queue \subseteq Places
  BY <1>a DEF Shape, Run
<1>1. CASE Quiet(p)
  BY <1>1, QuietDoes
<1>2. CASE Ends(p)
  BY <1>2, EndsDoes DEF EndsEffect
<1>3. ASSUME NEW d \in Places, PutArchive(p, d)
      PROVE  PutStep(o)
  <2>0. PutArchiveEffect(p, d, o, r)
    BY <1>3, PutArchiveDoes
  <2>1. InUpload(o) /\ d \in o.queue /\ UNCHANGED <<markers, manifest>>
        /\ ArchiveSource(p) # "absent" /\ Sets(archive, archive', d, o.item, ArchiveSource(p))
    BY <2>0 DEF PutArchiveEffect, InUpload
  <2>2. PutsAt(d, o.item)
    BY <2>1, <1>c, <1>d, PutWrites, UntouchedCells DEF PutsAt
  <2> QED
    BY <2>1, <2>2 DEF PutStep
<1>4. ASSUME NEW d \in Places, ArchivePutFails(p, d)
      PROVE  PutStep(o)
  <2>0. ArchivePutFailsEffect(p, d, o, r)
    BY <1>4, ArchivePutFailsDoes
  <2>1. InUpload(o) /\ d \in o.queue /\ UNCHANGED <<markers, manifest>>
        /\ FailedPut(archive, archive', d, o.item, ArchiveSource(p), ArchiveLeft)
    BY <2>0 DEF ArchivePutFailsEffect, InUpload
  <2>2. PutsAt(d, o.item)
    BY <2>1, <1>b, <1>c, <1>d, FailedPutWrites, UntouchedCells DEF PutsAt
  <2> QED
    BY <2>1, <2>2 DEF PutStep
<1>5. CASE PutSidecar(p)
  <2>0. PutSidecarEffect(p, o, r)
    BY <1>5, PutSidecarDoes
  <2>1. InUpload(o) /\ UNCHANGED <<markers, archive>>
        /\ ManifestSource(p) # "absent" /\ Sets(manifest, manifest', o.at, o.item, ManifestSource(p))
    BY <2>0 DEF PutSidecarEffect, InUpload
  <2>2. o.at \in o.queue
    BY <2>0, <1>a DEF PutSidecarEffect, Shape
  <2>3. PutsAt(o.at, o.item)
    BY <2>1, <2>2, <1>c, <1>d, PutWrites, UntouchedCells DEF PutsAt
  <2> QED
    BY <2>1, <2>2, <2>3 DEF PutStep
<1>6. CASE SidecarPutFails(p)
  <2>0. SidecarPutFailsEffect(p, o, r)
    BY <1>6, SidecarPutFailsDoes
  <2>1. InUpload(o) /\ UNCHANGED <<markers, archive>>
        /\ FailedPut(manifest, manifest', o.at, o.item, ManifestSource(p), ManifestLeft)
    BY <2>0 DEF SidecarPutFailsEffect, InUpload
  <2>2. o.at \in o.queue
    BY <2>0, <1>a DEF SidecarPutFailsEffect, Shape
  <2>3. PICK d : d = o.at /\ d \in Places /\ o.item \in Sids
    BY <2>1, <2>2, <1>d
  <2>4. /\ Writes(manifest, manifest', d, o.item)
        /\ manifest'[d][o.item] = "absent" => manifest[d][o.item] = "absent"
        /\ NothingTorn => WritesWhole(manifest, manifest', d, o.item)
    <3> PICK source : source = ManifestSource(p)
      OBVIOUS
    <3>1. FailedPut(manifest, manifest', d, o.item, source, ManifestLeft)
      BY <2>1, <2>3
    <3>2. /\ "absent" \notin ManifestLeft /\ (NothingTorn => ManifestLeft \subseteq {"whole"})
          /\ NothingTorn /\ source # "absent" => source = "whole"
      BY <2>1, <1>b, <1>c
    <3> QED
      BY <2>3, <3>1, <3>2, FailedPutWrites
  <2>5. PutsAt(d, o.item)
    BY <2>1, <2>4, UntouchedCells DEF PutsAt
  <2> QED
    BY <2>1, <2>2, <2>3, <2>5 DEF PutStep
<1>7. CASE ClearArchive(p)
  <2>0. ClearArchiveEffect(o, r)
    BY <1>7, ClearArchiveDoes
  <2>1. Clearing(o) /\ Sets(archive, archive', Local, o.item, "absent") /\ manifest' = manifest
    BY <2>0 DEF ClearArchiveEffect, Clearing
  <2>2. o.item \in Sids
    BY <2>1, <1>a DEF Shape
  <2> QED
    BY <2>1, <2>2, <1>a, ErasedCell, UntouchedCells DEF EraseStep, ErasesAt, MayErase
<1>8. CASE ClearManifest(p)
  <2>0. ClearManifestEffect(o, r)
    BY <1>8, ClearManifestDoes
  <2>1. Clearing(o) /\ Sets(manifest, manifest', Local, o.item, "absent") /\ archive' = archive
    BY <2>0 DEF ClearManifestEffect, Clearing
  <2>2. o.item \in Sids
    BY <2>1, <1>a DEF Shape
  <2> QED
    BY <2>1, <2>2, <1>a, ErasedCell, UntouchedCells DEF EraseStep, ErasesAt, MayErase
<1>9. CASE DropLocalArchive(p)
  <2>0. DropLocalArchiveEffect(o, r)
    BY <1>9, DropLocalArchiveDoes
  <2>1. /\ o.pc \in {"drop", "drop manifest"} /\ OffsiteOf(o) # {}
        /\ Sets(archive, archive', Local, o.sid, "absent") /\ manifest' = manifest
    BY <2>0 DEF DropLocalArchiveEffect
  <2>2. o.sid \in Sids
    BY <2>1, <1>a DEF Shape
  <2> QED
    BY <2>1, <2>2, <1>a, ErasedCell, UntouchedCells DEF EraseStep, ErasesAt, MayErase
<1>10. CASE DropLocalManifest(p)
  <2>0. DropLocalManifestEffect(o, r)
    BY <1>10, DropLocalManifestDoes
  <2>1. /\ o.pc \in {"drop", "drop manifest"}
        /\ Sets(manifest, manifest', Local, o.sid, "absent") /\ archive' = archive
    BY <2>0 DEF DropLocalManifestEffect
  <2>2. o.sid \in Sids /\ OffsiteOf(o) # {}
    BY <2>0, <1>a DEF DropLocalManifestEffect, Shape
  <2> QED
    BY <2>1, <2>2, <1>a, ErasedCell, UntouchedCells DEF EraseStep, ErasesAt, MayErase
<1>11. ASSUME NEW s \in Sids, PruneSnapshot(p, s)
       PROVE  UNCHANGED <<archive, manifest>>
  BY <1>11, PruneSnapshotDoes DEF PruneSnapshotEffect
<1>12. CASE DeleteKey(p)
  <2> PICK k : k = FirstKey(o.keys)
    OBVIOUS
  <2>0. DeleteKeyEffect(o, r, k)
    BY <1>12, DeleteKeyDoes
  <2>1. /\ o.pc = "delete"
        /\ archive' = archive \/ Sets(archive, archive', o.at, o.item, "absent")
        /\ manifest' = manifest \/ Sets(manifest, manifest', o.at, o.item, "absent")
    BY <2>0 DEF DeleteKeyEffect
  <2>2. o.item \in Sids /\ o.at \in Places
    BY <2>1, <1>a DEF Shape, Run
  <2> QED
    BY <2>1, <2>2, ErasedCell, UntouchedCells DEF EraseStep, ErasesAt, MayErase
<1> QED
  BY <1>1, <1>2, <1>3, <1>4, <1>5, <1>6, <1>7, <1>8, <1>9, <1>10, <1>11, <1>12
     DEF Step, Quiet, Ends

-----------------------------------------------------------------------------
(* What is missing off-site is marked *)

\* The data dir has something of s left to ship.
Here(s) == archive[Local][s] # "absent" /\ manifest[Local][s] # "absent"

Found(s) == OnS3(s) \/ s \in pruned

Tracking(s) == \E p \in Procs : At(p, "track") /\ run[p].sid = s

\* The run may still ship or clear s.
Carries(r, s) == s \in r.todo \/ ((Shipping(r) \/ Clearing(r)) /\ r.item = s)

\* A run about to mark its snapshot ...
Unmarked(r) ==
  r.pc = "track" =>
    /\ r.sid \notin markers
    /\ \A q \in Procs : ~Carries(run[q], r.sid)
    /\ Local \in r.stored => Held(Local, r.sid)
    /\ r.sid \in due => job.s3 # {} /\ r.stored # {}

\* ... and one that catches up, which is the only one to remove a marker.
Ships(r) ==
  /\ ~CatchingUp(r) => r.todo = {}
  /\ Shipping(r) => r.item \notin r.todo
  /\ Sequential => r.todo \subseteq markers
  /\ Sequential /\ Shipping(r) => r.item \in markers

PendingKept ==
  /\ \A p \in Procs : Unmarked(run[p]) /\ Ships(run[p])
  /\ \A s \in markers : Here(s) \/ Found(s)
  /\ breaks = 0 => \A s \in due : Found(s) \/ s \in markers \/ Tracking(s)

\* An erased copy is somewhere else, or was selected.
LEMMA ErasedIsElsewhere ==
  ASSUME Control, Holds, NEW p \in Procs, NEW o, o = run[p], NEW d \in Places, NEW s \in Sids,
         ErasesAt(d, s), MayErase(o, d, s), s \notin pruned
  PROVE  OnS3(s)'
<1>1. Relies(o) /\ o \in Run /\ Shape(o) /\ Local \notin S3
  BY BackupAssumption DEF Control, TypeOK, Holds
<1>2. o.pc # "delete" \/ s # o.item
  BY <1>1 DEF Relies
<1>3. d = Local /\ OffsiteOf(o) # {} /\ \A e \in OffsiteOf(o) : Held(e, s)
  <2>1. CASE Clearing(o) /\ s = o.item
    BY <1>2, <2>1, <1>1 DEF MayErase, Relies, Shape, CatchingUp, Clearing
  <2>2. CASE o.pc \in {"drop", "drop manifest"} /\ s = o.sid /\ OffsiteOf(o) # {} /\ d = Local
    BY <2>2, <1>1 DEF Relies
  <2> QED
    BY <1>2, <2>1, <2>2 DEF MayErase
<1>4. PICK e \in OffsiteOf(o) : Held(e, s)
  BY <1>3
<1>5. e \in S3 /\ e \in Places /\ e # Local
  BY <1>1 DEF OffsiteOf, Run, Places
<1>6. Complete(e, s)
  BY <1>4 DEF Held
<1>7. archive'[e][s] = archive[e][s] /\ manifest'[e][s] = manifest[e][s]
  BY <1>3, <1>5 DEF ErasesAt, Removes
<1> QED
  BY <1>5, <1>6, <1>7 DEF OnS3, Complete

LEMMA ErasedIsFound ==
  ASSUME Control, Holds, NEW p \in Procs, NEW o, o = run[p], NEW d \in Places, NEW s \in Sids,
         ErasesAt(d, s), MayErase(o, d, s), pruned \subseteq pruned'
  PROVE  Found(s)'
<1>1. CASE s \in pruned
  BY <1>1 DEF Found
<1>2. CASE s \notin pruned
  BY <1>2, ErasedIsElsewhere DEF Found
<1> QED
  BY <1>1, <1>2

LEMMA FoundStays ==
  ASSUME Control, Holds, Safe, NEW p \in Procs, Step(p), NEW o, o = run[p],
         pruned \subseteq pruned', NEW s \in stored, Found(s)
  PROVE  Found(s)' \/ (Sequential /\ Shipping(o) /\ s = o.item /\ UNCHANGED markers)
<1>1. S3 \subseteq Places /\ s \in Sids
  BY DEF Control, TypeOK, Places
<1>2. CASE UNCHANGED <<archive, manifest>>
  BY <1>2 DEF Found, OnS3, Complete
<1>3. CASE EraseStep(o)
  <2>1. PICK d \in Places, t \in Sids : ErasesAt(d, t) /\ MayErase(o, d, t)
    BY <1>3 DEF EraseStep
  <2>2. CASE t = s
    BY <2>1, <2>2, ErasedIsFound
  <2>3. CASE t # s
    BY <2>1, <2>3, <1>1 DEF ErasesAt, Removes, Found, OnS3, Complete
  <2> QED
    BY <2>2, <2>3
<1>4. CASE PutStep(o)
  <2>1. PICK d \in o.queue : PutsAt(d, o.item)
    BY <1>4 DEF PutStep
  <2>2. CASE s # o.item
    BY <2>1, <2>2, <1>1 DEF PutsAt, Writes, Found, OnS3, Complete
  <2>3. CASE s = o.item /\ Shipping(o) /\ Sequential
    BY <2>3, <1>4 DEF PutStep
  <2>4. CASE s = o.item /\ NothingTorn
    <3>1. \A e \in S3 : Complete(e, s) => Complete(e, s)'
      <4> SUFFICES ASSUME NEW e \in S3, Complete(e, s) PROVE Complete(e, s)'
        OBVIOUS
      <4>1. CASE e # d
        BY <2>1, <1>1, <4>1 DEF PutsAt, Writes, Complete
      <4>2. CASE e = d
        BY <2>1, <2>4, <4>2 DEF PutsAt, WritesWhole, Complete
      <4> QED
        BY <4>1, <4>2
    <3> QED
      BY <3>1 DEF Found, OnS3
  <2>5. s = o.item => Shipping(o)
    <3>1. Shape(o) /\ Tracks(o, stored, markers, clock)
      BY DEF Control
    <3> QED
      BY <1>4, <3>1 DEF PutStep, Shape, Tracks, Shipping, Undelivered, InUpload
  <2> QED
    BY <2>2, <2>3, <2>4, <2>5 DEF Safe
<1> QED
  BY <1>2, <1>3, <1>4, CellsMove

LEMMA HereStays ==
  ASSUME Control, Holds, NEW p \in Procs, Step(p),
         pruned \subseteq pruned', NEW s \in stored, Here(s)
  PROVE  Here(s)' \/ Found(s)'
<1> PICK o : o = run[p]
  OBVIOUS
<1>1. Local \in Places /\ s \in Sids
  BY DEF Control, TypeOK, Places
<1>2. CASE UNCHANGED <<archive, manifest>>
  BY <1>2 DEF Here
<1>3. CASE EraseStep(o)
  <2>1. PICK d \in Places, t \in Sids : ErasesAt(d, t) /\ MayErase(o, d, t)
    BY <1>3 DEF EraseStep
  <2>2. CASE t = s
    BY <2>1, <2>2, ErasedIsFound
  <2>3. CASE t # s
    BY <2>1, <2>3, <1>1 DEF ErasesAt, Removes, Here
  <2> QED
    BY <2>2, <2>3
<1>4. CASE PutStep(o)
  <2>1. PICK d \in o.queue : PutsAt(d, o.item)
    BY <1>4 DEF PutStep
  <2> QED
    BY <2>1, <1>1 DEF PutsAt, Writes, Here
<1> QED
  BY <1>2, <1>3, <1>4, CellsMove
\* The steps that leave the markers, and what is still to ship, alone.
Plain(o, r) ==
  /\ UNCHANGED <<job, markers, due, breaks>> /\ pruned \subseteq pruned'
  /\ o.pc # "track" /\ r.pc # "track" /\ r.todo = o.todo
  /\ ~CatchingUp(r) => ~CatchingUp(o) \/ o.todo = {}
  /\ Shipping(r) => Shipping(o) /\ r.item = o.item
  /\ Clearing(r) => Clearing(o) /\ r.item = o.item

Special(p) ==
  \/ Delivered(p) \/ MarkPending(p) \/ CatchUp(p) \/ ForgetPending(p) \/ ShipPending(p)
  \/ Shipped(p) \/ DeleteKey(p) \/ Ends(p)

LEMMA PlainOrSpecial ==
  ASSUME Control, NEW p \in Procs, Step(p), ~Special(p), NEW o, o = run[p], NEW r, r = run'[p]
  PROVE  Plain(o, r)
<1>1. CASE Produce(p)
  <2>0. ProduceEffect(o, r)
    BY <1>1, ProduceDoes
  <2>1. r.phase = o.phase /\ r.item = o.item /\ r.todo = o.todo
    BY <2>0 DEF ProduceEffect, Only, Fields
  <2> QED
    BY <2>0, <2>1 DEF ProduceEffect, Plain, CatchingUp, InUpload, Shipping, Clearing
<1>2. CASE Connect(p)
  <2>0. ConnectEffect(o, r)
    BY <1>2, ConnectDoes
  <2>1. r.todo = o.todo
    BY <2>0 DEF ConnectEffect, Only, Fields
  <2> QED
    BY <2>0, <2>1 DEF ConnectEffect, Plain, CatchingUp, InUpload, Shipping, Clearing
<1>3. CASE PutSidecar(p)
  <2>0. PutSidecarEffect(p, o, r)
    BY <1>3, PutSidecarDoes
  <2>1. r.phase = o.phase /\ r.item = o.item /\ r.todo = o.todo
    BY <2>0 DEF PutSidecarEffect, Only, Fields
  <2> QED
    BY <2>0, <2>1 DEF PutSidecarEffect, Plain, CatchingUp, InUpload, Shipping, Clearing
<1>4. CASE SidecarPutFails(p)
  <2>0. SidecarPutFailsEffect(p, o, r)
    BY <1>4, SidecarPutFailsDoes
  <2>1. r.phase = o.phase /\ r.item = o.item /\ r.todo = o.todo
    BY <2>0 DEF SidecarPutFailsEffect, Only, Fields
  <2> QED
    BY <2>0, <2>1 DEF SidecarPutFailsEffect, Plain, CatchingUp, InUpload, Shipping, Clearing
<1>5. CASE FallBack(p)
  <2>0. FallBackEffect(o, r)
    BY <1>5, FallBackDoes
  <2>1. r.pc = o.pc /\ r.item = o.item /\ r.todo = o.todo
    BY <2>0 DEF FallBackEffect, Only, Fields
  <2> QED
    BY <2>0, <2>1 DEF FallBackEffect, Plain, CatchingUp, InUpload, Shipping, Clearing
<1>6. CASE StaysPending(p)
  <2>0. StaysPendingEffect(o, r)
    BY <1>6, StaysPendingDoes
  <2>1. r.phase = o.phase /\ r.todo = o.todo
    BY <2>0 DEF StaysPendingEffect, Only, Fields
  <2> QED
    BY <2>0, <2>1 DEF StaysPendingEffect, Plain, CatchingUp, InUpload, Shipping, Clearing
<1>7. CASE ClearArchive(p)
  <2>0. ClearArchiveEffect(o, r)
    BY <1>7, ClearArchiveDoes
  <2>1. r.phase = o.phase /\ r.item = o.item /\ r.todo = o.todo
    BY <2>0 DEF ClearArchiveEffect, Only, Fields
  <2> QED
    BY <2>0, <2>1 DEF ClearArchiveEffect, Plain, CatchingUp, InUpload, Shipping, Clearing
<1>8. CASE ClearManifest(p)
  <2>0. ClearManifestEffect(o, r)
    BY <1>8, ClearManifestDoes
  <2>1. r.phase = o.phase /\ r.todo = o.todo
    BY <2>0 DEF ClearManifestEffect, Only, Fields
  <2> QED
    BY <2>0, <2>1 DEF ClearManifestEffect, Plain, CatchingUp, InUpload, Shipping, Clearing
<1>9. CASE CaughtUp(p)
  <2>0. CaughtUpEffect(o, r)
    BY <1>9, CaughtUpDoes
  <2>1. r.phase = o.phase /\ r.item = o.item /\ r.todo = o.todo
    BY <2>0 DEF CaughtUpEffect, Only, Fields
  <2> QED
    BY <2>0, <2>1 DEF CaughtUpEffect, Plain, CatchingUp, InUpload, Shipping, Clearing
<1>10. CASE DeletionFails(p)
  <2>0. DeletionFailsEffect(o, r)
    BY <1>10, DeletionFailsDoes
  <2>1. r.phase = o.phase /\ r.todo = o.todo
    BY <2>0 DEF DeletionFailsEffect, Only, Fields
  <2> QED
    BY <2>0, <2>1 DEF DeletionFailsEffect, Plain, CatchingUp, InUpload, Shipping, Clearing
<1>11. CASE PlacePruned(p)
  <2>0. PlacePrunedEffect(o, r)
    BY <1>11, PlacePrunedDoes
  <2>1. r.phase = o.phase /\ r.todo = o.todo
    BY <2>0 DEF PlacePrunedEffect, Only, Fields
  <2> QED
    BY <2>0, <2>1 DEF PlacePrunedEffect, Plain, CatchingUp, InUpload, Shipping, Clearing
<1>12. CASE RetentionDone(p)
  <2>0. RetentionDoneEffect(o, r)
    BY <1>12, RetentionDoneDoes
  <2>1. r.phase = o.phase /\ r.item = o.item /\ r.todo = o.todo
    BY <2>0 DEF RetentionDoneEffect, Only, Fields
  <2> QED
    BY <2>0, <2>1 DEF RetentionDoneEffect, Plain, CatchingUp, InUpload, Shipping, Clearing
<1>13. CASE DropLocalArchive(p)
  <2>0. DropLocalArchiveEffect(o, r)
    BY <1>13, DropLocalArchiveDoes
  <2>1. r.phase = o.phase /\ r.item = o.item /\ r.todo = o.todo
    BY <2>0 DEF DropLocalArchiveEffect, Only, Fields
  <2> QED
    BY <2>0, <2>1 DEF DropLocalArchiveEffect, Plain, CatchingUp, InUpload, Shipping, Clearing
<1>14. CASE DropLocalManifest(p)
  <2>0. DropLocalManifestEffect(o, r)
    BY <1>14, DropLocalManifestDoes
  <2>1. r.phase = o.phase /\ r.item = o.item /\ r.todo = o.todo
    BY <2>0 DEF DropLocalManifestEffect, Only, Fields
  <2> QED
    BY <2>0, <2>1 DEF DropLocalManifestEffect, Plain, CatchingUp, InUpload, Shipping, Clearing
<1>15. CASE KeepLocalCopy(p)
  <2>0. KeepLocalCopyEffect(o, r)
    BY <1>15, KeepLocalCopyDoes
  <2>1. r.phase = o.phase /\ r.item = o.item /\ r.todo = o.todo
    BY <2>0 DEF KeepLocalCopyEffect, Only, Fields
  <2> QED
    BY <2>0, <2>1 DEF KeepLocalCopyEffect, Plain, CatchingUp, InUpload, Shipping, Clearing
<1>16. ASSUME NEW d \in Places, PutArchive(p, d)
      PROVE  Plain(o, r)
  <2>0. PutArchiveEffect(p, d, o, r)
    BY <1>16, PutArchiveDoes
  <2>1. r.phase = o.phase /\ r.item = o.item /\ r.todo = o.todo
    BY <2>0 DEF PutArchiveEffect, Only, Fields
  <2> QED
    BY <2>0, <2>1 DEF PutArchiveEffect, Plain, CatchingUp, InUpload, Shipping, Clearing
<1>17. ASSUME NEW d \in Places, ArchivePutFails(p, d)
      PROVE  Plain(o, r)
  <2>0. ArchivePutFailsEffect(p, d, o, r)
    BY <1>17, ArchivePutFailsDoes
  <2>1. r.pc = o.pc /\ r.phase = o.phase /\ r.item = o.item /\ r.todo = o.todo
    BY <2>0 DEF ArchivePutFailsEffect, Only, Fields
  <2> QED
    BY <2>0, <2>1 DEF ArchivePutFailsEffect, Plain, CatchingUp, InUpload, Shipping, Clearing
<1>18. ASSUME NEW d \in Places, SelectSnapshots(p, d)
      PROVE  Plain(o, r)
  <2>0. SelectSnapshotsEffect(p, d, o, r)
    BY <1>18, SelectSnapshotsDoes
  <2>1. r.phase = o.phase /\ r.item = o.item /\ r.todo = o.todo
    BY <2>0 DEF SelectSnapshotsEffect, Only, Fields
  <2> QED
    BY <2>0, <2>1 DEF SelectSnapshotsEffect, Plain, CatchingUp, InUpload, Shipping, Clearing
<1>19. ASSUME NEW d \in Places, ListingFails(p, d)
      PROVE  Plain(o, r)
  <2>0. ListingFailsEffect(o, r)
    BY <1>19, ListingFailsDoes
  <2>1. r.pc = o.pc /\ r.phase = o.phase /\ r.item = o.item /\ r.todo = o.todo
    BY <2>0 DEF ListingFailsEffect, Only, Fields
  <2> QED
    BY <2>0, <2>1 DEF ListingFailsEffect, Plain, CatchingUp, InUpload, Shipping, Clearing
<1>20. ASSUME NEW s \in Sids, PruneSnapshot(p, s)
      PROVE  Plain(o, r)
  <2>0. PruneSnapshotEffect(s, o, r)
    BY <1>20, PruneSnapshotDoes
  <2>1. r.phase = o.phase /\ r.todo = o.todo
    BY <2>0 DEF PruneSnapshotEffect, Only, Fields
  <2> QED
    BY <2>0, <2>1 DEF PruneSnapshotEffect, Plain, CatchingUp, InUpload, Shipping, Clearing
<1> QED
  BY <1>1, <1>2, <1>3, <1>4, <1>5, <1>6, <1>7, <1>8, <1>9, <1>10, <1>11, <1>12, <1>13, <1>14,
       <1>15, <1>16, <1>17, <1>18, <1>19, <1>20 DEF Step, Special, Ends

LEMMA Grows ==
  ASSUME Control, NEW p \in Procs, Step(p)
  PROVE  pruned \subseteq pruned' /\ UNCHANGED job /\ breaks <= breaks' /\ breaks \in Nat
<1> PICK o : o = run[p]
  OBVIOUS
<1> PICK r : r = run'[p]
  OBVIOUS
<1>1. breaks \in Nat
  BY BackupAssumption DEF Control, TypeOK
<1>2. CASE ~Special(p)
  BY <1>1, <1>2, PlainOrSpecial DEF Plain
<1>3. CASE Delivered(p)
  BY <1>1, <1>3, DeliveredDoes DEF DeliveredEffect
<1>4. CASE MarkPending(p)
  BY <1>1, <1>4, MarkPendingDoes DEF MarkPendingEffect
<1>5. CASE CatchUp(p)
  BY <1>1, <1>5, CatchUpDoes DEF CatchUpEffect
<1>6. CASE ForgetPending(p)
  BY <1>1, <1>6, ForgetPendingDoes DEF ForgetPendingEffect
<1>7. CASE ShipPending(p)
  BY <1>1, <1>7, ShipPendingDoes DEF ShipPendingEffect
<1>8. CASE Shipped(p)
  <2>2. UNCHANGED <<job, breaks, pruned>>
    BY <1>8 DEF Shipped, env, history
  <2> QED
    BY <1>1, <2>2
<1>9. CASE DeleteKey(p)
  BY <1>1, <1>9, DeleteKeyDoes DEF DeleteKeyEffect
<1>10. CASE Ends(p)
  BY <1>1, <1>10, EndsDoes DEF EndsEffect
<1> QED
  BY <1>2, <1>3, <1>4, <1>5, <1>6, <1>7, <1>8, <1>9, <1>10 DEF Special

\* A snapshot another run has just put in the data dir stays there, or is
\* selected.
LEMMA LocalStays ==
  ASSUME Control, Holds, NothingTorn, NEW p \in Procs, Step(p), NEW o, o = run[p],
         pruned \subseteq pruned', NEW s \in Sids, s # o.sid, ~Carries(o, s), Held(Local, s)
  PROVE  Held(Local, s)'
<1>1. Local \in Places /\ Relies(o)
  BY DEF Control, TypeOK, Places, Holds
<1>2. CASE UNCHANGED <<archive, manifest>>
  BY <1>2 DEF Held, Complete
<1>3. CASE EraseStep(o)
  <2>1. PICK d \in Places, t \in Sids : ErasesAt(d, t) /\ MayErase(o, d, t)
    BY <1>3 DEF EraseStep
  <2>2. CASE t = s
    BY <2>1, <2>2, <1>1 DEF MayErase, Carries, Relies, Held
  <2>3. CASE t # s
    BY <2>1, <2>3, <1>1 DEF ErasesAt, Removes, Held, Complete
  <2> QED
    BY <2>2, <2>3
<1>4. CASE PutStep(o)
  <2>1. PICK d \in o.queue : PutsAt(d, o.item)
    BY <1>4 DEF PutStep
  <2>2. s # o.item
    <3>1. Shape(o)
      BY DEF Control
    <3> QED
      BY <1>4, <3>1 DEF PutStep, Shape, Carries, Shipping, Undelivered, InUpload
  <2> QED
    BY <2>1, <2>2, <1>1 DEF PutsAt, Writes, Held, Complete
<1> QED
  BY <1>2, <1>3, <1>4, CellsMove

LEMMA PendingAdvances ==
  ASSUME Control, Holds, Safe, PendingKept, NEW p \in Procs, Step(p),
         NEW o, o = run[p], NEW r, r = run'[p], o.pc # "idle",
         \A s \in markers' \ markers : s = o.sid /\ (Here(s) \/ Found(s)),
         \A s \in markers \ markers' : Found(s),
         \A s \in due' \ due : s = o.sid /\ r.pc = "track" /\ r.sid = s,
         o.pc = "track" => \/ breaks' # 0
                           \/ o.sid \in due => Found(o.sid) \/ o.sid \in markers',
         \A s : Carries(r, s) => Carries(o, s) \/ s \in markers,
         Unmarked(r)', Ships(r)', due \subseteq stored, markers \subseteq stored,
         \A s \in markers' \ markers : s \in stored
  PROVE  PendingKept'
<1>1. /\ pruned \subseteq pruned' /\ UNCHANGED job /\ breaks <= breaks' /\ breaks \in Nat
      /\ breaks' = 0 => breaks = 0
  <2>1. pruned \subseteq pruned' /\ UNCHANGED job /\ breaks <= breaks' /\ breaks \in Nat
    BY Grows
  <2> QED
    BY <2>1
<1>2. \A q \in Procs \ {p} : run'[q] = run[q]
  BY OthersStay
<1>3. \A s \in markers' : Here(s)' \/ Found(s)'
  <2> SUFFICES ASSUME NEW s \in markers' PROVE Here(s)' \/ Found(s)'
    OBVIOUS
  <2>1. s \in stored /\ (Here(s) \/ Found(s))
    BY DEF PendingKept
  <2>2. CASE Here(s)
    BY <2>1, <2>2, <1>1, HereStays
  <2>3. CASE ~Here(s) /\ ~Found(s)'
    <3>1. Sequential /\ Shipping(o) /\ s = o.item
      BY <2>1, <2>3, <1>1, FoundStays
    <3>2. Held(Local, s)
      BY <3>1 DEF Holds, Relies
    <3> QED
      BY <2>3, <3>2, <1>1 DEF Held, Complete, Here, Found
  <2> QED
    BY <2>2, <2>3
<1>4. ASSUME breaks' = 0, NEW s \in due' PROVE Found(s)' \/ s \in markers' \/ Tracking(s)'
  <2>1. CASE s \notin due
    BY <2>1 DEF Tracking, At
  <2>2. CASE s \in due /\ Found(s)
    <3>1. CASE ~Found(s)'
      <4>1. Sequential /\ Shipping(o) /\ s = o.item /\ UNCHANGED markers
        BY <2>2, <3>1, <1>1, FoundStays
      <4>2. Ships(o)
        BY DEF PendingKept
      <4> QED
        BY <4>1, <4>2 DEF Ships
    <3> QED
      BY <3>1
  <2>3. CASE s \in due /\ ~Found(s) /\ s \in markers
    BY <2>3
  <2>4. CASE s \in due /\ ~Found(s) /\ s \notin markers
    <3>1. PICK q \in Procs : run[q].pc = "track" /\ run[q].sid = s
      BY <2>4, <1>1, <1>4 DEF PendingKept, Tracking, At
    <3>2. CASE q = p
      BY <2>4, <3>1, <3>2, <1>4
    <3>3. CASE q # p
      BY <3>1, <3>3, <1>2 DEF Tracking, At
    <3> QED
      BY <3>2, <3>3
  <2> QED
    BY <2>1, <2>2, <2>3, <2>4
<1>5. ASSUME NEW q \in Procs PROVE (Unmarked(run[q]) /\ Ships(run[q]))'
  <2>1. CASE q = p
    BY <2>1
  <2>2. CASE q # p
    <3> PICK x : x = run[q]
      OBVIOUS
    <3>1. NothingTorn /\ ~Sequential
      BY <2>2 DEF Safe, Sequential
    <3>2. Unmarked(x) /\ Ships(x) /\ run'[q] = x
      BY <2>2, <1>2 DEF PendingKept
    <3>3. Ships(x)'
      BY <3>1, <3>2 DEF Ships, Sequential
    <3>4. ASSUME x.pc = "track"
          PROVE  /\ x.sid \notin markers'
                 /\ \A e \in Procs : ~Carries(run'[e], x.sid)
                 /\ Local \in x.stored => Held(Local, x.sid)'
                 /\ x.sid \in due' => job'.s3 # {} /\ x.stored # {}
      <4>1. x.sid # o.sid /\ x.sid \in Sids
        BY <2>2, <3>4 DEF Control, Shape
      <4>2. /\ x.sid \notin markers
            /\ \A e \in Procs : ~Carries(run[e], x.sid)
            /\ Local \in x.stored => Held(Local, x.sid)
            /\ x.sid \in due => job.s3 # {} /\ x.stored # {}
        BY <3>2, <3>4 DEF Unmarked
      <4>3. x.sid \notin markers' /\ (x.sid \in due' => x.sid \in due)
        BY <4>1, <4>2
      <4>4. ASSUME NEW e \in Procs PROVE ~Carries(run'[e], x.sid)
        <5>1. CASE e = p
          BY <4>2, <5>1
        <5>2. CASE e # p
          BY <4>2, <5>2, <1>2
        <5> QED
          BY <5>1, <5>2
      <4>5. Local \in x.stored => Held(Local, x.sid)'
        BY <4>1, <4>2, <3>1, <1>1, LocalStays
      <4> QED
        BY <4>2, <4>3, <4>4, <4>5, <1>1
    <3>5. Unmarked(x)'
      BY <3>4 DEF Unmarked
    <3> QED
      BY <3>2, <3>3, <3>5
  <2> QED
    BY <2>1, <2>2
<1> QED
  BY <1>3, <1>4, <1>5 DEF PendingKept

LEMMA StepIsBusy ==
  ASSUME NEW p \in Procs, Step(p)
  PROVE  run[p].pc # "idle"
BY DEF Step, Produce, AbortRun, Connect, PutArchive, ArchivePutFails,
       PutSidecar, SidecarPutFails, FallBack, Delivered, MarkPending, CatchUp, ForgetPending,
       ShipPending, StaysPending, Shipped, ClearArchive, ClearManifest, CaughtUp,
       SelectSnapshots, ListingFails, PruneSnapshot, DeleteKey, DeletionFails, PlacePruned,
       RetentionDone, DropLocalArchive, DropLocalManifest, KeepLocalCopy, Record,
       At, Uploaded, NextPending, NextPlace

\* A run that ends before it marked its snapshot was cut short.
LEMMA PendingEnds ==
  ASSUME Control, PendingKept, NEW p \in Procs, NEW o, o = run[p], NEW r, r = run'[p],
         EndsEffect(o, r), \A q \in Procs \ {p} : run'[q] = run[q]
  PROVE  PendingKept'
<1>1. /\ UNCHANGED <<job, archive, manifest, markers, due, pruned>>
      /\ breaks <= breaks' /\ (o.pc = "track" => breaks' # 0) /\ breaks \in Nat
  BY BackupAssumption DEF EndsEffect, Control, TypeOK
<1>2. r.pc = "idle" /\ r.todo = {} /\ ~Shipping(r) /\ ~Clearing(r) /\ ~CatchingUp(r)
  BY DEF EndsEffect, Idle, InUpload, Shipping, Clearing, CatchingUp
<1>3. \A s : (Here(s)' = Here(s)) /\ (Found(s)' = Found(s)) /\ (Held(Local, s)' = Held(Local, s))
  BY <1>1 DEF Here, Found, OnS3, Complete, Held
<1>4. \A s \in markers' : Here(s)' \/ Found(s)'
  BY <1>1, <1>3 DEF PendingKept
<1>5. ASSUME breaks' = 0, NEW s \in due' PROVE Found(s)' \/ s \in markers' \/ Tracking(s)'
  <2>1. breaks = 0 /\ o.pc # "track" /\ s \in due
    BY <1>1, <1>5
  <2>2. CASE ~Found(s) /\ s \notin markers
    <3>1. PICK q \in Procs : run[q].pc = "track" /\ run[q].sid = s
      BY <2>1, <2>2 DEF PendingKept, Tracking, At
    <3>2. q # p
      BY <2>1, <3>1
    <3> QED
      BY <3>1, <3>2 DEF Tracking, At
  <2> QED
    BY <2>1, <2>2, <1>1, <1>3
<1>6. ASSUME NEW q \in Procs PROVE (Unmarked(run[q]) /\ Ships(run[q]))'
  <2>1. CASE q = p
    BY <1>2, <2>1 DEF Unmarked, Ships
  <2>2. CASE q # p
    <3> PICK x : x = run[q]
      OBVIOUS
    <3>1. Unmarked(x) /\ Ships(x) /\ run'[q] = x
      BY <2>2 DEF PendingKept
    <3>2. Ships(x)'
      BY <1>1, <3>1 DEF Ships
    <3>3. \A e \in Procs : \A s : Carries(run'[e], s) => Carries(run[e], s)
      <4> SUFFICES ASSUME NEW e \in Procs, NEW s, Carries(run'[e], s) PROVE Carries(run[e], s)
        OBVIOUS
      <4>1. e # p
        BY <1>2 DEF Carries
      <4> QED
        BY <4>1
    <3>4. Unmarked(x)'
      BY <1>1, <1>3, <3>1, <3>3 DEF Unmarked
    <3> QED
      BY <3>1, <3>2, <3>4
  <2> QED
    BY <2>1, <2>2
<1> QED
  BY <1>4, <1>5, <1>6 DEF PendingKept

LEMMA PendingByStep ==
  ASSUME Control, Holds, Safe, PendingKept, NEW p \in Procs, Step(p)
  PROVE  PendingKept'
<1> PICK o : o = run[p]
  OBVIOUS
<1> PICK r : r = run'[p]
  OBVIOUS
<1>a. /\ Shape(o) /\ Tracks(o, stored, markers, clock) /\ Unmarked(o) /\ Ships(o)
      /\ Relies(o) /\ o \in Run
  BY DEF Control, TypeOK, PendingKept, Holds
<1>b. /\ due \subseteq stored /\ markers \subseteq stored /\ Local \in Places
      /\ \A s \in markers : Here(s) \/ Found(s)
      /\ \A q \in Procs : Tracks(run[q], stored, markers, clock)
  BY DEF Control, TypeOK, PendingKept, Places
<1>c. \A q \in Procs \ {p} : run'[q] = run[q]
  BY OthersStay
<1>1. CASE ~Special(p)
  <2>1. Plain(o, r)
    BY <1>1, PlainOrSpecial
  <2>2. UNCHANGED <<job, markers, due, breaks>> /\ o.pc # "track" /\ r.pc # "track"
    BY <2>1 DEF Plain
  <2>3. \A s : Carries(r, s) => Carries(o, s)
    BY <2>1 DEF Plain, Carries
  <2>4. Unmarked(r)' /\ Ships(r)'
    BY <2>1, <1>a DEF Plain, Unmarked, Ships
  <2>5. o.pc # "idle"
    BY StepIsBusy
  <2> QED
    BY <2>2, <2>3, <2>4, <2>5, <1>b, PendingAdvances
<1>2. CASE Delivered(p)
  <2>0. DeliveredEffect(o, r)
    BY <1>2, DeliveredDoes
  <2>1. r.sid = o.sid /\ r.todo = o.todo /\ o.pc # "idle" /\ o.pc # "track" /\ r.pc = "track"
        /\ UNCHANGED <<job, markers>>
    BY <2>0 DEF DeliveredEffect, Only, Fields
  <2>2. Undelivered(o) /\ InUpload(o) /\ ~CatchingUp(o) /\ ~CatchingUp(r) /\ ~Shipping(r) /\ ~Clearing(r)
    BY <2>0 DEF DeliveredEffect, Undelivered, InUpload, CatchingUp, Shipping, Clearing
  <2>3. o.sid \notin stored /\ r.todo = {}
    BY <2>1, <2>2, <1>a DEF Tracks, Ships
  <2>4. \A s \in due' \ due : s = o.sid
    BY <2>0 DEF DeliveredEffect
  <2>5. \A q \in Procs : ~Carries(run'[q], o.sid)
    <3> SUFFICES ASSUME NEW q \in Procs PROVE ~Carries(run'[q], o.sid)
      OBVIOUS
    <3>1. CASE q = p
      BY <2>2, <2>3, <3>1 DEF Carries
    <3>2. CASE q # p
      BY <2>3, <1>b, <1>c, <3>2 DEF Carries, Tracks
    <3> QED
      BY <3>1, <3>2
  <2>6. Local \in r.stored => Held(Local, r.sid)'
    <3>1. r.stored = o.got /\ UNCHANGED <<archive, manifest, pruned>>
      BY <2>0 DEF DeliveredEffect
    <3>2. o.item = o.sid
      BY <2>2, <1>a DEF Shape
    <3> QED
      BY <2>1, <2>2, <3>1, <3>2, <1>a DEF Relies, Held, Complete
  <2>7. r.sid \in due' => job'.s3 # {} /\ r.stored # {}
    BY <2>0, <2>1, <2>3, <1>b DEF DeliveredEffect
  <2>8. Unmarked(r)'
    BY <2>1, <2>3, <2>5, <2>6, <2>7, <1>b DEF Unmarked
  <2>9. Ships(r)'
    BY <2>2, <2>3 DEF Ships
  <2>10. \A s : ~Carries(r, s)
    BY <2>2, <2>3 DEF Carries
  <2> QED
    BY <2>1, <2>4, <2>8, <2>9, <2>10, <1>b, PendingAdvances
<1>3. CASE MarkPending(p)
  <2>0. MarkPendingEffect(o, r)
    BY <1>3, MarkPendingDoes
  <2>1. r.todo = o.todo /\ r.stored = o.stored /\ o.pc = "track" /\ r.pc = "retain"
        /\ UNCHANGED <<job, due>> /\ OffsiteOf(o) = {}
    BY <2>0 DEF MarkPendingEffect, Only, Fields
  <2>2. markers' = IF job.s3 # {} /\ o.stored # {} THEN markers \cup {o.sid} ELSE markers
    BY <2>0 DEF MarkPendingEffect
  <2>3. ~CatchingUp(o) /\ ~CatchingUp(r) /\ ~Shipping(r) /\ ~Clearing(r)
    BY <2>1 DEF InUpload, CatchingUp, Shipping, Clearing
  <2>4. r.todo = {}
    BY <2>1, <2>3, <1>a DEF Ships
  <2>5. \A s \in markers' \ markers : s = o.sid /\ s \in stored /\ (Here(s) \/ Found(s))
    <3> SUFFICES ASSUME o.stored # {} PROVE o.sid \in stored /\ (Here(o.sid) \/ Found(o.sid))
      BY <2>2
    <3>1. Local \in o.stored
      BY <2>1 DEF OffsiteOf
    <3>2. Held(Local, o.sid)
      BY <2>1, <3>1, <1>a DEF Unmarked
    <3>3. o.sid \in stored
      BY <2>1, <1>a DEF Tracks, Undelivered, InUpload
    <3> QED
      BY <3>2, <3>3 DEF Held, Complete, Here, Found
  <2>6. o.sid \in due => o.sid \in markers'
    BY <2>1, <2>2, <1>a DEF Unmarked
  <2>7. Unmarked(r)' /\ Ships(r)'
    BY <2>1, <2>3, <2>4 DEF Unmarked, Ships
  <2>8. \A s : ~Carries(r, s)
    BY <2>3, <2>4 DEF Carries
  <2> QED
    BY <2>1, <2>2, <2>5, <2>6, <2>7, <2>8, <1>b, PendingAdvances
<1>4. CASE CatchUp(p)
  <2>0. CatchUpEffect(o, r)
    BY <1>4, CatchUpDoes
  <2>1. o.pc = "track" /\ r.pc = "ship" /\ r.todo = markers /\ OffsiteOf(o) # {}
        /\ UNCHANGED <<job, due, markers>>
    BY <2>0 DEF CatchUpEffect
  <2>2. CatchingUp(r) /\ ~Shipping(r) /\ ~Clearing(r)
    BY <2>1 DEF InUpload, CatchingUp, Shipping, Clearing
  <2>3. Found(o.sid)
    <3>1. PICK d \in OffsiteOf(o) : Held(d, o.sid)
      BY <2>1, <1>a DEF Relies
    <3>2. d \in S3
      BY <1>a DEF OffsiteOf, Run, Places
    <3> QED
      BY <3>1, <3>2 DEF Held, Found, OnS3
  <2>4. Unmarked(r)' /\ Ships(r)'
    BY <2>1, <2>2 DEF Unmarked, Ships
  <2>5. \A s : Carries(r, s) => s \in markers
    BY <2>1, <2>2 DEF Carries
  <2> QED
    BY <2>1, <2>3, <2>4, <2>5, <1>b, PendingAdvances
<1>5. CASE ForgetPending(p)
  <2>0. ForgetPendingEffect(o, r)
    BY <1>5, ForgetPendingDoes
  <2>1. o.pc = "ship" /\ r.pc = "ship" /\ r.item = o.item /\ UNCHANGED <<job, due>>
    BY <2>0 DEF ForgetPendingEffect, Only, Fields
  <2>2. PICK s \in o.todo : /\ archive[Local][s] = "absent" \/ manifest[Local][s] = "absent"
                            /\ markers' = markers \ {s} /\ r.todo = o.todo \ {s}
    BY <2>0 DEF ForgetPendingEffect
  <2>3. CatchingUp(r) /\ ~Shipping(r) /\ ~Clearing(r)
    BY <2>1 DEF InUpload, CatchingUp, Shipping, Clearing
  <2>4. \A t \in markers \ markers' : Found(t)
    BY <2>2, <1>b DEF Here
  <2>5. Unmarked(r)' /\ Ships(r)'
    BY <2>1, <2>2, <2>3, <1>a DEF Unmarked, Ships
  <2>6. \A t : Carries(r, t) => Carries(o, t)
    BY <2>2, <2>3 DEF Carries
  <2> QED
    BY <2>1, <2>2, <2>4, <2>5, <2>6, <1>b, PendingAdvances
<1>6. CASE ShipPending(p)
  <2>0. ShipPendingEffect(o, r)
    BY <1>6, ShipPendingDoes
  <2>1. /\ o.pc = "ship" /\ r.pc = "archive" /\ r.item \in o.todo /\ r.todo = o.todo \ {r.item}
        /\ UNCHANGED <<job, due, markers>> /\ r.phase = "ship"
    BY <2>0 DEF ShipPendingEffect
  <2>2. CatchingUp(r) /\ ~Clearing(r)
    BY <2>1 DEF InUpload, CatchingUp, Shipping, Clearing
  <2>3. Unmarked(r)' /\ Ships(r)'
    BY <2>1, <2>2, <1>a DEF Unmarked, Ships
  <2>4. \A t : Carries(r, t) => Carries(o, t)
    BY <2>1, <2>2 DEF Carries
  <2> QED
    BY <2>1, <2>3, <2>4, <1>b, PendingAdvances
<1>7. CASE Shipped(p)
  <2>0. ShippedEffect(o, r)
    BY <1>7, ShippedDoes
  <2>1. /\ o.pc = "archive" /\ o.phase = "ship" /\ o.got = OffsiteOf(o)
        /\ r.pc \in {"ship", "clear archive"} /\ markers' = markers \ {o.item}
        /\ UNCHANGED <<job, due>>
    BY <2>0 DEF ShippedEffect
  <2>2. r.todo = o.todo /\ r.item = o.item
    BY <2>0 DEF ShippedEffect, Only, Fields
  <2>3. Shipping(o) /\ InUpload(o) /\ CatchingUp(o) /\ CatchingUp(r) /\ ~Shipping(r)
    BY <2>1 DEF InUpload, CatchingUp, Shipping, Clearing
  <2>4. Found(o.item)
    <3>1. PICK d \in OffsiteOf(o) : Held(d, o.item)
      BY <2>1, <2>3, <1>a DEF Relies, Shape
    <3>2. d \in S3
      BY <1>a DEF OffsiteOf, Run, Places
    <3> QED
      BY <3>1, <3>2 DEF Held, Found, OnS3
  <2>5. Unmarked(r)' /\ Ships(r)'
    BY <2>1, <2>2, <2>3, <1>a DEF Unmarked, Ships
  <2>6. \A t : Carries(r, t) => Carries(o, t)
    BY <2>2, <2>3 DEF Carries
  <2> QED
    BY <2>1, <2>4, <2>5, <2>6, <1>b, PendingAdvances
<1>8. CASE DeleteKey(p)
  <2> PICK k : k = FirstKey(o.keys)
    OBVIOUS
  <2>0. DeleteKeyEffect(o, r, k)
    BY <1>8, DeleteKeyDoes
  <2>1. /\ o.pc = "delete" /\ r.pc \in {"prune", "delete"} /\ UNCHANGED <<job, due>>
        /\ markers' = markers \/ markers' = markers \ {o.item}
    BY <2>0 DEF DeleteKeyEffect
  <2>2. r.todo = o.todo
    BY <2>0 DEF DeleteKeyEffect, Only, Fields
  <2>3. ~CatchingUp(o) /\ ~CatchingUp(r) /\ ~Shipping(r) /\ ~Clearing(r)
    BY <2>1 DEF InUpload, CatchingUp, Shipping, Clearing
  <2>4. r.todo = {}
    BY <2>2, <2>3, <1>a DEF Ships
  <2>5. \A s \in markers \ markers' : Found(s)
    BY <2>1, <1>a DEF Relies, Found
  <2>6. Unmarked(r)' /\ Ships(r)'
    BY <2>1, <2>3, <2>4 DEF Unmarked, Ships
  <2>7. \A s : ~Carries(r, s)
    BY <2>3, <2>4 DEF Carries
  <2> QED
    BY <2>1, <2>5, <2>6, <2>7, <1>b, PendingAdvances
<1>9. CASE Ends(p)
  <2>0. EndsEffect(o, r)
    BY <1>9, EndsDoes
  <2> QED
    BY <2>0, <1>c, PendingEnds
<1> QED
  BY <1>1, <1>2, <1>3, <1>4, <1>5, <1>6, <1>7, <1>8, <1>9 DEF Special

LEMMA PendingInit == Init => PendingKept
<1> SUFFICES ASSUME Init PROVE PendingKept
  OBVIOUS
<1>1. ASSUME NEW p \in Procs PROVE Unmarked(run[p]) /\ Ships(run[p])
  <2>1. run[p] = Idle
    BY DEF Init
  <2> QED
    BY <2>1 DEF Idle, Unmarked, Ships, CatchingUp, InUpload, Shipping, Clearing
<1> QED
  BY <1>1 DEF Init, PendingKept

LEMMA PendingStep ==
  ASSUME Control, Holds, Safe, PendingKept, [Next]_vars
  PROVE  PendingKept'
<1>1. ASSUME NEW p \in Procs, Begin(p)
      PROVE  PendingKept'
  <2> PICK o : o = run[p]
    OBVIOUS
  <2> PICK r : r = run'[p]
    OBVIOUS
  <2>1. BeginEffect(o, r)
    BY <1>1, BeginDoes
  <2>2. /\ UNCHANGED <<job, archive, manifest, markers, due, pruned, breaks>>
        /\ o.pc = "idle" /\ r.pc = "produce"
    BY <2>1 DEF BeginEffect
  <2>3. r.todo = o.todo /\ Ships(o) /\ \A q \in Procs \ {p} : run'[q] = run[q]
    BY <1>1, <2>1, OthersStay DEF BeginEffect, Only, Fields, PendingKept
  <2>4. r.todo = {} /\ ~CatchingUp(o) /\ ~CatchingUp(r) /\ ~Shipping(r) /\ ~Clearing(r)
    BY <2>2, <2>3 DEF Ships, CatchingUp, InUpload, Shipping, Clearing
  <2>5. \A s : (Here(s)' = Here(s)) /\ (Found(s)' = Found(s)) /\ (Held(Local, s)' = Held(Local, s))
    BY <2>2 DEF Here, Found, OnS3, Complete, Held
  <2>6. \A s \in markers' : Here(s)' \/ Found(s)'
    BY <2>2, <2>5 DEF PendingKept
  <2>7. ASSUME NEW s PROVE Tracking(s) => Tracking(s)'
    <3> SUFFICES ASSUME NEW q \in Procs, run[q].pc = "track" /\ run[q].sid = s PROVE Tracking(s)'
      BY DEF Tracking, At
    <3>1. q # p
      BY <2>2
    <3> QED
      BY <2>3, <3>1 DEF Tracking, At
  <2>8. breaks' = 0 => \A s \in due' : Found(s)' \/ s \in markers' \/ Tracking(s)'
    BY <2>2, <2>5, <2>7 DEF PendingKept
  <2>9. ASSUME NEW q \in Procs PROVE (Unmarked(run[q]) /\ Ships(run[q]))'
    <3>1. CASE q = p
      BY <2>2, <2>4, <3>1 DEF Unmarked, Ships
    <3>2. CASE q # p
      <4> PICK x : x = run[q]
        OBVIOUS
      <4>1. Unmarked(x) /\ Ships(x) /\ run'[q] = x
        BY <2>3, <3>2 DEF PendingKept
      <4>2. Ships(x)'
        BY <2>2, <4>1 DEF Ships
      <4>3. \A e \in Procs : \A s : Carries(run'[e], s) => Carries(run[e], s)
        <5> SUFFICES ASSUME NEW e \in Procs, NEW s, Carries(run'[e], s) PROVE Carries(run[e], s)
          OBVIOUS
        <5>1. e # p
          BY <2>4 DEF Carries
        <5> QED
          BY <2>3, <5>1
      <4>4. Unmarked(x)'
        BY <2>2, <2>5, <4>1, <4>3 DEF Unmarked
      <4> QED
        BY <4>1, <4>2, <4>4
    <3> QED
      BY <3>1, <3>2
  <2> QED
    BY <2>6, <2>8, <2>9 DEF PendingKept
<1>2. ASSUME NEW p \in Procs, Kill(p) \/ AbortStoredRun(p)
      PROVE  PendingKept'
  <2> PICK o : o = run[p]
    OBVIOUS
  <2> PICK r : r = run'[p]
    OBVIOUS
  <2>1. EndsEffect(o, r)
    BY <1>2, EndsDoes DEF Ends
  <2>2. \A q \in Procs \ {p} : run'[q] = run[q]
    BY <1>2, OthersStay
  <2> QED
    BY <2>1, <2>2, PendingEnds
<1>3. CASE Reconfigure \/ UNCHANGED vars
  <2>1. /\ UNCHANGED <<archive, manifest, markers, run, due, pruned, breaks>>
        /\ \/ UNCHANGED job
           \/ \A p \in Procs : run[p].pc = "idle"
    BY <1>3 DEF Reconfigure, vars, places, history, At
  <2>2. \A s : (Here(s)' = Here(s)) /\ (Found(s)' = Found(s)) /\ (Held(Local, s)' = Held(Local, s))
    BY <2>1 DEF Here, Found, OnS3, Complete, Held
  <2>3. \A s : Tracking(s)' = Tracking(s)
    BY <2>1 DEF Tracking, At
  <2>4. ASSUME NEW q \in Procs PROVE (Unmarked(run[q]) /\ Ships(run[q]))'
    <3> PICK x : x = run[q]
      OBVIOUS
    <3>1. Unmarked(x) /\ Ships(x) /\ run'[q] = x
      BY <2>1 DEF PendingKept
    <3>2. Ships(x)'
      BY <2>1, <3>1 DEF Ships
    <3>3. Unmarked(x)'
      BY <2>1, <2>2, <3>1 DEF Unmarked
    <3> QED
      BY <3>1, <3>2, <3>3
  <2> QED
    BY <2>1, <2>2, <2>3, <2>4 DEF PendingKept
<1> QED
  BY <1>1, <1>2, <1>3, PendingByStep DEF Next

(***************************************************************************)
(* As long as nothing was cut short, a snapshot that should be off-site    *)
(* and is not is marked pending, stays so until it is off-site or a policy *)
(* selected it, and loses its marker to no other run: for one process      *)
(* whatever a failed put leaves, and for any number if it leaves nothing   *)
(* torn.                                                                   *)
(***************************************************************************)
THEOREM PendingHolds ==
  ASSUME Sequential \/ NothingTorn
  PROVE  Spec => []PendingOrOffsite
<1>1. Safe
  BY DEF Safe
<1>2. Init => Control /\ Holds /\ PendingKept
  BY ControlInit, HoldsInit, PendingInit
<1>3. Control /\ Holds /\ PendingKept /\ [Next]_vars => (Control /\ Holds /\ PendingKept)'
  BY <1>1, ControlStep, HoldsStep, PendingStep
<1>4. Control /\ PendingKept => PendingOrOffsite
  BY DEF PendingKept, PendingOrOffsite, Found, Tracking, Running, At
<1> QED
  BY <1>2, <1>3, <1>4, PTL DEF Spec

-----------------------------------------------------------------------------
(* The newest snapshot survives *)

SmartLast == \A j \in Jobs : j.retention.smart_last

\* No failed put leaves a torn manifest; and with runs that overlap no torn
\* archive either.
WholeManifests == NothingTorn \/ (Sequential /\ "torn" \notin ManifestLeft)

\* Something restorable is as new as s, or newer.
From(s)  == \E t \in Sids : t >= s /\ Restorable(t)
Above(s) == \E t \in Sids : t > s /\ Restorable(t)

\* A run that still delivers has listed its snapshot where it is done with it,
\* and nowhere else: no put tears a copy that counts.
Fresh(r) ==
  Undelivered(r) =>
    /\ \A d \in Places : manifest[d][r.sid] # "absent" =>
         InUpload(r) /\ d \notin r.queue /\ (d \in r.dests \/ r.phase = "fallback")
    /\ InUpload(r) /\ r.phase = "deliver" => r.queue \subseteq r.dests

NewestKept ==
  /\ \A d \in Places : \A s \in Listed(d) : s <= clock /\ From(s)
  /\ \A s \in stored : From(s)
  /\ \A s \in pruned : Above(s)
  /\ \A p \in Procs : Fresh(run[p]) /\ \A s \in run[p].plan : Above(s)

\* Only what the places hold of x changes.
Alters(x) ==
  \A d \in Places, s \in Sids : s # x =>
    archive'[d][s] = archive[d][s] /\ manifest'[d][s] = manifest[d][s]

LEMMA AboveSurvives ==
  ASSUME NEW x \in Sids, Alters(x), Above(x)
  PROVE  From(x)'
<1>1. PICK t \in Sids : t > x /\ Restorable(t)
  BY DEF Above
<1>2. t # x /\ t >= x
  BY <1>1 DEF Sids
<1>3. Restorable(t)'
  BY <1>1, <1>2 DEF Alters, Restorable, Complete
<1> QED
  BY <1>2, <1>3 DEF From

LEMMA ItselfSurvives ==
  ASSUME NEW x \in Sids, Restorable(x)'
  PROVE  From(x)'
<1>1. x >= x
  BY DEF Sids
<1> QED
  BY <1>1 DEF From

\* A copy is torn or erased only when a newer snapshot is restorable, or this
\* one still is.
LEMMA RestorableStays ==
  ASSUME Control, Holds, WholeManifests, NEW p \in Procs, Step(p), NEW o, o = run[p], Fresh(o),
         \A s \in pruned : Above(s), NEW s \in Sids, Restorable(s)
  PROVE  From(s)'
<1>1. Relies(o) /\ o \in Run /\ Shape(o) /\ Local \in Places /\ S3 \subseteq Places
  BY DEF Control, TypeOK, Holds, Places
<1>2. PICK e \in Places : Complete(e, s)
  BY DEF Restorable
<1>3. CASE UNCHANGED <<archive, manifest>>
  BY <1>2, <1>3, ItselfSurvives DEF Restorable, Complete
<1>4. CASE EraseStep(o)
  <2>1. PICK d \in Places, x \in Sids : ErasesAt(d, x) /\ MayErase(o, d, x)
    BY <1>4 DEF EraseStep
  <2>2. Alters(x)
    BY <2>1 DEF ErasesAt, Removes, Alters
  <2>3. CASE x # s
    <3>1. Complete(e, s)'
      BY <1>2, <2>2, <2>3 DEF Alters, Complete
    <3> QED
      BY <3>1, ItselfSurvives DEF Restorable
  <2>4. CASE x = s /\ s \in pruned
    BY <2>2, <2>4, AboveSurvives
  <2>5. CASE x = s /\ s \notin pruned
    <3>1. OnS3(s)'
      BY <2>1, <2>5, ErasedIsElsewhere
    <3>2. Restorable(s)'
      BY <3>1, <1>1 DEF OnS3, Restorable
    <3> QED
      BY <3>2, ItselfSurvives
  <2> QED
    BY <2>3, <2>4, <2>5
<1>5. CASE PutStep(o)
  <2>1. PICK d \in o.queue : PutsAt(d, o.item)
    BY <1>5 DEF PutStep
  <2>2. o.item \in Sids /\ d \in Places /\ InUpload(o)
    BY <2>1, <1>1, <1>5 DEF PutStep, Shape, Run
  <2>3. Alters(o.item)
    BY <2>1 DEF PutsAt, Writes, Alters
  <2>4. CASE o.item # s
    <3>1. Complete(e, s)'
      BY <1>2, <2>3, <2>4 DEF Alters, Complete
    <3> QED
      BY <3>1, ItselfSurvives DEF Restorable
  <2>5. CASE o.item = s /\ NothingTorn
    <3>1. CASE e = d
      BY <2>1, <2>5, <3>1, <1>2, ItselfSurvives DEF PutsAt, WritesWhole, Complete, Restorable
    <3>2. CASE e # d
      <4>1. Complete(e, s)'
        BY <2>1, <3>2, <1>2 DEF PutsAt, Writes, Complete
      <4> QED
        BY <4>1, ItselfSurvives DEF Restorable
    <3> QED
      BY <3>1, <3>2
  <2>6. CASE o.item = s /\ Sequential /\ Shipping(o)
    <3>1. Held(Local, s) /\ d # Local
      BY <2>1, <2>6, <1>1 DEF Relies, Shape
    <3>2. CASE s \in pruned
      BY <3>2, <2>3, <2>6, AboveSurvives
    <3>3. CASE Complete(Local, s)
      <4>1. Complete(Local, s)'
        BY <2>1, <3>1, <3>3, <1>1 DEF PutsAt, Writes, Complete
      <4> QED
        BY <4>1, <1>1, ItselfSurvives DEF Restorable
    <3> QED
      BY <3>1, <3>2, <3>3 DEF Held
  <2>7. CASE o.item = s /\ ~Shipping(o)
    <3>1. Undelivered(o) /\ o.item = o.sid
      BY <2>2, <2>7, <1>1 DEF Shape, Shipping, Undelivered
    <3>2. manifest[e][s] # "absent"
      BY <1>2 DEF Complete
    <3>3. e # d
      BY <3>1, <3>2, <2>1, <2>7 DEF Fresh
    <3>4. Complete(e, s)'
      BY <2>1, <3>3, <1>2 DEF PutsAt, Writes, Complete
    <3> QED
      BY <3>4, ItselfSurvives DEF Restorable
  <2> QED
    BY <2>4, <2>5, <2>6, <2>7 DEF WholeManifests
<1> QED
  BY <1>3, <1>4, <1>5, CellsMove

LEMMA NewestStays ==
  ASSUME \A s \in Sids : Restorable(s) => From(s)'
  PROVE  \A s \in Sids : (From(s) => From(s)') /\ (Above(s) => Above(s)')
<1> SUFFICES ASSUME NEW s \in Sids
             PROVE  (From(s) => From(s)') /\ (Above(s) => Above(s)')
  OBVIOUS
<1>1. \A t \in Sids : Restorable(t) => \E u \in Sids : u >= t /\ Restorable(u)'
  BY DEF From
<1>2. \A t, u \in Sids : /\ u >= t /\ t >= s => u >= s
                         /\ u >= t /\ t > s => u > s
  BY DEF Sids
<1>3. From(s) => From(s)'
  BY <1>1, <1>2 DEF From
<1>4. Above(s) => Above(s)'
  BY <1>1, <1>2 DEF Above
<1> QED
  BY <1>3, <1>4

\* The steps that store, select and list nothing.
Calm(o, r) ==
  /\ UNCHANGED <<clock, stored, pruned>> /\ r.plan \subseteq o.plan /\ ~Undelivered(r)
  /\ \A d \in Places, s \in Sids : manifest'[d][s] # "absent" => manifest[d][s] # "absent"

Telling(p) ==
  \/ Produce(p) \/ Connect(p) \/ FallBack(p) \/ PutSidecar(p) \/ SidecarPutFails(p)
  \/ \E d \in Places : PutArchive(p, d) \/ ArchivePutFails(p, d) \/ SelectSnapshots(p, d)
  \/ \E s \in Sids : PruneSnapshot(p, s)
  \/ Delivered(p)

LEMMA CalmOrTelling ==
  ASSUME Control, NEW p \in Procs, Step(p), ~Telling(p), NEW o, o = run[p], NEW r, r = run'[p]
  PROVE  Calm(o, r)
<1>1. CASE MarkPending(p)
  <2>0. MarkPendingEffect(o, r)
    BY <1>1, MarkPendingDoes
  <2>1. r.phase = o.phase /\ r.plan = o.plan
    BY <2>0 DEF MarkPendingEffect, Only, Fields
  <2>2. r.plan \subseteq o.plan /\ ~Undelivered(r)
    BY <2>0, <2>1 DEF MarkPendingEffect, InUpload, Undelivered
  <2>3. \A e \in Places, s \in Sids : manifest'[e][s] # "absent" => manifest[e][s] # "absent"
    BY <2>0 DEF MarkPendingEffect, Sets
  <2> QED
    BY <2>0, <2>2, <2>3 DEF MarkPendingEffect, Calm
<1>2. CASE CatchUp(p)
  <2>0. CatchUpEffect(o, r)
    BY <1>2, CatchUpDoes
  <2>1. r.phase = o.phase /\ r.plan = o.plan
    BY <2>0 DEF CatchUpEffect, Only, Fields
  <2>2. r.plan \subseteq o.plan /\ ~Undelivered(r)
    BY <2>0, <2>1 DEF CatchUpEffect, InUpload, Undelivered
  <2>3. \A e \in Places, s \in Sids : manifest'[e][s] # "absent" => manifest[e][s] # "absent"
    BY <2>0 DEF CatchUpEffect, Sets
  <2> QED
    BY <2>0, <2>2, <2>3 DEF CatchUpEffect, Calm
<1>3. CASE ForgetPending(p)
  <2>0. ForgetPendingEffect(o, r)
    BY <1>3, ForgetPendingDoes
  <2>1. r.pc = o.pc /\ r.phase = o.phase /\ r.plan = o.plan
    BY <2>0 DEF ForgetPendingEffect, Only, Fields
  <2>2. r.plan \subseteq o.plan /\ ~Undelivered(r)
    BY <2>0, <2>1 DEF ForgetPendingEffect, InUpload, Undelivered
  <2>3. \A e \in Places, s \in Sids : manifest'[e][s] # "absent" => manifest[e][s] # "absent"
    BY <2>0 DEF ForgetPendingEffect, Sets
  <2> QED
    BY <2>0, <2>2, <2>3 DEF ForgetPendingEffect, Calm
<1>4. CASE ShipPending(p)
  <2>0. ShipPendingEffect(o, r)
    BY <1>4, ShipPendingDoes
  <2>1. r.plan = o.plan
    BY <2>0 DEF ShipPendingEffect, Only, Fields
  <2>2. r.plan \subseteq o.plan /\ ~Undelivered(r)
    BY <2>0, <2>1 DEF ShipPendingEffect, InUpload, Undelivered
  <2>3. \A e \in Places, s \in Sids : manifest'[e][s] # "absent" => manifest[e][s] # "absent"
    BY <2>0 DEF ShipPendingEffect, Sets
  <2> QED
    BY <2>0, <2>2, <2>3 DEF ShipPendingEffect, Calm
<1>5. CASE StaysPending(p)
  <2>0. StaysPendingEffect(o, r)
    BY <1>5, StaysPendingDoes
  <2>1. r.phase = o.phase /\ r.plan = o.plan
    BY <2>0 DEF StaysPendingEffect, Only, Fields
  <2>2. r.plan \subseteq o.plan /\ ~Undelivered(r)
    BY <2>0, <2>1 DEF StaysPendingEffect, InUpload, Undelivered
  <2>3. \A e \in Places, s \in Sids : manifest'[e][s] # "absent" => manifest[e][s] # "absent"
    BY <2>0 DEF StaysPendingEffect, Sets
  <2> QED
    BY <2>0, <2>2, <2>3 DEF StaysPendingEffect, Calm
<1>6. CASE Shipped(p)
  <2>0. ShippedEffect(o, r)
    BY <1>6, ShippedDoes
  <2>1. r.phase = o.phase /\ r.plan = o.plan
    BY <2>0 DEF ShippedEffect, Only, Fields
  <2>2. r.plan \subseteq o.plan /\ ~Undelivered(r)
    BY <2>0, <2>1 DEF ShippedEffect, InUpload, Undelivered
  <2>3. \A e \in Places, s \in Sids : manifest'[e][s] # "absent" => manifest[e][s] # "absent"
    BY <2>0 DEF ShippedEffect, Sets
  <2> QED
    BY <2>0, <2>2, <2>3 DEF ShippedEffect, Calm
<1>7. CASE ClearArchive(p)
  <2>0. ClearArchiveEffect(o, r)
    BY <1>7, ClearArchiveDoes
  <2>1. r.phase = o.phase /\ r.plan = o.plan
    BY <2>0 DEF ClearArchiveEffect, Only, Fields
  <2>2. r.plan \subseteq o.plan /\ ~Undelivered(r)
    BY <2>0, <2>1 DEF ClearArchiveEffect, InUpload, Undelivered
  <2>3. \A e \in Places, s \in Sids : manifest'[e][s] # "absent" => manifest[e][s] # "absent"
    BY <2>0 DEF ClearArchiveEffect, Sets
  <2> QED
    BY <2>0, <2>2, <2>3 DEF ClearArchiveEffect, Calm
<1>8. CASE CaughtUp(p)
  <2>0. CaughtUpEffect(o, r)
    BY <1>8, CaughtUpDoes
  <2>1. r.phase = o.phase /\ r.plan = o.plan
    BY <2>0 DEF CaughtUpEffect, Only, Fields
  <2>2. r.plan \subseteq o.plan /\ ~Undelivered(r)
    BY <2>0, <2>1 DEF CaughtUpEffect, InUpload, Undelivered
  <2>3. \A e \in Places, s \in Sids : manifest'[e][s] # "absent" => manifest[e][s] # "absent"
    BY <2>0 DEF CaughtUpEffect, Sets
  <2> QED
    BY <2>0, <2>2, <2>3 DEF CaughtUpEffect, Calm
<1>9. ASSUME NEW d \in Places, ListingFails(p, d)
      PROVE  Calm(o, r)
  <2>0. ListingFailsEffect(o, r)
    BY <1>9, ListingFailsDoes
  <2>1. r.pc = o.pc /\ r.phase = o.phase /\ r.plan = o.plan
    BY <2>0 DEF ListingFailsEffect, Only, Fields
  <2>2. r.plan \subseteq o.plan /\ ~Undelivered(r)
    BY <2>0, <2>1 DEF ListingFailsEffect, InUpload, Undelivered
  <2>3. \A e \in Places, s \in Sids : manifest'[e][s] # "absent" => manifest[e][s] # "absent"
    BY <2>0 DEF ListingFailsEffect, Sets
  <2> QED
    BY <2>0, <2>2, <2>3 DEF ListingFailsEffect, Calm
<1>10. CASE DeletionFails(p)
  <2>0. DeletionFailsEffect(o, r)
    BY <1>10, DeletionFailsDoes
  <2>1. r.phase = o.phase
    BY <2>0 DEF DeletionFailsEffect, Only, Fields
  <2>2. r.plan \subseteq o.plan /\ ~Undelivered(r)
    BY <2>0, <2>1 DEF DeletionFailsEffect, InUpload, Undelivered
  <2>3. \A e \in Places, s \in Sids : manifest'[e][s] # "absent" => manifest[e][s] # "absent"
    BY <2>0 DEF DeletionFailsEffect, Sets
  <2> QED
    BY <2>0, <2>2, <2>3 DEF DeletionFailsEffect, Calm
<1>11. CASE PlacePruned(p)
  <2>0. PlacePrunedEffect(o, r)
    BY <1>11, PlacePrunedDoes
  <2>1. r.phase = o.phase /\ r.plan = o.plan
    BY <2>0 DEF PlacePrunedEffect, Only, Fields
  <2>2. r.plan \subseteq o.plan /\ ~Undelivered(r)
    BY <2>0, <2>1 DEF PlacePrunedEffect, InUpload, Undelivered
  <2>3. \A e \in Places, s \in Sids : manifest'[e][s] # "absent" => manifest[e][s] # "absent"
    BY <2>0 DEF PlacePrunedEffect, Sets
  <2> QED
    BY <2>0, <2>2, <2>3 DEF PlacePrunedEffect, Calm
<1>12. CASE RetentionDone(p)
  <2>0. RetentionDoneEffect(o, r)
    BY <1>12, RetentionDoneDoes
  <2>1. r.phase = o.phase /\ r.plan = o.plan
    BY <2>0 DEF RetentionDoneEffect, Only, Fields
  <2>2. r.plan \subseteq o.plan /\ ~Undelivered(r)
    BY <2>0, <2>1 DEF RetentionDoneEffect, InUpload, Undelivered
  <2>3. \A e \in Places, s \in Sids : manifest'[e][s] # "absent" => manifest[e][s] # "absent"
    BY <2>0 DEF RetentionDoneEffect, Sets
  <2> QED
    BY <2>0, <2>2, <2>3 DEF RetentionDoneEffect, Calm
<1>13. CASE DropLocalArchive(p)
  <2>0. DropLocalArchiveEffect(o, r)
    BY <1>13, DropLocalArchiveDoes
  <2>1. r.phase = o.phase /\ r.plan = o.plan
    BY <2>0 DEF DropLocalArchiveEffect, Only, Fields
  <2>2. r.plan \subseteq o.plan /\ ~Undelivered(r)
    BY <2>0, <2>1 DEF DropLocalArchiveEffect, InUpload, Undelivered
  <2>3. \A e \in Places, s \in Sids : manifest'[e][s] # "absent" => manifest[e][s] # "absent"
    BY <2>0 DEF DropLocalArchiveEffect, Sets
  <2> QED
    BY <2>0, <2>2, <2>3 DEF DropLocalArchiveEffect, Calm
<1>14. CASE KeepLocalCopy(p)
  <2>0. KeepLocalCopyEffect(o, r)
    BY <1>14, KeepLocalCopyDoes
  <2>1. r.phase = o.phase /\ r.plan = o.plan
    BY <2>0 DEF KeepLocalCopyEffect, Only, Fields
  <2>2. r.plan \subseteq o.plan /\ ~Undelivered(r)
    BY <2>0, <2>1 DEF KeepLocalCopyEffect, InUpload, Undelivered
  <2>3. \A e \in Places, s \in Sids : manifest'[e][s] # "absent" => manifest[e][s] # "absent"
    BY <2>0 DEF KeepLocalCopyEffect, Sets
  <2> QED
    BY <2>0, <2>2, <2>3 DEF KeepLocalCopyEffect, Calm
<1>15. CASE ClearManifest(p)
  <2>0. ClearManifestEffect(o, r)
    BY <1>15, ClearManifestDoes
  <2>1. r.phase = o.phase /\ r.plan = o.plan
    BY <2>0 DEF ClearManifestEffect, Only, Fields
  <2>2. r.plan \subseteq o.plan /\ ~Undelivered(r)
    BY <2>0, <2>1 DEF ClearManifestEffect, InUpload, Undelivered
  <2>3. \A e \in Places, s \in Sids : manifest'[e][s] # "absent" => manifest[e][s] # "absent"
    BY <2>0 DEF ClearManifestEffect, Sets
  <2> QED
    BY <2>0, <2>2, <2>3 DEF ClearManifestEffect, Calm
<1>16. CASE DropLocalManifest(p)
  <2>0. DropLocalManifestEffect(o, r)
    BY <1>16, DropLocalManifestDoes
  <2>1. r.phase = o.phase /\ r.plan = o.plan
    BY <2>0 DEF DropLocalManifestEffect, Only, Fields
  <2>2. r.plan \subseteq o.plan /\ ~Undelivered(r)
    BY <2>0, <2>1 DEF DropLocalManifestEffect, InUpload, Undelivered
  <2>3. \A e \in Places, s \in Sids : manifest'[e][s] # "absent" => manifest[e][s] # "absent"
    BY <2>0 DEF DropLocalManifestEffect, Sets
  <2> QED
    BY <2>0, <2>2, <2>3 DEF DropLocalManifestEffect, Calm
<1>17. CASE DeleteKey(p)
  <2> PICK k : k = FirstKey(o.keys)
    OBVIOUS
  <2>0. DeleteKeyEffect(o, r, k)
    BY <1>17, DeleteKeyDoes
  <2>1. r.phase = o.phase /\ r.plan = o.plan
    BY <2>0 DEF DeleteKeyEffect, Only, Fields
  <2>2. r.plan \subseteq o.plan /\ ~Undelivered(r)
    BY <2>0, <2>1 DEF DeleteKeyEffect, InUpload, Undelivered
  <2>3. \A e \in Places, s \in Sids : manifest'[e][s] # "absent" => manifest[e][s] # "absent"
    BY <2>0 DEF DeleteKeyEffect, Sets
  <2> QED
    BY <2>0, <2>2, <2>3 DEF DeleteKeyEffect, Calm
<1>18. CASE Ends(p)
  <2>1. EndsEffect(o, r)
    BY <1>18, EndsDoes
  <2> QED
    BY <2>1 DEF EndsEffect, Idle, Calm, InUpload, Undelivered
<1> QED
  BY <1>1, <1>2, <1>3, <1>4, <1>5, <1>6, <1>7, <1>8, <1>9, <1>10, <1>11, <1>12, <1>13, <1>14,
       <1>15, <1>16, <1>17, <1>18 DEF Step, Telling, Ends

LEMMA NewestAdvances ==
  ASSUME Control, Holds, WholeManifests, NewestKept, NEW p \in Procs, Step(p),
         NEW o, o = run[p], NEW r, r = run'[p],
         UNCHANGED clock,
         \A s \in stored' \ stored : From(s),
         \A s \in pruned' \ pruned : Above(s),
         \A s \in r.plan : Above(s), r.plan \subseteq Sids, stored' \cup pruned' \subseteq Sids,
         Fresh(r)',
         \A d \in Places, s \in Sids : manifest'[d][s] # "absent" =>
           \/ manifest[d][s] # "absent"
           \/ InUpload(o) /\ s = o.item /\ s <= clock /\ From(s)'
  PROVE  NewestKept'
<1>1. \A q \in Procs \ {p} : run'[q] = run[q]
  BY OthersStay
<1>2. \A s \in Sids : (From(s) => From(s)') /\ (Above(s) => Above(s)')
  <2>1. Fresh(o) /\ \A s \in pruned : Above(s)
    BY DEF NewestKept
  <2>2. \A s \in Sids : Restorable(s) => From(s)'
    BY <2>1, RestorableStays
  <2> QED
    BY <2>2, NewestStays
<1>3. \A d \in Places : \A s \in Listed(d)' : s <= clock' /\ From(s)'
  <2> SUFFICES ASSUME NEW d \in Places, NEW s \in Sids, manifest'[d][s] # "absent"
               PROVE  s <= clock' /\ From(s)'
    BY DEF Listed
  <2>1. CASE manifest[d][s] # "absent"
    <3>1. s <= clock /\ From(s)
      BY <2>1 DEF NewestKept, Listed
    <3> QED
      BY <3>1, <1>2
  <2> QED
    BY <2>1
<1>4. \A s \in stored' : From(s)'
  BY <1>2 DEF NewestKept
<1>5. \A s \in pruned' : Above(s)'
  BY <1>2 DEF NewestKept
<1>6. ASSUME NEW q \in Procs
      PROVE  Fresh(run[q])' /\ \A s \in run'[q].plan : Above(s)'
  <2>1. CASE q = p
    BY <2>1, <1>2
  <2>2. CASE q # p
    <3> PICK x : x = run[q]
      OBVIOUS
    <3>1. run'[q] = x /\ Fresh(x) /\ (\A s \in x.plan : Above(s)) /\ x.plan \subseteq Sids
      BY <1>1, <2>2 DEF NewestKept, Control, TypeOK, Run
    <3>2. ASSUME Undelivered(x), NEW d \in Places, manifest'[d][x.sid] # "absent"
          PROVE  manifest[d][x.sid] # "absent"
      <4>1. x.pc # "idle" /\ x.sid \in Sids /\ x.sid \notin stored
        BY <3>2 DEF Undelivered, InUpload, Control, Shape, Tracks
      <4>2. InUpload(o) => o.item # x.sid
        <5>1. CASE Shipping(o)
          BY <5>1, <4>1 DEF Control, Tracks
        <5>2. CASE Undelivered(o) /\ InUpload(o)
          BY <5>2, <4>1, <2>2 DEF Control, Shape, InUpload
        <5> QED
          BY <5>1, <5>2 DEF Shipping, Undelivered
      <4> QED
        BY <3>2, <4>1, <4>2
    <3>3. Fresh(x)'
      BY <3>1, <3>2 DEF Fresh
    <3> QED
      BY <3>1, <3>3, <1>2
  <2> QED
    BY <2>1, <2>2
<1> QED
  BY <1>3, <1>4, <1>5, <1>6 DEF NewestKept

\* What smart_last lets a policy select.
LEMMA SelectedIsOlder ==
  ASSUME NEW sids, \A i \in sids : i \in Nat, NEW cfg, cfg.smart_last, NEW now,
         NEW s \in SelectPrunable(Snaps(sids), cfg, now)
  PROVE  s \in sids /\ \E t \in sids : t > s
<1>1. s \in Ids(Snaps(sids)) /\ s \notin ProtectedLast(Snaps(sids))
  <2>1. s \notin ProtectedLast(Snaps(sids))
    BY DEF SelectPrunable
  <2>2. s \in CountPrunable(Snaps(sids), cfg.count) \/ s \in AgePrunable(Snaps(sids), cfg.age_days, now)
    BY DEF SelectPrunable
  <2> QED
    BY <2>1, <2>2 DEF CountPrunable, AgePrunable, Ids
<1>2. PICK x \in Snaps(sids) : x.id = s
  BY <1>1 DEF Ids
<1>3. NewerThan(x, Snaps(sids)) # {}
  BY <1>1, <1>2 DEF ProtectedLast, Ids
<1>4. PICK y \in Snaps(sids) : y.id > x.id
  BY <1>3 DEF NewerThan
<1> QED
  BY <1>2, <1>4 DEF Snaps

\* A manifest that a put leaves is whole, and so is its archive.
LEMMA PutIsFound ==
  ASSUME Control, Holds, NewestKept, NEW p \in Procs, NEW o, o = run[p], o.pc = "sidecar",
         o.at \in Places, o.item \in Sids, Alters(o.item),
         archive'[o.at][o.item] = archive[o.at][o.item],
         manifest'[o.at][o.item] = "whole"
  PROVE  From(o.item)'
<1>1. archive[o.at][o.item] = "whole" \/ o.item \in pruned
  BY DEF Holds, Relies
<1>2. CASE archive[o.at][o.item] = "whole"
  BY <1>2, ItselfSurvives DEF Restorable, Complete
<1>3. CASE o.item \in pruned
  BY <1>3, AboveSurvives DEF NewestKept
<1> QED
  BY <1>1, <1>2, <1>3

LEMMA NewestByStep ==
  ASSUME Control, Holds, WholeManifests, SmartLast, NewestKept, NEW p \in Procs, Step(p)
  PROVE  NewestKept'
<1> PICK o : o = run[p]
  OBVIOUS
<1> PICK r : r = run'[p]
  OBVIOUS
<1>a. /\ o \in Run /\ Shape(o) /\ Tracks(o, stored, markers, clock) /\ Relies(o) /\ Fresh(o)
      /\ \A s \in o.plan : Above(s)
  BY DEF Control, TypeOK, Holds, NewestKept
<1>b. o.plan \subseteq Sids /\ stored \cup pruned \subseteq Sids /\ o.queue \subseteq Places
  BY <1>a DEF Run, Control, TypeOK
<1>c. InUpload(o) => o.item \in Sids /\ o.item <= clock
  <2>1. ASSUME InUpload(o) PROVE o.item \in Sids
    BY <2>1, <1>a DEF Shape
  <2>2. CASE Shipping(o)
    <3>1. o.item \in stored
      BY <2>2, <1>a DEF Tracks
    <3> QED
      BY <2>1, <3>1 DEF Control
  <2>3. CASE InUpload(o) /\ Undelivered(o)
    BY <2>3, <1>a DEF Shape, Tracks, InUpload
  <2> QED
    BY <2>1, <2>2, <2>3 DEF Shipping, Undelivered
<1>d. "torn" \notin ManifestLeft /\ ManifestLeft \subseteq {"whole"}
  BY BackupAssumption DEF WholeManifests, NothingTorn
<1>1. CASE ~Telling(p)
  <2>1. Calm(o, r)
    BY <1>1, CalmOrTelling
  <2>2. Fresh(r)'
    BY <2>1 DEF Calm, Fresh
  <2> QED
    BY <2>1, <2>2, <1>a, <1>b, NewestAdvances DEF Calm
<1>2. CASE Produce(p)
  <2>0. ProduceEffect(o, r)
    BY <1>2, ProduceDoes
  <2>1. r.sid = o.sid /\ r.dests = o.dests /\ r.phase = o.phase /\ r.item = o.item /\ r.queue =
             o.queue /\ r.plan = o.plan
    BY <2>0 DEF ProduceEffect, Only, Fields
  <2>2. Fresh(r)'
    BY <2>0, <2>1, <1>a DEF ProduceEffect, Fresh, InUpload, Undelivered
  <2>3. UNCHANGED <<clock, stored, pruned, manifest>>
    BY <2>0 DEF ProduceEffect
  <2> QED
    BY <2>1, <2>2, <2>3, <1>a, <1>b, NewestAdvances
<1>3. CASE Connect(p)
  <2>0. ConnectEffect(o, r)
    BY <1>3, ConnectDoes
  <2>1. r.sid = o.sid /\ r.plan = o.plan
    BY <2>0 DEF ConnectEffect, Only, Fields
  <2>2. Fresh(r)'
    BY <2>0, <2>1, <1>a DEF ConnectEffect, Fresh, InUpload, Undelivered
  <2>3. UNCHANGED <<clock, stored, pruned, manifest>>
    BY <2>0 DEF ConnectEffect
  <2> QED
    BY <2>1, <2>2, <2>3, <1>a, <1>b, NewestAdvances
<1>4. CASE FallBack(p)
  <2>0. FallBackEffect(o, r)
    BY <1>4, FallBackDoes
  <2>1. r.pc = o.pc /\ r.sid = o.sid /\ r.dests = o.dests /\ r.item = o.item /\ r.plan = o.plan
    BY <2>0 DEF FallBackEffect, Only, Fields
  <2>2. Fresh(r)'
    BY <2>0, <2>1, <1>a DEF FallBackEffect, Fresh, InUpload, Undelivered
  <2>3. UNCHANGED <<clock, stored, pruned, manifest>>
    BY <2>0 DEF FallBackEffect
  <2> QED
    BY <2>1, <2>2, <2>3, <1>a, <1>b, NewestAdvances
<1>5. ASSUME NEW d \in Places, PutArchive(p, d)
      PROVE  NewestKept'
  <2>0. PutArchiveEffect(p, d, o, r)
    BY <1>5, PutArchiveDoes
  <2>1. r.sid = o.sid /\ r.dests = o.dests /\ r.phase = o.phase /\ r.item = o.item /\ r.queue =
             o.queue /\ r.plan = o.plan
    BY <2>0 DEF PutArchiveEffect, Only, Fields
  <2>2. Fresh(r)'
    BY <2>0, <2>1, <1>a DEF PutArchiveEffect, Fresh, InUpload, Undelivered
  <2>3. UNCHANGED <<clock, stored, pruned, manifest>>
    BY <2>0 DEF PutArchiveEffect
  <2> QED
    BY <2>1, <2>2, <2>3, <1>a, <1>b, NewestAdvances
<1>6. ASSUME NEW d \in Places, ArchivePutFails(p, d)
      PROVE  NewestKept'
  <2>0. ArchivePutFailsEffect(p, d, o, r)
    BY <1>6, ArchivePutFailsDoes
  <2>1. r.pc = o.pc /\ r.sid = o.sid /\ r.dests = o.dests /\ r.phase = o.phase /\ r.item =
             o.item /\ r.plan = o.plan
    BY <2>0 DEF ArchivePutFailsEffect, Only, Fields
  <2>2. Fresh(r)'
    BY <2>0, <2>1, <1>a DEF ArchivePutFailsEffect, Fresh, InUpload, Undelivered
  <2>3. UNCHANGED <<clock, stored, pruned, manifest>>
    BY <2>0 DEF ArchivePutFailsEffect
  <2> QED
    BY <2>1, <2>2, <2>3, <1>a, <1>b, NewestAdvances
<1>7. CASE PutSidecar(p)
  <2>0. PutSidecarEffect(p, o, r)
    BY <1>7, PutSidecarDoes
  <2>1. r.sid = o.sid /\ r.dests = o.dests /\ r.phase = o.phase /\ r.item = o.item /\ r.plan =
             o.plan
    BY <2>0 DEF PutSidecarEffect, Only, Fields
  <2>2. /\ o.pc = "sidecar" /\ InUpload(o) /\ r.queue = o.queue \ {o.at}
        /\ UNCHANGED <<clock, stored, pruned, archive>>
    BY <2>0 DEF PutSidecarEffect, InUpload
  <2>3. o.at \in o.queue /\ o.at \in Places /\ o.item \in Sids /\ o.item <= clock
    BY <2>2, <1>a, <1>b, <1>c DEF Shape
  <2>4. PICK c : Sets(manifest, manifest', o.at, o.item, c) /\ c = "whole"
    BY <2>0, <2>2, SourcesAreWhole DEF PutSidecarEffect
  <2>5. /\ \A d \in Places, s \in Sids : (d # o.at \/ s # o.item) => manifest'[d][s] = manifest[d][s]
        /\ manifest'[o.at][o.item] \in {"whole", manifest[o.at][o.item]}
    BY <2>3, <2>4 DEF Sets
  <2>6. Alters(o.item)
    BY <2>2, <2>5 DEF Alters
  <2>7. ASSUME NEW d \in Places, NEW s \in Sids, manifest'[d][s] # "absent", manifest[d][s] = "absent"
        PROVE  d = o.at /\ s = o.item /\ From(s)'
    <3>1. d = o.at /\ s = o.item
      BY <2>5, <2>7
    <3>2. manifest'[o.at][o.item] = "whole"
      BY <2>5, <2>7, <3>1
    <3> QED
      BY <2>2, <2>3, <2>6, <3>1, <3>2, PutIsFound
  <2>8. Fresh(r)'
    <3> SUFFICES ASSUME Undelivered(r) PROVE Fresh(r)'
      BY DEF Fresh
    <3>1. Undelivered(o) /\ InUpload(r) /\ o.item = o.sid
      BY <2>0, <2>1, <2>2, <1>a DEF PutSidecarEffect, InUpload, Undelivered, Shape
    <3>2. o.phase \in {"deliver", "fallback"}
      BY <3>1, <2>2, <1>a DEF Undelivered, InUpload, Run
    <3>3. \A d \in Places : manifest'[d][r.sid] # "absent" =>
            d \notin r.queue /\ (d \in r.dests \/ r.phase = "fallback")
      <4> SUFFICES ASSUME NEW d \in Places, manifest'[d][r.sid] # "absent"
                   PROVE  d \notin r.queue /\ (d \in r.dests \/ r.phase = "fallback")
        OBVIOUS
      <4>1. CASE manifest[d][o.sid] # "absent"
        BY <4>1, <2>1, <2>2, <3>1, <1>a DEF Fresh
      <4>2. CASE manifest[d][o.sid] = "absent"
        BY <4>2, <2>1, <2>2, <2>3, <2>7, <3>1, <3>2, <1>a DEF Fresh
      <4> QED
        BY <4>1, <4>2
    <3> QED
      BY <2>1, <2>2, <3>1, <3>3, <1>a DEF Fresh
  <2>9. \A d \in Places, s \in Sids : manifest'[d][s] # "absent" =>
          \/ manifest[d][s] # "absent"
          \/ InUpload(o) /\ s = o.item /\ s <= clock /\ From(s)'
    BY <2>2, <2>3, <2>7
  <2> QED
    BY <2>1, <2>2, <2>8, <2>9, <1>a, <1>b, NewestAdvances
<1>8. CASE SidecarPutFails(p)
  <2>0. SidecarPutFailsEffect(p, o, r)
    BY <1>8, SidecarPutFailsDoes
  <2>1. r.sid = o.sid /\ r.dests = o.dests /\ r.phase = o.phase /\ r.item = o.item /\ r.plan =
             o.plan
    BY <2>0 DEF SidecarPutFailsEffect, Only, Fields
  <2>2. /\ o.pc = "sidecar" /\ InUpload(o) /\ r.queue = o.queue \ {o.at}
        /\ UNCHANGED <<clock, stored, pruned, archive>>
    BY <2>0 DEF SidecarPutFailsEffect, InUpload
  <2>3. o.at \in o.queue /\ o.at \in Places /\ o.item \in Sids /\ o.item <= clock
    BY <2>2, <1>a, <1>b, <1>c DEF Shape
  <2>4. \/ manifest' = manifest
        \/ \E c : Sets(manifest, manifest', o.at, o.item, c) /\ c = "whole"
    <3> PICK source : source = ManifestSource(p)
      OBVIOUS
    <3>1. FailedPut(manifest, manifest', o.at, o.item, source, ManifestLeft)
      BY <2>0 DEF SidecarPutFailsEffect
    <3>2. source # "absent" => source = "whole"
      BY <2>2, SourcesAreWhole
    <3> QED
      BY <3>1, <3>2, <1>d DEF FailedPut
  <2>5. /\ \A d \in Places, s \in Sids : (d # o.at \/ s # o.item) => manifest'[d][s] = manifest[d][s]
        /\ manifest'[o.at][o.item] \in {"whole", manifest[o.at][o.item]}
    BY <2>3, <2>4 DEF Sets
  <2>6. Alters(o.item)
    BY <2>2, <2>5 DEF Alters
  <2>7. ASSUME NEW d \in Places, NEW s \in Sids, manifest'[d][s] # "absent", manifest[d][s] = "absent"
        PROVE  d = o.at /\ s = o.item /\ From(s)'
    <3>1. d = o.at /\ s = o.item
      BY <2>5, <2>7
    <3>2. manifest'[o.at][o.item] = "whole"
      BY <2>5, <2>7, <3>1
    <3> QED
      BY <2>2, <2>3, <2>6, <3>1, <3>2, PutIsFound
  <2>8. Fresh(r)'
    <3> SUFFICES ASSUME Undelivered(r) PROVE Fresh(r)'
      BY DEF Fresh
    <3>1. Undelivered(o) /\ InUpload(r) /\ o.item = o.sid
      BY <2>0, <2>1, <2>2, <1>a DEF SidecarPutFailsEffect, InUpload, Undelivered, Shape
    <3>2. o.phase \in {"deliver", "fallback"}
      BY <3>1, <2>2, <1>a DEF Undelivered, InUpload, Run
    <3>3. \A d \in Places : manifest'[d][r.sid] # "absent" =>
            d \notin r.queue /\ (d \in r.dests \/ r.phase = "fallback")
      <4> SUFFICES ASSUME NEW d \in Places, manifest'[d][r.sid] # "absent"
                   PROVE  d \notin r.queue /\ (d \in r.dests \/ r.phase = "fallback")
        OBVIOUS
      <4>1. CASE manifest[d][o.sid] # "absent"
        BY <4>1, <2>1, <2>2, <3>1, <1>a DEF Fresh
      <4>2. CASE manifest[d][o.sid] = "absent"
        BY <4>2, <2>1, <2>2, <2>3, <2>7, <3>1, <3>2, <1>a DEF Fresh
      <4> QED
        BY <4>1, <4>2
    <3> QED
      BY <2>1, <2>2, <3>1, <3>3, <1>a DEF Fresh
  <2>9. \A d \in Places, s \in Sids : manifest'[d][s] # "absent" =>
          \/ manifest[d][s] # "absent"
          \/ InUpload(o) /\ s = o.item /\ s <= clock /\ From(s)'
    BY <2>2, <2>3, <2>7
  <2> QED
    BY <2>1, <2>2, <2>8, <2>9, <1>a, <1>b, NewestAdvances
<1>9. ASSUME NEW d \in Places, SelectSnapshots(p, d)
      PROVE  NewestKept'
  <2>0. SelectSnapshotsEffect(p, d, o, r)
    BY <1>9, SelectSnapshotsDoes
  <2>1. /\ r.plan = SelectPrunable(Snaps(Candidates(p, d)), job.retention, o.sid)
        /\ UNCHANGED <<clock, stored, pruned, manifest>> /\ ~Undelivered(r)
    BY <2>0 DEF SelectSnapshotsEffect, Undelivered, InUpload
  <2>2. Candidates(p, d) \subseteq Listed(d)
    BY DEF Candidates
  <2>3. job.retention.smart_last
    BY DEF SmartLast, Control, TypeOK
  <2>4. \A s \in r.plan : s \in Listed(d) /\ \E t \in Listed(d) : t > s
    <3> PICK sids, cfg : sids = Candidates(p, d) /\ cfg = job.retention
      OBVIOUS
    <3>1. \A s \in sids : s \in Nat
      BY <2>2 DEF Listed, Sids
    <3> QED
      BY <2>1, <2>2, <2>3, <3>1, SelectedIsOlder
  <2>5. \A s \in r.plan : Above(s)
    <3> SUFFICES ASSUME NEW s \in r.plan PROVE Above(s)
      OBVIOUS
    <3>1. PICK t \in Listed(d) : t > s /\ s \in Sids /\ t \in Sids
      BY <2>4 DEF Listed
    <3>2. PICK u \in Sids : u >= t /\ Restorable(u)
      BY DEF NewestKept, From
    <3>3. u > s
      BY <3>1, <3>2 DEF Sids
    <3> QED
      BY <3>2, <3>3 DEF Above
  <2>6. r.plan \subseteq Sids /\ Fresh(r)'
    BY <2>1, <2>4 DEF Listed, Fresh
  <2> QED
    BY <2>1, <2>5, <2>6, <1>b, NewestAdvances
<1>10. ASSUME NEW s \in Sids, PruneSnapshot(p, s)
      PROVE  NewestKept'
  <2>0. PruneSnapshotEffect(s, o, r)
    BY <1>10, PruneSnapshotDoes
  <2>1. /\ s \in o.plan /\ r.plan = o.plan \ {s} /\ pruned' = pruned \cup {s}
        /\ UNCHANGED <<clock, stored, manifest>> /\ ~Undelivered(r)
    BY <2>0 DEF PruneSnapshotEffect, Undelivered, InUpload
  <2>2. Fresh(r)'
    BY <2>1 DEF Fresh
  <2> QED
    BY <2>1, <2>2, <1>a, <1>b, NewestAdvances
<1>11. CASE Delivered(p)
  <2>0. DeliveredEffect(o, r)
    BY <1>11, DeliveredDoes
  <2>1. r.plan = o.plan
    BY <2>0 DEF DeliveredEffect, Only, Fields
  <2>2. /\ Undelivered(o) /\ InUpload(o) /\ ~Undelivered(r)
        /\ stored' \subseteq stored \cup (IF o.got # {} THEN {o.sid} ELSE {})
        /\ UNCHANGED <<clock, pruned, manifest>>
    BY <2>0 DEF DeliveredEffect, Undelivered, InUpload
  <2>3. o.sid \in Sids /\ o.item = o.sid
    BY <2>2, <1>a, <1>c DEF Shape
  <2>4. o.got # {} => From(o.sid)
    <3> SUFFICES ASSUME o.got # {} PROVE From(o.sid)
      OBVIOUS
    <3>1. PICK d \in o.got : Held(d, o.sid)
      BY <2>2, <2>3, <1>a DEF Relies
    <3>2. d \in Places /\ o.sid >= o.sid
      <4>1. d \in Places
        BY <3>1, <1>a DEF Run
      <4>2. o.sid >= o.sid
        BY <2>3 DEF Sids
      <4> QED
        BY <4>1, <4>2
    <3>3. CASE Complete(d, o.sid)
      BY <2>3, <3>2, <3>3 DEF From, Restorable
    <3>4. CASE o.sid \in pruned
      <4>1. PICK t \in Sids : t > o.sid /\ Restorable(t)
        BY <3>4 DEF NewestKept, Above
      <4>2. t >= o.sid
        BY <2>3, <4>1 DEF Sids
      <4> QED
        BY <4>1, <4>2 DEF From
    <3> QED
      BY <3>1, <3>3, <3>4 DEF Held
  <2>5. Fresh(r)'
    BY <2>2 DEF Fresh
  <2>6. \A s \in stored' \ stored : From(s) /\ s \in Sids
    BY <2>2, <2>3, <2>4
  <2> QED
    BY <2>1, <2>2, <2>5, <2>6, <1>a, <1>b, NewestAdvances
<1> QED
  BY <1>1, <1>2, <1>3, <1>4, <1>5, <1>6, <1>7, <1>8, <1>9, <1>10, <1>11 DEF Telling

LEMMA NewestInit == Init => NewestKept
<1> SUFFICES ASSUME Init PROVE NewestKept
  OBVIOUS
<1>1. \A d \in Places : Listed(d) = {}
  BY DEF Init, Listed
<1>2. ASSUME NEW p \in Procs PROVE Fresh(run[p]) /\ run[p].plan = {}
  <2>1. run[p] = Idle
    BY DEF Init
  <2> QED
    BY <2>1 DEF Idle, Fresh, Undelivered, InUpload
<1> QED
  BY <1>1, <1>2 DEF Init, NewestKept

\* Nothing that NewestKept speaks of changes but the runs.
LEMMA NewestIdles ==
  ASSUME NewestKept, UNCHANGED <<archive, manifest, stored, pruned>>, clock <= clock',
         clock \in Nat, clock' \in Nat,
         \A p \in Procs : run'[p] = run[p] \/ (Fresh(run[p])' /\ run'[p].plan \subseteq run[p].plan)
  PROVE  NewestKept'
<1>1. \A s \in Sids : Restorable(s)' = Restorable(s)
  BY DEF Restorable, Complete
<1>2. \A s : (From(s)' = From(s)) /\ (Above(s)' = Above(s))
  BY <1>1 DEF From, Above
<1>3. \A d \in Places : \A s \in Listed(d)' : s \in Sids /\ s <= clock /\ From(s)
  BY DEF Listed, NewestKept
<1>4. \A s \in Sids : s <= clock => s <= clock'
  BY DEF Sids
<1>5. ASSUME NEW p \in Procs
      PROVE  Fresh(run[p])' /\ \A s \in run'[p].plan : Above(s)
  <2>1. CASE run'[p] = run[p]
    <3> PICK x : x = run[p]
      OBVIOUS
    <3>1. Fresh(x) /\ run'[p] = x /\ \A s \in x.plan : Above(s)
      BY <2>1 DEF NewestKept
    <3>2. Fresh(x)'
      BY <3>1 DEF Fresh
    <3> QED
      BY <3>1, <3>2
  <2> QED
    BY <2>1 DEF NewestKept
<1> QED
  BY <1>2, <1>3, <1>4, <1>5 DEF NewestKept

LEMMA NewestStep ==
  ASSUME Control, Holds, WholeManifests, SmartLast, NewestKept, [Next]_vars
  PROVE  NewestKept'
<1>a. clock \in Nat
  BY BackupAssumption DEF Control, TypeOK
<1>1. ASSUME NEW p \in Procs, Begin(p)
      PROVE  NewestKept'
  <2> PICK o : o = run[p]
    OBVIOUS
  <2> PICK r : r = run'[p]
    OBVIOUS
  <2>1. BeginEffect(o, r)
    BY <1>1, BeginDoes
  <2>2. r.plan = o.plan
    BY <2>1 DEF BeginEffect, Only, Fields
  <2>3. /\ r.pc = "produce" /\ r.sid = clock + 1 /\ clock' = clock + 1 /\ clock < MaxRuns
        /\ UNCHANGED <<archive, manifest, stored, pruned>>
    BY <2>1 DEF BeginEffect
  <2>4. r.sid \in Sids /\ ~(r.sid <= clock)
    BY <2>3, <1>a, BackupAssumption DEF Sids
  <2>5. \A d \in Places : manifest[d][r.sid] = "absent"
    BY <2>4 DEF NewestKept, Listed
  <2>6. Fresh(r)'
    BY <2>3, <2>5 DEF Fresh, InUpload
  <2>7. \A q \in Procs \ {p} : run'[q] = run[q]
    BY <1>1, OthersStay
  <2> QED
    BY <2>2, <2>3, <2>6, <2>7, <1>a, NewestIdles
<1>2. ASSUME NEW p \in Procs, Kill(p) \/ AbortStoredRun(p)
      PROVE  NewestKept'
  <2> PICK o : o = run[p]
    OBVIOUS
  <2> PICK r : r = run'[p]
    OBVIOUS
  <2>1. EndsEffect(o, r)
    BY <1>2, EndsDoes DEF Ends
  <2>2. r.plan = {} /\ ~Undelivered(r) /\ UNCHANGED <<clock, archive, manifest, stored, pruned>>
    BY <2>1 DEF EndsEffect, Idle, Undelivered, InUpload
  <2>3. Fresh(r)'
    BY <2>2 DEF Fresh
  <2>4. \A q \in Procs \ {p} : run'[q] = run[q]
    BY <1>2, OthersStay
  <2> QED
    BY <2>2, <2>3, <2>4, <1>a, NewestIdles
<1>3. CASE Reconfigure \/ UNCHANGED vars
  <2>1. UNCHANGED <<clock, archive, manifest, run, stored, pruned>>
    BY <1>3 DEF Reconfigure, vars, places, history
  <2> QED
    BY <2>1, <1>a, NewestIdles
<1> QED
  BY <1>1, <1>2, <1>3, NewestByStep DEF Next

(***************************************************************************)
(* With smart_last some complete snapshot at least as new as the newest    *)
(* one ever stored is always left, whatever each place lists and however   *)
(* the retention of the places, the catch-up, kills and failures           *)
(* interleave, provided that no failed put leaves a manifest cut short     *)
(* (and, for runs that overlap, no archive either): a manifest that is     *)
(* listed, but not whole, would be protected in the place of a snapshot    *)
(* that can be restored.                                                   *)
(***************************************************************************)
THEOREM NewestHolds ==
  ASSUME WholeManifests
  PROVE  Spec => []NewestSurvives
<1>1. CASE SmartLast
  <2>1. Safe
    BY DEF Safe, WholeManifests
  <2>2. Init => Control /\ Holds /\ NewestKept
    BY ControlInit, HoldsInit, NewestInit
  <2>3. Control /\ Holds /\ NewestKept /\ [Next]_vars => (Control /\ Holds /\ NewestKept)'
    BY <1>1, <2>1, ControlStep, HoldsStep, NewestStep
  <2>4. NewestKept => NewestSurvives
    BY DEF NewestKept, NewestSurvives, From
  <2> QED
    BY <2>2, <2>3, <2>4, PTL DEF Spec
<1>2. CASE ~SmartLast
  <2>1. NewestSurvives
    BY <1>2 DEF NewestSurvives, SmartLast
  <2> QED
    BY <2>1, PTL
<1> QED
  BY <1>1, <1>2

-----------------------------------------------------------------------------
(* Nothing stays in the data dir of a job that keeps no local copies *)

OffsiteOnly == \A j \in Jobs : j.s3 # {} /\ ~KeepsLocal(j)

\* The run has yet to mark, clear or drop the local copy of s ...
Owes(r, s) ==
  \/ r.sid = s /\ Undelivered(r) /\ InUpload(r) /\ Local \in r.got
  \/ /\ r.sid = s /\ Local \in r.stored /\ After(r) /\ r.pc # "record"
     /\ r.pc = "track" \/ OffsiteOf(r) # {}
  \/ Clearing(r) /\ r.item = s

\* ... and is half through with it.
Erasing(r, s) ==
  (r.pc = "clear manifest" /\ r.item = s) \/ (r.pc = "drop manifest" /\ r.sid = s)

Accounted(r, s) ==
  breaks = 0 /\ manifest[Local][s] # "absent" =>
    /\ s \in markers \/ Owes(r, s)
    /\ archive[Local][s] # "absent" \/ Erasing(r, s)

\* Next to an off-site place the data dir only has the snapshot if the job
\* asks for it.
Settled(r) ==
  /\ Undelivered(r) /\ InUpload(r) =>
       /\ r.phase = "deliver" => r.queue \cup r.got \subseteq r.dests /\ (Local \in r.dests => job.local)
       /\ r.phase = "fallback" => r.queue \cup r.got \subseteq {Local}
  /\ After(r) /\ Local \in r.stored /\ OffsiteOf(r) # {} => job.local
  /\ r.pc = "delete" /\ "marker" \in r.keys => r.at = Local

DataDirKept ==
  \A p \in Procs : Settled(run[p]) /\ \A s \in Sids : Accounted(run[p], s)

LEMMA DataDirAdvances ==
  ASSUME Sequential, DataDirKept, NEW p \in Procs, NEW o, o = run[p], NEW r, r = run'[p],
         breaks' = 0 => breaks = 0, Settled(r)',
         \A s \in Sids : breaks' = 0 /\ manifest'[Local][s] # "absent" =>
           \/ Owes(r, s) /\ archive'[Local][s] # "absent"
           \/ /\ manifest[Local][s] # "absent"
              /\ s \in markers \/ Owes(o, s) => s \in markers' \/ Owes(r, s)
              /\ archive[Local][s] # "absent" \/ Erasing(o, s) =>
                   archive'[Local][s] # "absent" \/ Erasing(r, s)
  PROVE  DataDirKept'
<1>1. \A q \in Procs : q = p
  BY DEF Sequential
<1>2. ASSUME NEW s \in Sids PROVE Accounted(r, s)'
  <2>1. Accounted(o, s)
    BY DEF DataDirKept
  <2> QED
    BY <2>1 DEF Accounted, Owes, Erasing
<1> QED
  BY <1>1, <1>2 DEF DataDirKept

\* A step that changes nothing the places hold.
LEMMA DataDirRests ==
  ASSUME Sequential, DataDirKept, NEW p \in Procs, NEW o, o = run[p], NEW r, r = run'[p],
         UNCHANGED <<archive, manifest, markers>>, breaks' = 0 => breaks = 0, Settled(r)',
         \A s : Owes(o, s) => Owes(r, s), \A s : Erasing(o, s) => Erasing(r, s)
  PROVE  DataDirKept'
BY DataDirAdvances

LEMMA DataDirEnds ==
  ASSUME Sequential, DataDirKept, NEW p \in Procs, NEW o, o = run[p], NEW r, r = run'[p],
         EndsEffect(o, r), breaks \in Nat
  PROVE  DataDirKept'
<1>1. UNCHANGED <<job, archive, manifest, markers>> /\ breaks <= breaks' /\ r = Idle
      /\ (breaks' = 0 => o.pc \in {"produce", "record"})
  BY DEF EndsEffect
<1>2. o.pc \in {"produce", "record"} => \A s : ~Owes(o, s) /\ ~Erasing(o, s)
  BY DEF Owes, Erasing, After, CatchingUp, Clearing, InUpload, Shipping, Undelivered
<1>3. r.pc = "idle"
  BY <1>1 DEF Idle
<1>4. Settled(r)'
  BY <1>3 DEF Settled, After, CatchingUp, Clearing, InUpload, Shipping, Undelivered
<1>5. \A q \in Procs : q = p
  BY DEF Sequential
<1>6. ASSUME NEW s \in Sids, breaks' = 0 PROVE Accounted(r, s)'
  <2>1. Accounted(o, s) /\ breaks = 0
    BY <1>1, <1>6 DEF DataDirKept
  <2> QED
    BY <2>1, <1>1, <1>2, <1>6 DEF Accounted
<1> QED
  BY <1>4, <1>5, <1>6 DEF DataDirKept, Accounted

LEMMA DataDirByStep ==
  ASSUME Sequential, ManifestLeft = {}, OffsiteOnly, Control, ListingOrder, DataDirKept,
         NEW p \in Procs, Step(p)
  PROVE  DataDirKept'
<1> PICK o : o = run[p]
  OBVIOUS
<1> PICK r : r = run'[p]
  OBVIOUS
<1>a. o \in Run /\ Shape(o) /\ Settled(o) /\ Ordered(o) /\ \A s \in Sids : Accounted(o, s)
  BY DEF Control, TypeOK, ListingOrder, DataDirKept
<1>b. job.s3 # {} /\ ~KeepsLocal(job) /\ ~(job.keep_local /\ job.local)
  BY DEF OffsiteOnly, Control, TypeOK, KeepsLocal
<1>c. breaks \in Nat /\ Local \in Places
  BY BackupAssumption DEF Control, TypeOK, Places
<1>d. o.queue \subseteq Places /\ o.got \subseteq Places /\ o.stored \subseteq Places /\ o.at \in Places
  BY <1>a DEF Run
<1>1. CASE Produce(p)
  <2>0. ProduceEffect(o, r)
    BY <1>1, ProduceDoes
  <2>1. r.sid = o.sid /\ r.dests = o.dests /\ r.stored = o.stored /\ r.phase = o.phase /\ r.item
             = o.item /\ r.at = o.at /\ r.queue = o.queue /\ r.got = o.got /\ r.keys = o.keys
    BY <2>0 DEF ProduceEffect, Only, Fields
  <2>2. \A s : Owes(o, s) => Owes(r, s)
    BY <2>0, <2>1, <1>a, <1>b DEF ProduceEffect, Owes, Settled, After, CatchingUp, Clearing,
         InUpload, Shipping, Undelivered, OffsiteOf
  <2>3. \A s : Erasing(o, s) => Erasing(r, s)
    BY <2>0, <2>1 DEF ProduceEffect, Erasing
  <2>4. UNCHANGED <<job, archive, manifest, markers, breaks>>
    BY <2>0 DEF ProduceEffect
  <2>5. Settled(r)'
    BY <2>0, <2>1, <2>4, <1>a, <1>b DEF ProduceEffect, Settled, After, CatchingUp, Clearing,
         InUpload, Shipping, Undelivered, OffsiteOf
  <2> QED
    BY <2>2, <2>3, <2>4, <2>5, DataDirRests
<1>2. CASE Connect(p)
  <2>0. ConnectEffect(o, r)
    BY <1>2, ConnectDoes
  <2>1. r.sid = o.sid /\ r.stored = o.stored /\ r.at = o.at /\ r.keys = o.keys
    BY <2>0 DEF ConnectEffect, Only, Fields
  <2>2. \A s : Owes(o, s) => Owes(r, s)
    BY <2>0, <2>1, <1>a, <1>b DEF ConnectEffect, Owes, Settled, After, CatchingUp, Clearing,
         InUpload, Shipping, Undelivered, OffsiteOf
  <2>3. \A s : Erasing(o, s) => Erasing(r, s)
    BY <2>0, <2>1 DEF ConnectEffect, Erasing
  <2>4. UNCHANGED <<job, archive, manifest, markers, breaks>>
    BY <2>0 DEF ConnectEffect
  <2>5. Settled(r)'
    BY <2>0, <2>1, <2>4, <1>a, <1>b DEF ConnectEffect, Settled, After, CatchingUp, Clearing,
         InUpload, Shipping, Undelivered, OffsiteOf
  <2> QED
    BY <2>2, <2>3, <2>4, <2>5, DataDirRests
<1>3. CASE FallBack(p)
  <2>0. FallBackEffect(o, r)
    BY <1>3, FallBackDoes
  <2>1. r.pc = o.pc /\ r.sid = o.sid /\ r.dests = o.dests /\ r.stored = o.stored /\ r.item =
             o.item /\ r.at = o.at /\ r.got = o.got /\ r.keys = o.keys
    BY <2>0 DEF FallBackEffect, Only, Fields
  <2>2. \A s : Owes(o, s) => Owes(r, s)
    BY <2>0, <2>1, <1>a, <1>b DEF FallBackEffect, Owes, Settled, After, CatchingUp, Clearing,
         InUpload, Shipping, Undelivered, OffsiteOf
  <2>3. \A s : Erasing(o, s) => Erasing(r, s)
    BY <2>0, <2>1 DEF FallBackEffect, Erasing
  <2>4. UNCHANGED <<job, archive, manifest, markers, breaks>>
    BY <2>0 DEF FallBackEffect
  <2>5. Settled(r)'
    BY <2>0, <2>1, <2>4, <1>a, <1>b DEF FallBackEffect, Settled, After, CatchingUp, Clearing,
         InUpload, Shipping, Undelivered, OffsiteOf
  <2> QED
    BY <2>2, <2>3, <2>4, <2>5, DataDirRests
<1>4. CASE Delivered(p)
  <2>0. DeliveredEffect(o, r)
    BY <1>4, DeliveredDoes
  <2>1. r.sid = o.sid /\ r.dests = o.dests /\ r.phase = o.phase /\ r.at = o.at /\ r.queue =
             o.queue /\ r.keys = o.keys
    BY <2>0 DEF DeliveredEffect, Only, Fields
  <2>2. \A s : Owes(o, s) => Owes(r, s)
    BY <2>0, <2>1, <1>a, <1>b DEF DeliveredEffect, Owes, Settled, After, CatchingUp, Clearing,
         InUpload, Shipping, Undelivered, OffsiteOf
  <2>3. \A s : Erasing(o, s) => Erasing(r, s)
    BY <2>0, <2>1 DEF DeliveredEffect, Erasing
  <2>4. UNCHANGED <<job, archive, manifest, markers, breaks>>
    BY <2>0 DEF DeliveredEffect
  <2>5. Settled(r)'
    <3>1. o.pc = "archive" /\ o.phase # "ship" /\ r.pc = "track" /\ r.stored = o.got
      BY <2>0 DEF DeliveredEffect
    <3>2. Undelivered(o) /\ InUpload(o) /\ o.phase \in {"deliver", "fallback"}
      BY <3>1, <1>a DEF Undelivered, InUpload, Run
    <3>3. Local \in o.got /\ o.got \ {Local} # {} => job.local
      BY <3>2, <1>a DEF Settled
    <3>4. ~Undelivered(r)
      BY <3>1 DEF Undelivered, InUpload
    <3> QED
      BY <2>4, <3>1, <3>3, <3>4 DEF Settled, OffsiteOf
  <2> QED
    BY <2>2, <2>3, <2>4, <2>5, DataDirRests
<1>5. CASE CatchUp(p)
  <2>0. CatchUpEffect(o, r)
    BY <1>5, CatchUpDoes
  <2>1. r.sid = o.sid /\ r.dests = o.dests /\ r.stored = o.stored /\ r.phase = o.phase /\ r.item
             = o.item /\ r.at = o.at /\ r.queue = o.queue /\ r.got = o.got /\ r.keys = o.keys
    BY <2>0 DEF CatchUpEffect, Only, Fields
  <2>2. \A s : Owes(o, s) => Owes(r, s)
    BY <2>0, <2>1, <1>a, <1>b DEF CatchUpEffect, Owes, Settled, After, CatchingUp, Clearing,
         InUpload, Shipping, Undelivered, OffsiteOf
  <2>3. \A s : Erasing(o, s) => Erasing(r, s)
    BY <2>0, <2>1 DEF CatchUpEffect, Erasing
  <2>4. UNCHANGED <<job, archive, manifest, markers, breaks>>
    BY <2>0 DEF CatchUpEffect
  <2>5. Settled(r)'
    BY <2>0, <2>1, <2>4, <1>a, <1>b DEF CatchUpEffect, Settled, After, CatchingUp, Clearing,
         InUpload, Shipping, Undelivered, OffsiteOf
  <2> QED
    BY <2>2, <2>3, <2>4, <2>5, DataDirRests
<1>6. CASE ShipPending(p)
  <2>0. ShipPendingEffect(o, r)
    BY <1>6, ShipPendingDoes
  <2>1. r.sid = o.sid /\ r.dests = o.dests /\ r.stored = o.stored /\ r.at = o.at /\ r.keys =
             o.keys
    BY <2>0 DEF ShipPendingEffect, Only, Fields
  <2>2. \A s : Owes(o, s) => Owes(r, s)
    BY <2>0, <2>1, <1>a, <1>b DEF ShipPendingEffect, Owes, Settled, After, CatchingUp, Clearing,
         InUpload, Shipping, Undelivered, OffsiteOf
  <2>3. \A s : Erasing(o, s) => Erasing(r, s)
    BY <2>0, <2>1 DEF ShipPendingEffect, Erasing
  <2>4. UNCHANGED <<job, archive, manifest, markers, breaks>>
    BY <2>0 DEF ShipPendingEffect
  <2>5. Settled(r)'
    BY <2>0, <2>1, <2>4, <1>a, <1>b DEF ShipPendingEffect, Settled, After, CatchingUp, Clearing,
         InUpload, Shipping, Undelivered, OffsiteOf
  <2> QED
    BY <2>2, <2>3, <2>4, <2>5, DataDirRests
<1>7. CASE StaysPending(p)
  <2>0. StaysPendingEffect(o, r)
    BY <1>7, StaysPendingDoes
  <2>1. r.sid = o.sid /\ r.dests = o.dests /\ r.stored = o.stored /\ r.phase = o.phase /\ r.at =
             o.at /\ r.queue = o.queue /\ r.keys = o.keys
    BY <2>0 DEF StaysPendingEffect, Only, Fields
  <2>2. \A s : Owes(o, s) => Owes(r, s)
    BY <2>0, <2>1, <1>a, <1>b DEF StaysPendingEffect, Owes, Settled, After, CatchingUp,
         Clearing, InUpload, Shipping, Undelivered, OffsiteOf
  <2>3. \A s : Erasing(o, s) => Erasing(r, s)
    BY <2>0, <2>1 DEF StaysPendingEffect, Erasing
  <2>4. UNCHANGED <<job, archive, manifest, markers, breaks>>
    BY <2>0 DEF StaysPendingEffect
  <2>5. Settled(r)'
    BY <2>0, <2>1, <2>4, <1>a, <1>b DEF StaysPendingEffect, Settled, After, CatchingUp,
         Clearing, InUpload, Shipping, Undelivered, OffsiteOf
  <2> QED
    BY <2>2, <2>3, <2>4, <2>5, DataDirRests
<1>8. CASE CaughtUp(p)
  <2>0. CaughtUpEffect(o, r)
    BY <1>8, CaughtUpDoes
  <2>1. r.sid = o.sid /\ r.dests = o.dests /\ r.stored = o.stored /\ r.phase = o.phase /\ r.item
             = o.item /\ r.at = o.at /\ r.got = o.got /\ r.keys = o.keys
    BY <2>0 DEF CaughtUpEffect, Only, Fields
  <2>2. \A s : Owes(o, s) => Owes(r, s)
    BY <2>0, <2>1, <1>a, <1>b DEF CaughtUpEffect, Owes, Settled, After, CatchingUp, Clearing,
         InUpload, Shipping, Undelivered, OffsiteOf
  <2>3. \A s : Erasing(o, s) => Erasing(r, s)
    BY <2>0, <2>1 DEF CaughtUpEffect, Erasing
  <2>4. UNCHANGED <<job, archive, manifest, markers, breaks>>
    BY <2>0 DEF CaughtUpEffect
  <2>5. Settled(r)'
    BY <2>0, <2>1, <2>4, <1>a, <1>b DEF CaughtUpEffect, Settled, After, CatchingUp, Clearing,
         InUpload, Shipping, Undelivered, OffsiteOf
  <2> QED
    BY <2>2, <2>3, <2>4, <2>5, DataDirRests
<1>9. ASSUME NEW d \in Places, SelectSnapshots(p, d)
      PROVE  DataDirKept'
  <2>0. SelectSnapshotsEffect(p, d, o, r)
    BY <1>9, SelectSnapshotsDoes
  <2>1. r.sid = o.sid /\ r.dests = o.dests /\ r.stored = o.stored /\ r.phase = o.phase /\ r.item
             = o.item /\ r.got = o.got /\ r.keys = o.keys
    BY <2>0 DEF SelectSnapshotsEffect, Only, Fields
  <2>2. \A s : Owes(o, s) => Owes(r, s)
    BY <2>0, <2>1, <1>a, <1>b DEF SelectSnapshotsEffect, Owes, Settled, After, CatchingUp,
         Clearing, InUpload, Shipping, Undelivered, OffsiteOf
  <2>3. \A s : Erasing(o, s) => Erasing(r, s)
    BY <2>0, <2>1 DEF SelectSnapshotsEffect, Erasing
  <2>4. UNCHANGED <<job, archive, manifest, markers, breaks>>
    BY <2>0 DEF SelectSnapshotsEffect
  <2>5. Settled(r)'
    BY <2>0, <2>1, <2>4, <1>a, <1>b DEF SelectSnapshotsEffect, Settled, After, CatchingUp,
         Clearing, InUpload, Shipping, Undelivered, OffsiteOf
  <2> QED
    BY <2>2, <2>3, <2>4, <2>5, DataDirRests
<1>10. ASSUME NEW d \in Places, ListingFails(p, d)
      PROVE  DataDirKept'
  <2>0. ListingFailsEffect(o, r)
    BY <1>10, ListingFailsDoes
  <2>1. r.pc = o.pc /\ r.sid = o.sid /\ r.dests = o.dests /\ r.stored = o.stored /\ r.phase =
             o.phase /\ r.item = o.item /\ r.at = o.at /\ r.got = o.got /\ r.keys = o.keys
    BY <2>0 DEF ListingFailsEffect, Only, Fields
  <2>2. \A s : Owes(o, s) => Owes(r, s)
    BY <2>0, <2>1, <1>a, <1>b DEF ListingFailsEffect, Owes, Settled, After, CatchingUp,
         Clearing, InUpload, Shipping, Undelivered, OffsiteOf
  <2>3. \A s : Erasing(o, s) => Erasing(r, s)
    BY <2>0, <2>1 DEF ListingFailsEffect, Erasing
  <2>4. UNCHANGED <<job, archive, manifest, markers, breaks>>
    BY <2>0 DEF ListingFailsEffect
  <2>5. Settled(r)'
    BY <2>0, <2>1, <2>4, <1>a, <1>b DEF ListingFailsEffect, Settled, After, CatchingUp,
         Clearing, InUpload, Shipping, Undelivered, OffsiteOf
  <2> QED
    BY <2>2, <2>3, <2>4, <2>5, DataDirRests
<1>11. ASSUME NEW s \in Sids, PruneSnapshot(p, s)
      PROVE  DataDirKept'
  <2>0. PruneSnapshotEffect(s, o, r)
    BY <1>11, PruneSnapshotDoes
  <2>1. r.sid = o.sid /\ r.dests = o.dests /\ r.stored = o.stored /\ r.phase = o.phase /\ r.at =
             o.at /\ r.queue = o.queue /\ r.got = o.got
    BY <2>0 DEF PruneSnapshotEffect, Only, Fields
  <2>2. \A t : Owes(o, t) => Owes(r, t)
    BY <2>0, <2>1, <1>a, <1>b DEF PruneSnapshotEffect, Owes, Settled, After, CatchingUp,
         Clearing, InUpload, Shipping, Undelivered, OffsiteOf
  <2>3. \A t : Erasing(o, t) => Erasing(r, t)
    BY <2>0, <2>1 DEF PruneSnapshotEffect, Erasing
  <2>4. UNCHANGED <<job, archive, manifest, markers, breaks>>
    BY <2>0 DEF PruneSnapshotEffect
  <2>5. Settled(r)'
    BY <2>0, <2>1, <2>4, <1>a, <1>b DEF PruneSnapshotEffect, Settled, After, CatchingUp,
         Clearing, InUpload, Shipping, Undelivered, OffsiteOf, Keys
  <2> QED
    BY <2>2, <2>3, <2>4, <2>5, DataDirRests
<1>12. CASE DeletionFails(p)
  <2>0. DeletionFailsEffect(o, r)
    BY <1>12, DeletionFailsDoes
  <2>1. r.sid = o.sid /\ r.dests = o.dests /\ r.stored = o.stored /\ r.phase = o.phase /\
             r.queue = o.queue /\ r.got = o.got
    BY <2>0 DEF DeletionFailsEffect, Only, Fields
  <2>2. \A s : Owes(o, s) => Owes(r, s)
    BY <2>0, <2>1, <1>a, <1>b DEF DeletionFailsEffect, Owes, Settled, After, CatchingUp,
         Clearing, InUpload, Shipping, Undelivered, OffsiteOf
  <2>3. \A s : Erasing(o, s) => Erasing(r, s)
    BY <2>0, <2>1 DEF DeletionFailsEffect, Erasing
  <2>4. UNCHANGED <<job, archive, manifest, markers, breaks>>
    BY <2>0 DEF DeletionFailsEffect
  <2>5. Settled(r)'
    BY <2>0, <2>1, <2>4, <1>a, <1>b DEF DeletionFailsEffect, Settled, After, CatchingUp,
         Clearing, InUpload, Shipping, Undelivered, OffsiteOf
  <2> QED
    BY <2>2, <2>3, <2>4, <2>5, DataDirRests
<1>13. CASE PlacePruned(p)
  <2>0. PlacePrunedEffect(o, r)
    BY <1>13, PlacePrunedDoes
  <2>1. r.sid = o.sid /\ r.dests = o.dests /\ r.stored = o.stored /\ r.phase = o.phase /\
             r.queue = o.queue /\ r.got = o.got /\ r.keys = o.keys
    BY <2>0 DEF PlacePrunedEffect, Only, Fields
  <2>2. \A s : Owes(o, s) => Owes(r, s)
    BY <2>0, <2>1, <1>a, <1>b DEF PlacePrunedEffect, Owes, Settled, After, CatchingUp, Clearing,
         InUpload, Shipping, Undelivered, OffsiteOf
  <2>3. \A s : Erasing(o, s) => Erasing(r, s)
    BY <2>0, <2>1 DEF PlacePrunedEffect, Erasing
  <2>4. UNCHANGED <<job, archive, manifest, markers, breaks>>
    BY <2>0 DEF PlacePrunedEffect
  <2>5. Settled(r)'
    BY <2>0, <2>1, <2>4, <1>a, <1>b DEF PlacePrunedEffect, Settled, After, CatchingUp, Clearing,
         InUpload, Shipping, Undelivered, OffsiteOf
  <2> QED
    BY <2>2, <2>3, <2>4, <2>5, DataDirRests
<1>14. CASE RetentionDone(p)
  <2>0. RetentionDoneEffect(o, r)
    BY <1>14, RetentionDoneDoes
  <2>1. r.sid = o.sid /\ r.dests = o.dests /\ r.stored = o.stored /\ r.phase = o.phase /\ r.item
             = o.item /\ r.at = o.at /\ r.queue = o.queue /\ r.got = o.got /\ r.keys = o.keys
    BY <2>0 DEF RetentionDoneEffect, Only, Fields
  <2>2. \A s : Owes(o, s) => Owes(r, s)
    BY <2>0, <2>1, <1>a, <1>b DEF RetentionDoneEffect, Owes, Settled, After, CatchingUp,
         Clearing, InUpload, Shipping, Undelivered, OffsiteOf
  <2>3. \A s : Erasing(o, s) => Erasing(r, s)
    BY <2>0, <2>1 DEF RetentionDoneEffect, Erasing
  <2>4. UNCHANGED <<job, archive, manifest, markers, breaks>>
    BY <2>0 DEF RetentionDoneEffect
  <2>5. Settled(r)'
    BY <2>0, <2>1, <2>4, <1>a, <1>b DEF RetentionDoneEffect, Settled, After, CatchingUp,
         Clearing, InUpload, Shipping, Undelivered, OffsiteOf
  <2> QED
    BY <2>2, <2>3, <2>4, <2>5, DataDirRests
<1>15. CASE KeepLocalCopy(p)
  <2>0. KeepLocalCopyEffect(o, r)
    BY <1>15, KeepLocalCopyDoes
  <2>1. r.sid = o.sid /\ r.dests = o.dests /\ r.stored = o.stored /\ r.phase = o.phase /\ r.item
             = o.item /\ r.at = o.at /\ r.queue = o.queue /\ r.got = o.got /\ r.keys = o.keys
    BY <2>0 DEF KeepLocalCopyEffect, Only, Fields
  <2>2. \A s : Owes(o, s) => Owes(r, s)
    BY <2>0, <2>1, <1>a, <1>b DEF KeepLocalCopyEffect, Owes, Settled, After, CatchingUp,
         Clearing, InUpload, Shipping, Undelivered, OffsiteOf
  <2>3. \A s : Erasing(o, s) => Erasing(r, s)
    BY <2>0, <2>1 DEF KeepLocalCopyEffect, Erasing
  <2>4. UNCHANGED <<job, archive, manifest, markers, breaks>>
    BY <2>0 DEF KeepLocalCopyEffect
  <2>5. Settled(r)'
    BY <2>0, <2>1, <2>4, <1>a, <1>b DEF KeepLocalCopyEffect, Settled, After, CatchingUp,
         Clearing, InUpload, Shipping, Undelivered, OffsiteOf
  <2> QED
    BY <2>2, <2>3, <2>4, <2>5, DataDirRests
<1>16. ASSUME NEW d \in Places, PutArchive(p, d)
      PROVE  DataDirKept'
  <2>0. PutArchiveEffect(p, d, o, r)
    BY <1>16, PutArchiveDoes
  <2>1. r.sid = o.sid /\ r.dests = o.dests /\ r.stored = o.stored /\ r.phase = o.phase /\ r.item
             = o.item /\ r.queue = o.queue /\ r.got = o.got /\ r.keys = o.keys
    BY <2>0 DEF PutArchiveEffect, Only, Fields
  <2>2. \A s : Owes(o, s) => Owes(r, s)
    BY <2>0, <2>1 DEF PutArchiveEffect, Owes, After, CatchingUp, Clearing, InUpload, Shipping,
         Undelivered, OffsiteOf
  <2>3. \A s : Erasing(o, s) => Erasing(r, s)
    BY <2>0, <2>1 DEF PutArchiveEffect, Erasing
  <2>4. UNCHANGED <<job, manifest, markers, breaks>>
    BY <2>0 DEF PutArchiveEffect
  <2>5. Settled(r)'
    BY <2>0, <2>1, <2>4, <1>a, <1>b DEF PutArchiveEffect, Settled, After, CatchingUp, Clearing,
         InUpload, Shipping, Undelivered, OffsiteOf
  <2>6. \A s \in Sids : archive[Local][s] # "absent" => archive'[Local][s] # "absent"
    BY <2>0, <1>c DEF PutArchiveEffect, Sets
  <2> QED
    BY <2>2, <2>3, <2>4, <2>5, <2>6, DataDirAdvances
<1>17. ASSUME NEW d \in Places, ArchivePutFails(p, d)
      PROVE  DataDirKept'
  <2>0. ArchivePutFailsEffect(p, d, o, r)
    BY <1>17, ArchivePutFailsDoes
  <2>1. r.pc = o.pc /\ r.sid = o.sid /\ r.dests = o.dests /\ r.stored = o.stored /\ r.phase =
             o.phase /\ r.item = o.item /\ r.at = o.at /\ r.got = o.got /\ r.keys = o.keys
    BY <2>0 DEF ArchivePutFailsEffect, Only, Fields
  <2>2. \A s : Owes(o, s) => Owes(r, s)
    BY <2>0, <2>1 DEF ArchivePutFailsEffect, Owes, After, CatchingUp, Clearing, InUpload,
         Shipping, Undelivered, OffsiteOf
  <2>3. \A s : Erasing(o, s) => Erasing(r, s)
    BY <2>0, <2>1 DEF ArchivePutFailsEffect, Erasing
  <2>4. UNCHANGED <<job, manifest, markers, breaks>>
    BY <2>0 DEF ArchivePutFailsEffect
  <2>5. Settled(r)'
    BY <2>0, <2>1, <2>4, <1>a, <1>b DEF ArchivePutFailsEffect, Settled, After, CatchingUp,
         Clearing, InUpload, Shipping, Undelivered, OffsiteOf
  <2>6. \A s \in Sids : archive[Local][s] # "absent" => archive'[Local][s] # "absent"
    <3> PICK source : source = ArchiveSource(p)
      OBVIOUS
    <3>1. FailedPut(archive, archive', d, o.item, source, ArchiveLeft) /\ "absent" \notin ArchiveLeft
      BY <2>0, BackupAssumption DEF ArchivePutFailsEffect
    <3> QED
      BY <3>1, <1>c DEF FailedPut, Sets
  <2> QED
    BY <2>2, <2>3, <2>4, <2>5, <2>6, DataDirAdvances
<1>18. CASE PutSidecar(p)
  <2>0. PutSidecarEffect(p, o, r)
    BY <1>18, PutSidecarDoes
  <2>1. r.sid = o.sid /\ r.dests = o.dests /\ r.stored = o.stored /\ r.phase = o.phase /\ r.item
             = o.item /\ r.keys = o.keys
    BY <2>0 DEF PutSidecarEffect, Only, Fields
  <2>2. \A s : Owes(o, s) => Owes(r, s)
    BY <2>0, <2>1 DEF PutSidecarEffect, Owes, After, CatchingUp, Clearing, InUpload, Shipping,
         Undelivered, OffsiteOf
  <2>3. \A s : Erasing(o, s) => Erasing(r, s)
    BY <2>0, <2>1 DEF PutSidecarEffect, Erasing
  <2>4. UNCHANGED <<job, archive, markers, breaks>>
    BY <2>0 DEF PutSidecarEffect
  <2>5. Settled(r)'
    <3>1. o.pc = "sidecar" /\ r.pc = "archive" /\ r.queue \cup r.got = o.queue \cup o.got
      BY <2>0, <1>a DEF PutSidecarEffect, Shape
    <3>2. /\ Undelivered(r) = Undelivered(o) /\ InUpload(r) /\ InUpload(o) /\ (After(r) = After(o))
          /\ OffsiteOf(r) = OffsiteOf(o)
      BY <2>1, <3>1 DEF After, CatchingUp, Clearing, InUpload, Shipping, Undelivered, OffsiteOf
    <3> QED
      BY <2>1, <2>4, <3>1, <3>2, <1>a DEF Settled
  <2>6. o.pc = "sidecar" /\ InUpload(o) /\ o.at \in o.queue /\ r.got = o.got \cup {o.at}
    BY <2>0, <1>a DEF PutSidecarEffect, InUpload, Shape
  <2>7. \A s \in Sids : manifest'[Local][s] # "absent" =>
          manifest[Local][s] # "absent" \/ (o.at = Local /\ s = o.item)
    <3> PICK c : c = ManifestSource(p)
      OBVIOUS
    <3>1. Sets(manifest, manifest', o.at, o.item, c)
      BY <2>0 DEF PutSidecarEffect
    <3> QED
      BY <3>1, <1>c DEF Sets
  <2>8. o.at = Local => Owes(r, o.item) /\ archive'[Local][o.item] # "absent"
    <3> SUFFICES ASSUME o.at = Local PROVE Owes(r, o.item) /\ archive'[Local][o.item] # "absent"
      OBVIOUS
    <3>1. archive'[Local][o.item] # "absent"
      BY <2>4, <2>6, <1>a DEF Ordered
    <3>2. ~Shipping(o)
      BY <2>6, <1>a DEF Shape
    <3>3. Undelivered(r) /\ InUpload(r) /\ r.sid = o.item
      BY <2>0, <2>1, <2>6, <3>2, <1>a DEF PutSidecarEffect, InUpload, Undelivered, Shipping, Shape
    <3> QED
      BY <2>6, <3>1, <3>3 DEF Owes
  <2> QED
    BY <2>2, <2>3, <2>4, <2>5, <2>7, <2>8, DataDirAdvances
<1>19. CASE SidecarPutFails(p)
  <2>0. SidecarPutFailsEffect(p, o, r)
    BY <1>19, SidecarPutFailsDoes
  <2>1. r.sid = o.sid /\ r.dests = o.dests /\ r.stored = o.stored /\ r.phase = o.phase /\ r.item
             = o.item /\ r.got = o.got /\ r.keys = o.keys
    BY <2>0 DEF SidecarPutFailsEffect, Only, Fields
  <2>2. \A s : Owes(o, s) => Owes(r, s)
    BY <2>0, <2>1 DEF SidecarPutFailsEffect, Owes, After, CatchingUp, Clearing, InUpload,
         Shipping, Undelivered, OffsiteOf
  <2>3. \A s : Erasing(o, s) => Erasing(r, s)
    BY <2>0, <2>1 DEF SidecarPutFailsEffect, Erasing
  <2>4. UNCHANGED <<job, archive, markers, breaks>>
    BY <2>0 DEF SidecarPutFailsEffect
  <2>5. Settled(r)'
    BY <2>0, <2>1, <2>4, <1>a, <1>b DEF SidecarPutFailsEffect, Settled, After, CatchingUp,
         Clearing, InUpload, Shipping, Undelivered, OffsiteOf
  <2>6. manifest' = manifest
    <3> PICK source : source = ManifestSource(p)
      OBVIOUS
    <3>1. FailedPut(manifest, manifest', o.at, o.item, source, ManifestLeft)
      BY <2>0 DEF SidecarPutFailsEffect
    <3> QED
      BY <3>1 DEF FailedPut
  <2> QED
    BY <2>2, <2>3, <2>4, <2>5, <2>6, DataDirRests
<1>20. CASE MarkPending(p)
  <2>0. MarkPendingEffect(o, r)
    BY <1>20, MarkPendingDoes
  <2>1. r.sid = o.sid /\ r.dests = o.dests /\ r.stored = o.stored /\ r.phase = o.phase /\ r.item
             = o.item /\ r.at = o.at /\ r.got = o.got /\ r.keys = o.keys
    BY <2>0 DEF MarkPendingEffect, Only, Fields
  <2>2. UNCHANGED <<job, archive, manifest, breaks>> /\ markers \subseteq markers'
    BY <2>0 DEF MarkPendingEffect
  <2>3. \A s : Owes(o, s) => s \in markers'
    BY <2>0, <1>b DEF MarkPendingEffect, Owes, After, CatchingUp, Clearing, InUpload, Shipping,
         Undelivered, OffsiteOf
  <2>4. \A s : ~Erasing(o, s)
    BY <2>0 DEF MarkPendingEffect, Erasing
  <2>5. Settled(r)'
    BY <2>0, <2>1, <2>2, <1>a DEF MarkPendingEffect, Settled, After, CatchingUp, Clearing,
         InUpload, Shipping, Undelivered, OffsiteOf
  <2> QED
    BY <2>2, <2>3, <2>4, <2>5, DataDirAdvances
<1>21. CASE ForgetPending(p)
  <2>0. ForgetPendingEffect(o, r)
    BY <1>21, ForgetPendingDoes
  <2>1. r.pc = o.pc /\ r.sid = o.sid /\ r.dests = o.dests /\ r.stored = o.stored /\ r.phase =
             o.phase /\ r.item = o.item /\ r.at = o.at /\ r.queue = o.queue /\ r.got = o.got /\
             r.keys = o.keys
    BY <2>0 DEF ForgetPendingEffect, Only, Fields
  <2>2. \A s : Owes(o, s) => Owes(r, s)
    BY <2>0, <2>1 DEF ForgetPendingEffect, Owes, After, CatchingUp, Clearing, InUpload,
         Shipping, Undelivered, OffsiteOf
  <2>3. \A s : ~Erasing(o, s)
    BY <2>0 DEF ForgetPendingEffect, Erasing
  <2>4. UNCHANGED <<job, archive, manifest, breaks>>
    BY <2>0 DEF ForgetPendingEffect
  <2>5. Settled(r)'
    BY <2>0, <2>1, <2>4, <1>a DEF ForgetPendingEffect, Settled, After, CatchingUp, Clearing,
         InUpload, Shipping, Undelivered, OffsiteOf
  <2>6. PICK t \in o.todo : /\ archive[Local][t] = "absent" \/ manifest[Local][t] = "absent"
                            /\ markers' = markers \ {t}
    BY <2>0 DEF ForgetPendingEffect
  <2>7. breaks = 0 => manifest[Local][t] = "absent"
    <3>1. t \in Sids
      BY <2>6, <1>a DEF Run
    <3> QED
      BY <2>3, <2>6, <3>1, <1>a DEF Accounted
  <2> QED
    BY <2>2, <2>3, <2>4, <2>5, <2>6, <2>7, DataDirAdvances
<1>22. CASE Shipped(p)
  <2>0. ShippedEffect(o, r)
    BY <1>22, ShippedDoes
  <2>1. r.sid = o.sid /\ r.dests = o.dests /\ r.stored = o.stored /\ r.phase = o.phase /\ r.item
             = o.item /\ r.at = o.at /\ r.queue = o.queue /\ r.keys = o.keys
    BY <2>0 DEF ShippedEffect, Only, Fields
  <2>2. UNCHANGED <<job, archive, manifest, breaks>> /\ markers' = markers \ {o.item}
    BY <2>0 DEF ShippedEffect
  <2>3. o.pc = "archive" /\ o.phase = "ship" /\ r.pc = "clear archive"
    BY <2>0, <1>b DEF ShippedEffect
  <2>4. \A s : Owes(o, s) => Owes(r, s)
    BY <2>1, <2>3 DEF Owes, After, CatchingUp, Clearing, InUpload, Shipping, Undelivered,
         OffsiteOf
  <2>5. Owes(r, o.item) /\ \A s : ~Erasing(o, s)
    BY <2>1, <2>3 DEF Owes, Erasing, Clearing
  <2>6. Settled(r)'
    BY <2>1, <2>2, <2>3, <1>a DEF Settled, After, CatchingUp, Clearing, InUpload, Shipping,
         Undelivered, OffsiteOf
  <2> QED
    BY <2>2, <2>4, <2>5, <2>6, DataDirAdvances
<1>23. CASE ClearArchive(p)
  <2>0. ClearArchiveEffect(o, r)
    BY <1>23, ClearArchiveDoes
  <2>1. r.sid = o.sid /\ r.dests = o.dests /\ r.stored = o.stored /\ r.phase = o.phase /\ r.item
             = o.item /\ r.at = o.at /\ r.queue = o.queue /\ r.got = o.got /\ r.keys = o.keys
    BY <2>0 DEF ClearArchiveEffect, Only, Fields
  <2>2. \A s : Owes(o, s) => Owes(r, s)
    BY <2>0, <2>1 DEF ClearArchiveEffect, Owes, After, CatchingUp, Clearing, InUpload, Shipping,
         Undelivered, OffsiteOf
  <2>3. Erasing(r, o.item) /\ \A s : ~Erasing(o, s)
    BY <2>0, <2>1 DEF ClearArchiveEffect, Erasing
  <2>4. UNCHANGED <<job, manifest, markers, breaks>>
    BY <2>0 DEF ClearArchiveEffect
  <2>5. Settled(r)'
    BY <2>0, <2>1, <2>4, <1>a DEF ClearArchiveEffect, Settled, After, CatchingUp, Clearing,
         InUpload, Shipping, Undelivered, OffsiteOf
  <2>6. \A s \in Sids : archive[Local][s] # "absent" => archive'[Local][s] # "absent" \/ s = o.item
    BY <2>0, <1>c DEF ClearArchiveEffect, Sets
  <2> QED
    BY <2>2, <2>3, <2>4, <2>5, <2>6, DataDirAdvances
<1>24. CASE DropLocalArchive(p)
  <2>0. DropLocalArchiveEffect(o, r)
    BY <1>24, DropLocalArchiveDoes
  <2>1. r.sid = o.sid /\ r.dests = o.dests /\ r.stored = o.stored /\ r.phase = o.phase /\ r.item
             = o.item /\ r.at = o.at /\ r.queue = o.queue /\ r.got = o.got /\ r.keys = o.keys
    BY <2>0 DEF DropLocalArchiveEffect, Only, Fields
  <2>2. \A s : Owes(o, s) => Owes(r, s)
    BY <2>0, <2>1 DEF DropLocalArchiveEffect, Owes, After, CatchingUp, Clearing, InUpload,
         Shipping, Undelivered, OffsiteOf
  <2>3. Erasing(r, o.sid) /\ \A s : ~Erasing(o, s)
    BY <2>0, <2>1 DEF DropLocalArchiveEffect, Erasing
  <2>4. UNCHANGED <<job, manifest, markers, breaks>>
    BY <2>0 DEF DropLocalArchiveEffect
  <2>5. Settled(r)'
    BY <2>0, <2>1, <2>4, <1>a DEF DropLocalArchiveEffect, Settled, After, CatchingUp, Clearing,
         InUpload, Shipping, Undelivered, OffsiteOf
  <2>6. \A s \in Sids : archive[Local][s] # "absent" => archive'[Local][s] # "absent" \/ s = o.sid
    BY <2>0, <1>c DEF DropLocalArchiveEffect, Sets
  <2> QED
    BY <2>2, <2>3, <2>4, <2>5, <2>6, DataDirAdvances
<1>25. CASE ClearManifest(p)
  <2>0. ClearManifestEffect(o, r)
    BY <1>25, ClearManifestDoes
  <2>1. r.sid = o.sid /\ r.dests = o.dests /\ r.stored = o.stored /\ r.phase = o.phase /\ r.at =
             o.at /\ r.queue = o.queue /\ r.got = o.got /\ r.keys = o.keys
    BY <2>0 DEF ClearManifestEffect, Only, Fields
  <2>2. \A s : Owes(o, s) => Owes(r, s) \/ s = o.item
    BY <2>0, <2>1 DEF ClearManifestEffect, Owes, After, CatchingUp, Clearing, InUpload,
         Shipping, Undelivered, OffsiteOf
  <2>3. \A s : Erasing(o, s) => s = o.item
    BY <2>0 DEF ClearManifestEffect, Erasing
  <2>4. UNCHANGED <<job, archive, markers, breaks>>
    BY <2>0 DEF ClearManifestEffect
  <2>5. Settled(r)'
    BY <2>0, <2>1, <2>4, <1>a DEF ClearManifestEffect, Settled, After, CatchingUp, Clearing,
         InUpload, Shipping, Undelivered, OffsiteOf
  <2>6. \A s \in Sids : manifest'[Local][s] # "absent" => manifest[Local][s] # "absent" /\ s # o.item
    BY <2>0, <1>c DEF ClearManifestEffect, Sets
  <2> QED
    BY <2>2, <2>3, <2>4, <2>5, <2>6, DataDirAdvances
<1>26. CASE DropLocalManifest(p)
  <2>0. DropLocalManifestEffect(o, r)
    BY <1>26, DropLocalManifestDoes
  <2>1. r.sid = o.sid /\ r.dests = o.dests /\ r.stored = o.stored /\ r.phase = o.phase /\ r.item
             = o.item /\ r.at = o.at /\ r.queue = o.queue /\ r.got = o.got /\ r.keys = o.keys
    BY <2>0 DEF DropLocalManifestEffect, Only, Fields
  <2>2. \A s : Owes(o, s) => Owes(r, s) \/ s = o.sid
    BY <2>0, <2>1 DEF DropLocalManifestEffect, Owes, After, CatchingUp, Clearing, InUpload,
         Shipping, Undelivered, OffsiteOf
  <2>3. \A s : Erasing(o, s) => s = o.sid
    BY <2>0 DEF DropLocalManifestEffect, Erasing
  <2>4. UNCHANGED <<job, archive, markers, breaks>>
    BY <2>0 DEF DropLocalManifestEffect
  <2>5. Settled(r)'
    BY <2>0, <2>1, <2>4, <1>a DEF DropLocalManifestEffect, Settled, After, CatchingUp, Clearing,
         InUpload, Shipping, Undelivered, OffsiteOf
  <2>6. \A s \in Sids : manifest'[Local][s] # "absent" => manifest[Local][s] # "absent" /\ s # o.sid
    BY <2>0, <1>c DEF DropLocalManifestEffect, Sets
  <2> QED
    BY <2>2, <2>3, <2>4, <2>5, <2>6, DataDirAdvances
<1>27. CASE DeleteKey(p)
  <2> PICK k : k = FirstKey(o.keys)
    OBVIOUS
  <2>0. DeleteKeyEffect(o, r, k)
    BY <1>27, DeleteKeyDoes
  <2>1. r.sid = o.sid /\ r.dests = o.dests /\ r.stored = o.stored /\ r.phase = o.phase /\ r.item
             = o.item /\ r.at = o.at /\ r.queue = o.queue /\ r.got = o.got
    BY <2>0 DEF DeleteKeyEffect, Only, Fields
  <2>2. \A s : Owes(o, s) => Owes(r, s)
    BY <2>0, <2>1 DEF DeleteKeyEffect, Owes, After, CatchingUp, Clearing, InUpload, Shipping,
         Undelivered, OffsiteOf
  <2>3. \A s : ~Erasing(o, s)
    BY <2>0 DEF DeleteKeyEffect, Erasing
  <2>4. UNCHANGED <<job, breaks>>
    BY <2>0 DEF DeleteKeyEffect
  <2>5. Settled(r)'
    BY <2>0, <2>1, <2>4, <1>a DEF DeleteKeyEffect, Settled, After, CatchingUp, Clearing,
         InUpload, Shipping, Undelivered, OffsiteOf
  <2>6. /\ o.pc = "delete" /\ o.item \in Sids
        /\ k # "manifest" => "manifest" \notin o.keys
        /\ k = "marker" => "marker" \in o.keys
    BY <2>0, <1>a DEF DeleteKeyEffect, FirstKey, Shape
  <2>7. k # "manifest" => manifest[o.at][o.item] = "absent"
    BY <2>6, <1>a DEF Ordered
  <2>8. CASE k = "manifest"
    <3>1. UNCHANGED <<archive, markers>>
      BY <2>0, <2>8 DEF DeleteKeyEffect
    <3>2. \A s \in Sids : manifest'[Local][s] # "absent" => manifest[Local][s] # "absent"
      BY <2>0, <2>8, <1>c DEF DeleteKeyEffect, Sets
    <3> QED
      BY <2>2, <2>3, <2>4, <2>5, <3>1, <3>2, DataDirAdvances
  <2>9. CASE k = "marker"
    <3>1. UNCHANGED <<archive, manifest>> /\ markers' = markers \ {o.item}
      BY <2>0, <2>9 DEF DeleteKeyEffect
    <3>2. manifest[Local][o.item] = "absent"
      BY <2>6, <2>7, <2>9, <1>a DEF Settled
    <3> QED
      BY <2>2, <2>3, <2>4, <2>5, <3>1, <3>2, DataDirAdvances
  <2>10. CASE k \notin {"manifest", "marker"}
    <3>1. UNCHANGED <<manifest, markers>>
      BY <2>0, <2>10 DEF DeleteKeyEffect
    <3>2. \A s \in Sids : archive[Local][s] # "absent" /\ manifest[Local][s] # "absent" =>
            archive'[Local][s] # "absent"
      <4>1. archive' = archive \/ Sets(archive, archive', o.at, o.item, "absent")
        BY <2>0 DEF DeleteKeyEffect
      <4> QED
        BY <4>1, <2>7, <2>10, <1>c DEF Sets
    <3> QED
      BY <2>2, <2>3, <2>4, <2>5, <3>1, <3>2, DataDirAdvances
  <2> QED
    BY <2>8, <2>9, <2>10
<1>28. CASE Ends(p)
  <2>1. /\ EndsEffect(o, r)
    BY <1>28, EndsDoes
  <2> QED
    BY <2>1, <1>c, DataDirEnds
<1> QED
  BY <1>1, <1>2, <1>3, <1>4, <1>5, <1>6, <1>7, <1>8, <1>9, <1>10, <1>11, <1>12, <1>13, <1>14,
       <1>15, <1>16, <1>17, <1>18, <1>19, <1>20, <1>21, <1>22, <1>23, <1>24, <1>25, <1>26,
       <1>27, <1>28 DEF Step, Ends

LEMMA DataDirInit == Init => DataDirKept
<1> SUFFICES ASSUME Init PROVE DataDirKept
  OBVIOUS
<1>1. \A s \in Sids : manifest[Local][s] = "absent"
  BY DEF Init, Places
<1>2. ASSUME NEW p \in Procs PROVE Settled(run[p])
  <2>1. run[p].pc = "idle"
    BY DEF Init, Idle
  <2> QED
    BY <2>1 DEF Settled, After, CatchingUp, Clearing, InUpload, Shipping, Undelivered
<1> QED
  BY <1>1, <1>2 DEF DataDirKept, Accounted

LEMMA DataDirStep ==
  ASSUME Sequential, ManifestLeft = {}, OffsiteOnly, Control, ListingOrder, DataDirKept, [Next]_vars
  PROVE  DataDirKept'
<1>a. breaks \in Nat
  BY BackupAssumption DEF Control, TypeOK
<1>1. ASSUME NEW p \in Procs, Begin(p)
      PROVE  DataDirKept'
  <2> PICK o : o = run[p]
    OBVIOUS
  <2> PICK r : r = run'[p]
    OBVIOUS
  <2>1. BeginEffect(o, r)
    BY <1>1, BeginDoes
  <2>2. o.pc = "idle" /\ r.pc = "produce" /\ UNCHANGED <<archive, manifest, markers, breaks>>
    BY <2>1 DEF BeginEffect
  <2>3. (\A s : ~Owes(o, s)) /\ (\A s : ~Erasing(o, s)) /\ Settled(r)'
    BY <2>2 DEF Owes, Erasing, Settled, After, CatchingUp, Clearing, InUpload, Shipping, Undelivered
  <2> QED
    BY <2>2, <2>3, DataDirRests
<1>2. ASSUME NEW p \in Procs, Kill(p) \/ AbortStoredRun(p)
      PROVE  DataDirKept'
  <2> PICK o : o = run[p]
    OBVIOUS
  <2> PICK r : r = run'[p]
    OBVIOUS
  <2>1. EndsEffect(o, r)
    BY <1>2, EndsDoes DEF Ends
  <2> QED
    BY <2>1, <1>a, DataDirEnds
<1>3. CASE Reconfigure \/ UNCHANGED vars
  <2>1. UNCHANGED <<archive, manifest, markers, run, breaks>>
    BY <1>3 DEF Reconfigure, vars, places, history
  <2>2. ASSUME NEW p \in Procs PROVE (Settled(run[p]) /\ \A s \in Sids : Accounted(run[p], s))'
    <3> PICK x : x = run[p]
      OBVIOUS
    <3>1. run'[p] = x /\ Settled(x) /\ \A s \in Sids : Accounted(x, s)
      BY <2>1 DEF DataDirKept
    <3>2. \A s \in Sids : Accounted(x, s)'
      BY <2>1, <3>1 DEF Accounted
    <3>3. UNCHANGED job \/ x.pc = "idle"
      BY <1>3 DEF Reconfigure, vars, At
    <3>4. Settled(x)'
      BY <3>1, <3>3 DEF Settled, After, CatchingUp, Clearing, InUpload, Shipping, Undelivered
    <3> QED
      BY <3>1, <3>2, <3>4
  <2> QED
    BY <2>2 DEF DataDirKept
<1> QED
  BY <1>1, <1>2, <1>3, DataDirByStep DEF Next

(***************************************************************************)
(* A job that keeps no local copies leaves the data dir free of snapshots  *)
(* once a run succeeded: for one process, whatever a failed put of an      *)
(* archive leaves, if a failed put of a manifest leaves nothing new. A     *)
(* manifest that is in the data dir although its put raised belongs to no  *)
(* run, and nothing clears it.                                             *)
(***************************************************************************)
THEOREM DataDirHolds ==
  ASSUME Sequential, ManifestLeft = {}
  PROVE  Spec => []DataDirCleared
<1>1. CASE OffsiteOnly
  <2> DEFINE Inv == Control /\ ListingOrder /\ SuccessKept /\ DataDirKept
  <2>1. Init => Inv
    BY ControlInit, ListingInit, SuccessInit, DataDirInit
  <2>2. Inv /\ [Next]_vars => Inv'
    BY <1>1, ControlStep, ListingStep, SuccessStep, DataDirStep
  <2>3. Inv => DataDirCleared
    <3> SUFFICES ASSUME Inv, breaks = 0, NEW p \in Procs, At(p, "record"), JobStatus(run[p]) = "success",
                        NEW s \in Listed(Local)
                 PROVE  FALSE
      BY DEF DataDirCleared
    <3>1. SuccessIsComplete
      BY SuccessFollows
    <3>2. markers = {}
      BY <1>1, <3>1 DEF SuccessIsComplete, OffsiteOnly, Control, TypeOK
    <3>3. s \in Sids /\ manifest[Local][s] # "absent" /\ Accounted(run[p], s)
      BY DEF Listed, DataDirKept
    <3>4. ~Owes(run[p], s)
      BY DEF At, Owes, Undelivered, InUpload, Clearing
    <3> QED
      BY <3>2, <3>3, <3>4 DEF Accounted
  <2> QED
    BY <2>1, <2>2, <2>3, PTL DEF Spec
<1>2. CASE ~OffsiteOnly
  <2>1. DataDirCleared
    BY <1>2 DEF DataDirCleared, OffsiteOnly
  <2> QED
    BY <2>1, PTL
<1> QED
  BY <1>1, <1>2
=============================================================================
