--------------------------- MODULE BackupRunInvariant ---------------------------
(***************************************************************************)
(* Why a stored snapshot is only lost to a retention policy: the inductive *)
(* invariant behind BackupRun!OnlyPolicyRemoves, in two layers. Control    *)
(* says what the position of a run tells of its own fields and of the      *)
(* snapshots stored and marked so far; Holds says which places hold what   *)
(* the run relies on when it next deletes a copy.                          *)
(***************************************************************************)
EXTENDS BackupRun

InUpload(r) == r.pc \in {"archive", "sidecar"}

Shipping(r) == InUpload(r) /\ r.phase = "ship"

Undelivered(r) ==
  r.pc \in {"produce", "connect"} \/ (InUpload(r) /\ r.phase # "ship")

Clearing(r) == r.pc \in {"clear archive", "clear manifest"}

CatchingUp(r) == Shipping(r) \/ r.pc = "ship" \/ Clearing(r)

OffsiteOf(r) == r.stored \ {Local}

-----------------------------------------------------------------------------
(* First layer *)

\* What its position says about the fields of a run ...
Shape(r) ==
  /\ r.pc # "idle" => r.sid \in Sids
  /\ InUpload(r) \/ Clearing(r) \/ r.pc = "delete" => r.item \in Sids
  /\ Undelivered(r) /\ InUpload(r) => r.item = r.sid
  /\ InUpload(r) => r.queue \cap r.got = {}
  /\ r.pc = "sidecar" => r.at \in r.queue
  /\ Shipping(r) => Local \notin r.queue \cup r.got
  /\ CatchingUp(r) \/ r.pc = "drop manifest" => OffsiteOf(r) # {}

\* ... and about what the runs up to time t have stored and marked.
Tracks(r, done, marked, t) ==
  /\ r.pc # "idle" => r.sid <= t
  /\ Undelivered(r) => r.sid \notin done
  /\ r.pc # "idle" /\ ~Undelivered(r) /\ r.stored # {} => r.sid \in done
  /\ r.todo \subseteq done
  /\ Shipping(r) \/ Clearing(r) => r.item \in done
  /\ r.pc = "track" \/ CatchingUp(r) =>
       (OffsiteOf(r) # {} => r.sid \notin marked \cup r.todo)
  /\ Shipping(r) => r.item # r.sid

Control ==
  /\ TypeOK
  /\ \A s \in stored : s <= clock
  /\ \A p \in Procs : Shape(run[p]) /\ Tracks(run[p], stored, markers, clock)
  /\ \A p, q \in Procs : p # q /\ run[p].pc # "idle" /\ run[q].pc # "idle"
                           => run[p].sid # run[q].sid

-----------------------------------------------------------------------------
(* Second layer *)

Held(d, s) == Complete(d, s) \/ s \in pruned

\* What the data dir has of s, another place may be given.
Sealed(s) == archive[Local][s] # "torn" /\ manifest[Local][s] # "torn"

Sequential == \A p, q \in Procs : p = q

NothingTorn == "torn" \notin ArchiveLeft \cup ManifestLeft

Relies(r) ==
  /\ InUpload(r) => \A d \in r.got : Held(d, r.item)
  /\ r.pc = "sidecar" => archive[r.at][r.item] = "whole" \/ r.item \in pruned
  /\ CatchingUp(r) \/ r.pc \in {"track", "retain", "prune", "delete", "drop", "drop manifest"}
       => \A d \in OffsiteOf(r) : Held(d, r.sid)
  /\ Clearing(r) => \A d \in OffsiteOf(r) : Held(d, r.item)
  /\ r.pc = "delete" => r.item \in pruned
  /\ Sequential /\ Shipping(r) => Held(Local, r.item)

Seals(r) ==
  /\ Undelivered(r) /\ InUpload(r) /\ Local \in r.got => Sealed(r.sid)
  /\ Undelivered(r) /\ r.pc = "sidecar" /\ r.at = Local => archive[Local][r.sid] # "torn"
  /\ r.pc = "track" /\ Local \in r.stored => Sealed(r.sid)
  /\ \A s \in r.todo : Sealed(s)
  /\ Shipping(r) => Sealed(r.item)

Holds ==
  /\ \A p \in Procs : Relies(run[p]) /\ Seals(run[p])
  /\ \A s \in markers : Sealed(s)
  /\ OnlyPolicyRemoves

(***************************************************************************)
(* The inductive invariant. With runs that overlap it needs that no failed *)
(* put leaves a torn file: a second run may otherwise tear the copy a      *)
(* first one has just relied on.                                           *)
(***************************************************************************)
SafeDeletion == (Sequential \/ NothingTorn) => Control /\ Holds
=============================================================================
