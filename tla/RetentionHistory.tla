--------------------------- MODULE RetentionHistory ---------------------------
(***************************************************************************)
(* One place over its life: a backup run adds a snapshot and then applies  *)
(* the job's retention (runner._apply_retention), an operator may prune by *)
(* hand (cli.prune), and either may stop after some of the deletions. The  *)
(* policy decides each time from what is left of the earlier decisions.    *)
(*                                                                         *)
(* An id is the time the snapshot was taken (snapshots.new_snapshot_id).   *)
(***************************************************************************)
EXTENDS Retention

CONSTANTS
  Policies,   \* the retention configs considered
  Horizon     \* bound on time

ASSUME HistoryAssumption ==
  /\ Policies \subseteq RetentionConfig
  /\ Horizon \in Nat

VARIABLES
  now,
  policy,
  taken,    \* history: every snapshot ever stored in the place
  kept,     \* the snapshots listed in the place
  settled   \* whether the policy was last applied in full, and at this time

vars == <<now, policy, taken, kept, settled>>

TypeOK ==
  /\ now \in Nat
  /\ policy \in Policies
  /\ taken \subseteq 1..now
  /\ kept \subseteq taken
  /\ settled \in BOOLEAN

Snaps(sids) == {[id |-> s, when |-> s] : s \in sids}

Prunable(sids) == SelectPrunable(Snaps(sids), policy, now)

Init ==
  /\ now = 0
  /\ policy \in Policies
  /\ taken = {}
  /\ kept = {}
  /\ settled = TRUE

Tick ==
  /\ now < Horizon
  /\ now' = now + 1
  /\ settled' = FALSE
  /\ UNCHANGED <<policy, taken, kept>>

\* Retention over what the place lists: the snapshots selected are deleted one
\* by one, and a destination that fails stops it where it is.
ApplyRetention(listed) ==
  \E deleted \in SUBSET Prunable(listed) :
     /\ kept' = listed \ deleted
     /\ settled' = (deleted = Prunable(listed))

BackupRun ==
  /\ now \in (1..Horizon) \ taken
  /\ taken' = taken \cup {now}
  /\ ApplyRetention(kept \cup {now})
  /\ UNCHANGED <<now, policy>>

PruneCommand ==
  /\ ApplyRetention(kept)
  /\ UNCHANGED <<now, policy, taken>>

Next == Tick \/ BackupRun \/ PruneCommand

Spec == Init /\ [][Next]_vars

-----------------------------------------------------------------------------
(***************************************************************************)
(* Thinning a little after every run ends where one decision over the      *)
(* whole history would: no run deletes the daily, weekly or monthly        *)
(* checkpoint a later run's tiers would have kept, and an interrupted      *)
(* retention is made good by the next one.                                 *)
(***************************************************************************)
ThinningIsExact == settled => kept = taken \ Prunable(taken)

(***************************************************************************)
(* With a count and no age rule the newest count snapshots ever taken are  *)
(* all still there (count.py), however often retention ran or failed.      *)
(***************************************************************************)
NewestCountKept ==
  policy.count > 0 /\ policy.age_days = 0 =>
    \A s \in taken :
      Cardinality({t \in taken : t > s}) < policy.count => s \in kept

(***************************************************************************)
(* smart_last: a place that ever held a snapshot still holds its newest    *)
(* one, even when every snapshot is past the age rule (docs/retention.md,  *)
(* "retention can never leave a source with zero backups").                *)
(***************************************************************************)
NewestKept ==
  policy.smart_last =>
    \A s \in taken : (\A t \in taken : t <= s) => s \in kept
=============================================================================
