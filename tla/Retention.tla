------------------------------ MODULE Retention ------------------------------
(***************************************************************************)
(* The retention policies (retention/*.py): pure functions from a set of   *)
(* snapshots to the ids to prune or to keep, and the manager that composes *)
(* them into one decision.                                                 *)
(*                                                                         *)
(* A snapshot is a record with its sortable id and the time it was taken.  *)
(* Calendar days, ISO weeks and year-months are intervals of DayLen,       *)
(* WeekLen and MonthLen time units; the policies use nothing of a calendar *)
(* but that its buckets are ordered like the times in them.                *)
(***************************************************************************)
EXTENDS Integers, FiniteSets

CONSTANTS DayLen, WeekLen, MonthLen

ASSUME CalendarAssumption ==
  /\ DayLen   \in Nat \ {0}
  /\ WeekLen  \in Nat \ {0}
  /\ MonthLen \in Nat \ {0}

Snapshot == [id : Nat, when : Nat]

GFSConfig == [daily : Nat, weekly : Nat, monthly : Nat]

RetentionConfig ==
  [count : Int, age_days : Nat, gfs : GFSConfig, smart_last : BOOLEAN]

Ids(snapshots) == {s.id : s \in snapshots}

NewerThan(s, snapshots) == {t \in snapshots : t.id > s.id}

(***************************************************************************)
(* The two selectors: beyond the newest keep by id, and older than the     *)
(* cutoff. A policy that is zero or negative selects nothing.              *)
(***************************************************************************)
\* Mutant: one too few is kept.
CountOffByOne(snapshots, keep) ==
  Ids({s \in snapshots : keep > 0 /\ Cardinality(NewerThan(s, snapshots)) >= keep - 1})

CountPrunable(snapshots, keep) ==
  Ids({s \in snapshots : keep > 0 /\ Cardinality(NewerThan(s, snapshots)) >= keep})

AgePrunable(snapshots, days, now) ==
  Ids({s \in snapshots : days > 0 /\ s.when < now - days * DayLen})

(***************************************************************************)
(* One grandfather-father-son tier: the newest snapshot, by id, of each of *)
(* the newest n buckets that hold a snapshot.                              *)
(***************************************************************************)
Bucket(s, len) == s.when \div len

\* Mutant: the cap counts snapshots instead of buckets.
TierOfSnapshots(snapshots, n, len) ==
  LET newer(b) == {s \in snapshots : Bucket(s, len) > b}
  IN  Ids({s \in snapshots :
             /\ Cardinality(newer(Bucket(s, len))) < n
             /\ \A t \in NewerThan(s, snapshots) : Bucket(t, len) # Bucket(s, len)})

KeepForTier(snapshots, n, len) ==
  LET buckets == {Bucket(s, len) : s \in snapshots}
      kept    == {b \in buckets : Cardinality({c \in buckets : c > b}) < n}
  IN  Ids({s \in snapshots :
             /\ Bucket(s, len) \in kept
             /\ \A t \in NewerThan(s, snapshots) : Bucket(t, len) # Bucket(s, len)})

GFSKeep(snapshots, gfs) ==
  KeepForTier(snapshots, gfs.daily, DayLen)
    \cup KeepForTier(snapshots, gfs.weekly, WeekLen)
    \cup KeepForTier(snapshots, gfs.monthly, MonthLen)

\* Mutant: the ids sorted the wrong way round.
ProtectedFirst(snapshots) ==
  Ids({s \in snapshots : \A t \in snapshots : t.id >= s.id})

ProtectedLast(snapshots) ==
  Ids({s \in snapshots : NewerThan(s, snapshots) = {}})

(***************************************************************************)
(* manager.select_prunable                                                 *)
(***************************************************************************)
SelectPrunable(snapshots, cfg, now) ==
  (CountPrunable(snapshots, cfg.count) \cup AgePrunable(snapshots, cfg.age_days, now))
    \ (GFSKeep(snapshots, cfg.gfs)
         \cup (IF cfg.smart_last THEN ProtectedLast(snapshots) ELSE {}))
=============================================================================
