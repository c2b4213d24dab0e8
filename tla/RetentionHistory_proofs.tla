------------------------ MODULE RetentionHistory_proofs ------------------------
(***************************************************************************)
(* What the retention policies can never take, for every calendar, every   *)
(* set of policies and every history of runs, failures and manual prunes.  *)
(* The lemmas are about one decision; the theorems carry them over the     *)
(* whole history, in which every decision is made about what the earlier   *)
(* ones have left.                                                         *)
(***************************************************************************)
EXTENDS RetentionHistory, FiniteSetTheorems, WellFoundedInduction, TLAPS

-----------------------------------------------------------------------------
(* One decision *)

(***************************************************************************)
(* The policies only ever name snapshots they were shown.                  *)
(***************************************************************************)
LEMMA PrunableIsListed ==
  ASSUME NEW sids
  PROVE  Prunable(sids) \subseteq sids
<1>1. Ids(Snaps(sids)) \subseteq sids
  <2> SUFFICES ASSUME NEW x \in Snaps(sids) PROVE x.id \in sids
    BY DEF Ids
  <2> QED
    BY DEF Snaps
<1>2. CountPrunable(Snaps(sids), policy.count) \subseteq Ids(Snaps(sids))
  BY DEF CountPrunable, Ids
<1>3. AgePrunable(Snaps(sids), policy.age_days, now) \subseteq Ids(Snaps(sids))
  BY DEF AgePrunable, Ids
<1> QED
  BY <1>1, <1>2, <1>3 DEF Prunable, SelectPrunable

(***************************************************************************)
(* smart_last shields the newest snapshot of the list from every selector. *)
(***************************************************************************)
LEMMA NewestIsProtected ==
  ASSUME NEW sids \in SUBSET Int, policy.smart_last,
         NEW s \in sids, \A t \in sids : t <= s
  PROVE  s \notin Prunable(sids)
<1> DEFINE newest == [id |-> s, when |-> s]
<1>1. newest \in Snaps(sids) /\ newest.id = s
  BY DEF Snaps
<1>2. NewerThan(newest, Snaps(sids)) = {}
  BY <1>1 DEF NewerThan, Snaps
<1>3. s \in ProtectedLast(Snaps(sids))
  BY <1>1, <1>2 DEF ProtectedLast, Ids
<1> QED
  BY <1>3 DEF Prunable, SelectPrunable

(***************************************************************************)
(* Without an age rule, a snapshot with fewer than count newer ones in the *)
(* list is not selected.                                                   *)
(***************************************************************************)
LEMMA NewestCountIsSpared ==
  ASSUME NEW sids \in SUBSET Int, IsFiniteSet(sids), policy \in RetentionConfig,
         policy.age_days = 0, NEW s \in sids,
         Cardinality({t \in sids : t > s}) < policy.count
  PROVE  s \notin Prunable(sids)
<1> DEFINE newer == {t \in sids : t > s}
           snaps == Snaps(sids)
<1>1. IsFiniteSet(newer)
  BY FS_Subset
<1>2. ASSUME NEW x \in snaps, x.id = s
      PROVE  Cardinality(NewerThan(x, snaps)) <= Cardinality(newer)
  <2> DEFINE f == [t \in newer |-> [id |-> t, when |-> t]]
  <2>1. NewerThan(x, snaps) = {f[t] : t \in newer}
    BY <1>2 DEF NewerThan, Snaps
  <2>2. f \in Surjection(newer, NewerThan(x, snaps))
    BY <2>1 DEF Surjection
  <2> QED
    BY <1>1, <2>2, FS_Surjection
<1>3. Cardinality(newer) \in Nat /\ policy.count \in Int
  BY <1>1, FS_CardinalityType DEF RetentionConfig
<1>4. \A x \in snaps : x.id = s => Cardinality(NewerThan(x, snaps)) \in Nat
  <2> SUFFICES ASSUME NEW x \in snaps PROVE Cardinality(NewerThan(x, snaps)) \in Nat
    OBVIOUS
  <2> DEFINE g == [t \in sids |-> [id |-> t, when |-> t]]
  <2>1. g \in Surjection(sids, snaps)
    BY DEF Surjection, Snaps
  <2>2. IsFiniteSet(snaps)
    BY <2>1, FS_Surjection
  <2> QED
    BY <2>2, FS_Subset, FS_CardinalityType DEF NewerThan
<1>5. s \notin CountPrunable(snaps, policy.count)
  BY <1>2, <1>3, <1>4 DEF CountPrunable, Ids
<1>6. AgePrunable(snaps, policy.age_days, now) = {}
  BY DEF AgePrunable, Ids
<1> QED
  BY <1>5, <1>6 DEF Prunable, SelectPrunable

-----------------------------------------------------------------------------
(* One decision and another: more history, a later time, a thinned list *)

(***************************************************************************)
(* A nonempty set of naturals has a least element, and a nonempty finite   *)
(* set of integers a greatest one.                                         *)
(***************************************************************************)
LEMMA Least ==
  ASSUME NEW S \in SUBSET Nat, S # {}
  PROVE  \E m \in S : \A x \in S : m <= x
<1> DEFINE R == {ss \in Nat \X Nat : ss[1] < ss[2]}
<1>1. IsWellFoundedOn(R, Nat)
  BY NatLessThanWellFounded DEF OpToRel
<1>2. \A x, y \in Nat : x < y => <<x, y>> \in R
  <2> SUFFICES ASSUME NEW x \in Nat, NEW y \in Nat, x < y PROVE <<x, y>> \in R
    OBVIOUS
  <2>1. <<x, y>> \in Nat \X Nat /\ <<x, y>>[1] = x /\ <<x, y>>[2] = y
    OBVIOUS
  <2> QED
    BY <2>1
<1> HIDE DEF R
<1>3. PICK m \in S : \A y \in S : ~ (<<y, m>> \in R)
  BY <1>1, WFMin
<1>4. ASSUME NEW x \in S PROVE m <= x
  <2>1. x \in Nat /\ m \in Nat
    OBVIOUS
  <2>2. ~ (x < m)
    BY <2>1, <1>2, <1>3
  <2> QED
    BY <2>1, <2>2
<1> QED
  BY <1>4

LEMMA Greatest ==
  ASSUME NEW S \in SUBSET Int, IsFiniteSet(S), S # {}
  PROVE  \E m \in S : \A x \in S : x <= m
<1> DEFINE above(x) == {y \in S : y > x}
           sizes == {Cardinality(above(x)) : x \in S}
<1>1. \A x \in S : IsFiniteSet(above(x)) /\ Cardinality(above(x)) \in Nat
  BY FS_Subset, FS_CardinalityType
<1>2. sizes \in SUBSET Nat /\ sizes # {}
  BY <1>1
<1>3. PICK n \in sizes : \A k \in sizes : n <= k
  <2> HIDE DEF sizes
  <2> QED
    BY <1>2, Least
<1>4. PICK m \in S : n = Cardinality(above(m))
  OBVIOUS
<1>5. ASSUME NEW x \in S, x > m PROVE FALSE
  <2>0. x \in Int /\ m \in Int
    OBVIOUS
  <2>1. x \in above(m) /\ x \notin above(x)
    BY <1>5, <2>0
  <2>2. ASSUME NEW y \in above(x) PROVE y \in above(m)
    <3>1. y \in S /\ y \in Int /\ y > x
      OBVIOUS
    <3> QED
      BY <3>1, <2>0, <1>5
  <2>3. Cardinality(above(x)) < Cardinality(above(m))
    <3> HIDE DEF above
    <3>1. above(x) \in SUBSET above(m) /\ above(x) # above(m)
      BY <2>1, <2>2
    <3> QED
      BY <3>1, <1>1, FS_Subset
  <2>4. Cardinality(above(x)) \in sizes
    OBVIOUS
  <2>5. n <= Cardinality(above(x))
    <3> HIDE DEF sizes, above
    <3> QED
      BY <2>4, <1>3
  <2>6. Cardinality(above(x)) \in Nat /\ Cardinality(above(m)) \in Nat
    BY <1>1
  <2> HIDE DEF above, sizes
  <2> QED
    BY <2>3, <2>5, <2>6, <1>4
<1>6. ASSUME NEW x \in S PROVE x <= m
  <2>1. x \in Int /\ m \in Int /\ ~ (x > m)
    BY <1>5
  <2> QED
    BY <2>1
<1> QED
  BY <1>6

(***************************************************************************)
(* The selectors and tiers in terms of the ids, which are the times: Newer *)
(* and Later are the newer ids and the later buckets of a list.            *)
(***************************************************************************)
Newer(s, X) == {t \in X : t > s}
Later(b, X, len) == {c \in {t \div len : t \in X} : c > b}
NewestOfBucket(s, X, len) == \A t \in X : t > s => t \div len # s \div len
InTier(s, X, n, len) ==
  Cardinality(Later(s \div len, X, len)) < n /\ NewestOfBucket(s, X, len)

Snap(s) == [id |-> s, when |-> s]

LEMMA SnapsAre ==
  ASSUME NEW X
  PROVE  /\ Snaps(X) = {Snap(s) : s \in X}
         /\ \A s : Snap(s).id = s /\ Snap(s).when = s
BY DEF Snaps, Snap

LEMMA NewerAre ==
  ASSUME NEW X \in SUBSET Int, NEW r
  PROVE  NewerThan(Snap(r), Snaps(X)) = {Snap(t) : t \in Newer(r, X)}
<1>1. \A x : x \in Snaps(X) <=> \E t \in X : x = Snap(t)
  BY SnapsAre
<1>2. \A x : x \in NewerThan(Snap(r), Snaps(X)) <=> x \in Snaps(X) /\ x.id > r
  BY SnapsAre DEF NewerThan
<1>3. \A t \in X : Snap(t).id > r <=> t > r
  BY SnapsAre
<1>4. \A x : x \in NewerThan(Snap(r), Snaps(X)) <=> \E t \in X : x = Snap(t) /\ t > r
  BY <1>1, <1>2, <1>3
<1>5. \A x : x \in {Snap(t) : t \in Newer(r, X)} <=> \E t \in X : x = Snap(t) /\ t > r
  BY DEF Newer
<1> QED
  BY <1>4, <1>5

LEMMA CountIs ==
  ASSUME NEW X \in SUBSET Int, IsFiniteSet(X), NEW k, NEW s
  PROVE  s \in CountPrunable(Snaps(X), k)
           <=> s \in X /\ k > 0 /\ Cardinality(Newer(s, X)) >= k
<1>1. ASSUME NEW r \in X
      PROVE  Cardinality(NewerThan(Snap(r), Snaps(X))) = Cardinality(Newer(r, X))
  <2> DEFINE f == [t \in Newer(r, X) |-> Snap(t)]
             there == {Snap(t) : t \in Newer(r, X)}
  <2>1. IsFiniteSet(Newer(r, X))
    BY FS_Subset DEF Newer
  <2>2. f \in Surjection(Newer(r, X), there)
    BY DEF Surjection
  <2>3. \A t, u \in Newer(r, X) : f[t] = f[u] => t = u
    BY SnapsAre
  <2>4. f \in Bijection(Newer(r, X), there)
    <3> HIDE DEF f, there
    <3> QED
      BY <2>2, <2>3 DEF Bijection, Injection, Surjection, IsInjective
  <2>5. Cardinality(there) = Cardinality(Newer(r, X))
    <3> HIDE DEF f, there
    <3> QED
      BY <2>1, <2>4, FS_Bijection DEF ExistsBijection
  <2> QED
    BY <2>5, NewerAre
<1> DEFINE chosen == {x \in Snaps(X) : k > 0 /\ Cardinality(NewerThan(x, Snaps(X))) >= k}
<1>2. \A x : x \in chosen
               <=> \E r \in X : /\ x = Snap(r)
                                /\ k > 0
                                /\ Cardinality(NewerThan(Snap(r), Snaps(X))) >= k
  BY SnapsAre
<1>3. \A x : x \in chosen
               <=> \E r \in X : x = Snap(r) /\ k > 0 /\ Cardinality(Newer(r, X)) >= k
  BY <1>1, <1>2
<1>4. CountPrunable(Snaps(X), k) = {x.id : x \in chosen}
  BY DEF CountPrunable, Ids
<1> DEFINE beyond(r) == k > 0 /\ Cardinality(Newer(r, X)) >= k
<1>5. \A x : x \in chosen <=> \E r \in X : x = Snap(r) /\ beyond(r)
  BY <1>3
<1>6. s \in X /\ k > 0 /\ Cardinality(Newer(s, X)) >= k <=> s \in X /\ beyond(s)
  OBVIOUS
<1> HIDE DEF chosen, beyond
<1> QED
  BY <1>4, <1>5, <1>6, SnapsAre

LEMMA AgeIs ==
  ASSUME NEW X, NEW days, NEW at, NEW s
  PROVE  s \in AgePrunable(Snaps(X), days, at)
           <=> s \in X /\ days > 0 /\ s < at - days * DayLen
<1> DEFINE old(t) == t < at - days * DayLen
           chosen == {x \in Snaps(X) : days > 0 /\ x.when < at - days * DayLen}
<1>1. chosen = {x \in Snaps(X) : days > 0 /\ old(x.when)}
  OBVIOUS
<1>2. AgePrunable(Snaps(X), days, at) = {x.id : x \in chosen}
  BY DEF AgePrunable, Ids
<1>3. s < at - days * DayLen <=> old(s)
  OBVIOUS
<1> HIDE DEF old
<1>4. \A x : x \in chosen <=> \E r \in X : x = Snap(r) /\ days > 0 /\ old(r)
  BY <1>1, SnapsAre
<1> HIDE DEF chosen
<1> QED
  BY <1>2, <1>3, <1>4, SnapsAre

LEMMA LastIs ==
  ASSUME NEW X \in SUBSET Int, NEW s
  PROVE  s \in ProtectedLast(Snaps(X)) <=> s \in X /\ Newer(s, X) = {}
<1> DEFINE chosen == {x \in Snaps(X) : NewerThan(x, Snaps(X)) = {}}
<1>1. \A x : x \in chosen
               <=> \E r \in X : x = Snap(r) /\ NewerThan(Snap(r), Snaps(X)) = {}
  BY SnapsAre
<1>2. ASSUME NEW r PROVE NewerThan(Snap(r), Snaps(X)) = {} <=> Newer(r, X) = {}
  <2>1. NewerThan(Snap(r), Snaps(X)) = {Snap(t) : t \in Newer(r, X)}
    BY NewerAre
  <2> QED
    BY <2>1
<1>3. ProtectedLast(Snaps(X)) = {x.id : x \in chosen}
  BY DEF ProtectedLast, Ids
<1> DEFINE last(r) == Newer(r, X) = {}
<1>4. \A x : x \in chosen <=> \E r \in X : x = Snap(r) /\ last(r)
  BY <1>1, <1>2
<1>5. s \in X /\ Newer(s, X) = {} <=> s \in X /\ last(s)
  OBVIOUS
<1> HIDE DEF chosen, last
<1>6. s \in {x.id : x \in chosen} <=> \E r \in X : Snap(r).id = s /\ last(r)
  BY <1>4
<1>7. s \in {x.id : x \in chosen} <=> s \in X /\ last(s)
  BY <1>6, SnapsAre
<1> QED
  BY <1>3, <1>5, <1>7

LEMMA TierIs ==
  ASSUME NEW X \in SUBSET Int, NEW n, NEW len, NEW s
  PROVE  s \in KeepForTier(Snaps(X), n, len) <=> s \in X /\ InTier(s, X, n, len)
<1> DEFINE buckets == {Bucket(x, len) : x \in Snaps(X)}
           top     == {b \in buckets : Cardinality({c \in buckets : c > b}) < n}
           newest(x) == \A t \in NewerThan(x, Snaps(X)) : Bucket(t, len) # Bucket(x, len)
           chosen == {x \in Snaps(X) : Bucket(x, len) \in top /\ newest(x)}
<1>1. buckets = {t \div len : t \in X}
  <2>1. \A b : b \in buckets <=> \E t \in X : b = Bucket(Snap(t), len)
    BY SnapsAre
  <2>2. \A t : Bucket(Snap(t), len) = t \div len
    BY SnapsAre DEF Bucket
  <2> HIDE DEF buckets
  <2> QED
    BY <2>1, <2>2
<1>2. \A r : Bucket(Snap(r), len) = r \div len
  BY SnapsAre DEF Bucket
<1>3. ASSUME NEW r
      PROVE  newest(Snap(r)) <=> NewestOfBucket(r, X, len)
  BY <1>2, NewerAre DEF NewestOfBucket, Newer
<1>4. ASSUME NEW r \in X
      PROVE  Bucket(Snap(r), len) \in top
               <=> Cardinality(Later(r \div len, X, len)) < n
  <2> DEFINE b == r \div len
  <2>1. b \in buckets
    BY <1>1
  <2>2. {c \in buckets : c > b} = Later(b, X, len)
    BY <1>1 DEF Later
  <2> HIDE DEF buckets, b
  <2>3. b \in top <=> Cardinality({c \in buckets : c > b}) < n
    BY <2>1
  <2> QED
    BY <1>2, <2>2, <2>3 DEF b
<1>5. KeepForTier(Snaps(X), n, len) = {x.id : x \in chosen}
  BY DEF KeepForTier, Ids
<1> HIDE DEF top, newest
<1>6. \A x : x \in chosen
               <=> \E r \in X : /\ x = Snap(r)
                                /\ Bucket(Snap(r), len) \in top
                                /\ newest(Snap(r))
  BY SnapsAre
<1>7. \A x : x \in chosen <=> \E r \in X : x = Snap(r) /\ InTier(r, X, n, len)
  BY <1>3, <1>4, <1>6 DEF InTier
<1> HIDE DEF chosen
<1> QED
  BY <1>5, <1>7, SnapsAre

Beyond(s, X, p) == p.count > 0 /\ Cardinality(Newer(s, X)) >= p.count
Old(s, p, at)   == p.age_days > 0 /\ s < at - p.age_days * DayLen
Shielded(s, X, p) ==
  \/ InTier(s, X, p.gfs.daily, DayLen)
  \/ InTier(s, X, p.gfs.weekly, WeekLen)
  \/ InTier(s, X, p.gfs.monthly, MonthLen)
  \/ p.smart_last /\ Newer(s, X) = {}

LEMMA SelectedAre ==
  ASSUME NEW X \in SUBSET Int, IsFiniteSet(X), NEW p, NEW at, NEW s
  PROVE  s \in SelectPrunable(Snaps(X), p, at)
           <=> s \in X /\ (Beyond(s, X, p) \/ Old(s, p, at)) /\ ~ Shielded(s, X, p)
<1>1. s \in CountPrunable(Snaps(X), p.count) <=> s \in X /\ Beyond(s, X, p)
  BY CountIs DEF Beyond
<1>2. s \in AgePrunable(Snaps(X), p.age_days, at) <=> s \in X /\ Old(s, p, at)
  BY AgeIs DEF Old
<1>3. s \in GFSKeep(Snaps(X), p.gfs)
        <=> s \in X /\ (\/ InTier(s, X, p.gfs.daily, DayLen)
                        \/ InTier(s, X, p.gfs.weekly, WeekLen)
                        \/ InTier(s, X, p.gfs.monthly, MonthLen))
  BY TierIs DEF GFSKeep
<1>4. s \in ProtectedLast(Snaps(X)) <=> s \in X /\ Newer(s, X) = {}
  BY LastIs
<1> QED
  BY <1>1, <1>2, <1>3, <1>4 DEF SelectPrunable, Shielded

LEMMA NewerFinite ==
  ASSUME NEW X, IsFiniteSet(X), NEW s
  PROVE  IsFiniteSet(Newer(s, X)) /\ Cardinality(Newer(s, X)) \in Nat
BY FS_Subset, FS_CardinalityType DEF Newer

LEMMA LaterFinite ==
  ASSUME NEW X \in SUBSET Int, IsFiniteSet(X), NEW b, NEW len \in Nat \ {0}
  PROVE  /\ Later(b, X, len) \in SUBSET Int
         /\ IsFiniteSet(Later(b, X, len))
         /\ Cardinality(Later(b, X, len)) \in Nat
<1> DEFINE buckets == {t \div len : t \in X}
<1>1. \A t \in X : t \div len \in Int
  OBVIOUS
<1>2. buckets \in SUBSET Int
  BY <1>1
<1>3. IsFiniteSet(buckets)
  <2> DEFINE bucket == [t \in X |-> t \div len]
  <2>1. bucket \in Surjection(X, buckets)
    BY DEF Surjection
  <2> HIDE DEF bucket, buckets
  <2> QED
    BY <2>1, FS_Surjection
<1>4. Later(b, X, len) \in SUBSET buckets
  BY DEF Later
<1> QED
  BY <1>2, <1>3, <1>4, FS_Subset, FS_CardinalityType

LEMMA NewerGrows ==
  ASSUME NEW Y, IsFiniteSet(Y), NEW X \in SUBSET Y, NEW s
  PROVE  Cardinality(Newer(s, X)) <= Cardinality(Newer(s, Y))
<1>1. Newer(s, X) \in SUBSET Newer(s, Y)
  BY DEF Newer
<1> QED
  BY <1>1, NewerFinite, FS_Subset

LEMMA LaterGrows ==
  ASSUME NEW Y \in SUBSET Int, IsFiniteSet(Y), NEW X \in SUBSET Y,
         NEW b, NEW len \in Nat \ {0}
  PROVE  Cardinality(Later(b, X, len)) <= Cardinality(Later(b, Y, len))
<1>1. Later(b, X, len) \in SUBSET Later(b, Y, len)
  BY DEF Later
<1> QED
  BY <1>1, LaterFinite, FS_Subset

LEMMA ShieldedBefore ==
  ASSUME NEW Y \in SUBSET Int, IsFiniteSet(Y), NEW X \in SUBSET Y, NEW s \in X,
         NEW p \in RetentionConfig, Shielded(s, Y, p)
  PROVE  Shielded(s, X, p)
<1> USE CalendarAssumption
<1>1. IsFiniteSet(X) /\ X \in SUBSET Int
  BY FS_Subset
<1>2. ASSUME NEW n \in Nat, NEW len \in Nat \ {0}, InTier(s, Y, n, len)
      PROVE  InTier(s, X, n, len)
  <2>1. Cardinality(Later(s \div len, X, len)) < n
    BY <1>1, <1>2, LaterGrows, LaterFinite DEF InTier
  <2>2. NewestOfBucket(s, X, len)
    BY <1>2 DEF InTier, NewestOfBucket
  <2> QED
    BY <2>1, <2>2 DEF InTier
<1>3. p.gfs.daily \in Nat /\ p.gfs.weekly \in Nat /\ p.gfs.monthly \in Nat
  BY DEF RetentionConfig, GFSConfig
<1>4. Newer(s, Y) = {} => Newer(s, X) = {}
  BY DEF Newer
<1> QED
  BY <1>2, <1>3, <1>4 DEF Shielded

(***************************************************************************)
(* A snapshot selected from a list is selected from every longer one, and  *)
(* at every later time: a decision never has to be taken back.             *)
(***************************************************************************)
LEMMA SelectionGrows ==
  ASSUME NEW Y \in SUBSET Int, IsFiniteSet(Y), NEW X \in SUBSET Y,
         NEW p \in RetentionConfig, NEW at \in Int, NEW later \in Int, at <= later
  PROVE  SelectPrunable(Snaps(X), p, at) \subseteq SelectPrunable(Snaps(Y), p, later)
<1> USE CalendarAssumption
<1>1. IsFiniteSet(X) /\ X \in SUBSET Int
  BY FS_Subset
<1> SUFFICES ASSUME NEW s \in SelectPrunable(Snaps(X), p, at)
             PROVE  s \in SelectPrunable(Snaps(Y), p, later)
  OBVIOUS
<1>2. s \in X /\ (Beyond(s, X, p) \/ Old(s, p, at)) /\ ~ Shielded(s, X, p)
  BY <1>1, SelectedAre
<1>3. Beyond(s, X, p) => Beyond(s, Y, p)
  <2>1. p.count \in Int
    BY DEF RetentionConfig
  <2>2. Cardinality(Newer(s, X)) \in Nat /\ Cardinality(Newer(s, Y)) \in Nat
    BY <1>1, NewerFinite
  <2>3. Cardinality(Newer(s, X)) <= Cardinality(Newer(s, Y))
    BY NewerGrows
  <2> QED
    BY <2>1, <2>2, <2>3 DEF Beyond
<1>4. Old(s, p, at) => Old(s, p, later)
  <2>1. p.age_days * DayLen \in Int /\ s \in Int
    BY <1>1, <1>2 DEF RetentionConfig
  <2> DEFINE span == p.age_days * DayLen
  <2>2. at - span <= later - span
    <3> HIDE DEF span
    <3> QED
      BY <2>1 DEF span
  <2> HIDE DEF span
  <2>3. s < at - span => s < later - span
    BY <2>1, <2>2 DEF span
  <2> QED
    BY <2>3 DEF Old, span
<1>5. ~ Shielded(s, Y, p)
  BY <1>2, ShieldedBefore
<1> QED
  BY <1>2, <1>3, <1>4, <1>5, SelectedAre

LEMMA NewestThere ==
  ASSUME NEW T \in SUBSET Int, IsFiniteSet(T), NEW u \in T, NEW len \in Nat \ {0}
  PROVE  \E r \in T : /\ r \div len = u \div len
                      /\ u <= r
                      /\ NewestOfBucket(r, T, len)
<1> DEFINE mates == {t \in T : t \div len = u \div len}
<1>1. mates \in SUBSET Int /\ IsFiniteSet(mates) /\ u \in mates
  BY FS_Subset
<1>2. PICK r \in mates : \A t \in mates : t <= r
  <2> HIDE DEF mates
  <2> QED
    BY <1>1, Greatest
<1>3. ASSUME NEW t \in T, t > r PROVE t \div len # r \div len
  <2>1. t \in Int /\ r \in Int
    OBVIOUS
  <2>2. t \notin mates
    BY <1>2, <1>3, <2>1
  <2> QED
    BY <2>2
<1> QED
  BY <1>1, <1>2, <1>3 DEF NewestOfBucket

LEMMA BeyondStill ==
  ASSUME NEW T \in SUBSET Int, IsFiniteSet(T), NEW L \in SUBSET T,
         NEW p \in RetentionConfig, NEW at \in Int,
         T \ SelectPrunable(Snaps(T), p, at) \subseteq L,
         NEW s \in L, Beyond(s, T, p), ~ Old(s, p, at)
  PROVE  Beyond(s, L, p)
<1> USE CalendarAssumption
<1> DEFINE missing == {t \in T \ L : t > s}
<1>1. IsFiniteSet(L) /\ L \in SUBSET Int /\ p.count \in Int /\ s \in Int
  BY FS_Subset DEF RetentionConfig
<1>2. CASE missing = {}
  <2>1. Newer(s, L) = Newer(s, T)
    BY <1>2 DEF Newer
  <2> QED
    BY <2>1 DEF Beyond
<1>3. CASE missing # {}
  <2>1. missing \in SUBSET Int /\ IsFiniteSet(missing)
    BY FS_Subset
  <2>2. PICK m \in missing : \A t \in missing : t <= m
    <3> HIDE DEF missing
    <3> QED
      BY <1>3, <2>1, Greatest
  <2>3. m \in Int /\ s < m /\ m \in SelectPrunable(Snaps(T), p, at)
    BY <1>1, <2>1
  <2>4. ~ Old(m, p, at)
    <3> DEFINE cutoff == at - p.age_days * DayLen
    <3>1. p.age_days * DayLen \in Int
      BY DEF RetentionConfig
    <3>2. cutoff \in Int
      BY <3>1
    <3> HIDE DEF cutoff
    <3>3. m < cutoff => s < cutoff
      BY <1>1, <2>3, <3>2
    <3> QED
      BY <3>3 DEF Old, cutoff
  <2>5. Beyond(m, T, p)
    BY <2>3, <2>4, SelectedAre
  <2>6. Newer(m, T) \in SUBSET Newer(s, L)
    <3> SUFFICES ASSUME NEW t \in T, t > m PROVE t \in L /\ t > s
      BY DEF Newer
    <3>1. t > s /\ ~ (t <= m)
      BY <1>1, <2>3
    <3>2. t \notin missing
      BY <2>2, <3>1
    <3> QED
      BY <3>1, <3>2
  <2>7. IsFiniteSet(Newer(s, L)) /\ Cardinality(Newer(s, L)) \in Nat
    BY <1>1, NewerFinite
  <2>8. Cardinality(Newer(m, T)) <= Cardinality(Newer(s, L))
    BY <2>6, <2>7, FS_Subset
  <2>9. Cardinality(Newer(m, T)) \in Nat
    BY NewerFinite
  <2> QED
    BY <1>1, <2>5, <2>7, <2>8, <2>9 DEF Beyond
<1> QED
  BY <1>2, <1>3

LEMMA InTierStill ==
  ASSUME NEW T \in SUBSET Int, IsFiniteSet(T), NEW L \in SUBSET T,
         NEW n \in Nat, NEW len \in Nat \ {0},
         \A t \in T : InTier(t, T, n, len) => t \in L,
         NEW s \in L, InTier(s, L, n, len)
  PROVE  InTier(s, T, n, len)
<1> DEFINE b == s \div len
<1>1. IsFiniteSet(L) /\ L \in SUBSET Int /\ s \in Int /\ b \in Int
  <2>1. s \in Int
    OBVIOUS
  <2>2. s \div len \in Int
    BY <2>1
  <2>3. IsFiniteSet(L)
    BY FS_Subset
  <2> QED
    BY <2>1, <2>2, <2>3
<1>2. /\ Later(b, T, len) \in SUBSET Int /\ IsFiniteSet(Later(b, T, len))
      /\ Cardinality(Later(b, T, len)) \in Nat
      /\ IsFiniteSet(Later(b, L, len)) /\ Cardinality(Later(b, L, len)) \in Nat
  BY <1>1, LaterFinite
<1>3. Cardinality(Later(b, L, len)) < n
  BY DEF InTier
<1>4. Cardinality(Later(b, T, len)) < n
  <2> DEFINE missing == Later(b, T, len) \ Later(b, L, len)
  <2>1. CASE missing = {}
    <3>1. Cardinality(Later(b, T, len)) <= Cardinality(Later(b, L, len))
      BY <1>2, <2>1, FS_Subset
    <3> QED
      BY <1>2, <1>3, <3>1
  <2>2. CASE missing # {}
    <3>1. missing \in SUBSET Int /\ IsFiniteSet(missing)
      BY <1>2, FS_Subset
    <3>2. PICK m \in missing : \A c \in missing : c <= m
      <4> HIDE DEF missing
      <4> QED
        BY <2>2, <3>1, Greatest
    <3>3. m \in Int /\ m > b
      BY <3>1 DEF Later
    <3>4. PICK u \in T : m = u \div len
      BY DEF Later
    <3>5. PICK r \in T : r \div len = m /\ NewestOfBucket(r, T, len)
      BY <3>4, NewestThere
    <3>6. r \notin L
      BY <3>3, <3>5 DEF Later
    <3>7. ~ (Cardinality(Later(m, T, len)) < n)
      BY <3>5, <3>6 DEF InTier
    <3>8. Later(m, T, len) \in SUBSET Later(b, L, len)
      <4> SUFFICES ASSUME NEW c \in Later(m, T, len) PROVE c \in Later(b, L, len)
        OBVIOUS
      <4>1. c \in Int /\ c > m /\ c \in {t \div len : t \in T}
        BY <3>3, LaterFinite DEF Later
      <4>2. c > b /\ ~ (c <= m)
        BY <1>1, <3>3, <4>1
      <4>3. c \in Later(b, T, len)
        BY <4>1, <4>2 DEF Later
      <4>4. c \notin missing
        BY <3>2, <4>2
      <4> QED
        BY <4>3, <4>4
    <3>9. Cardinality(Later(m, T, len)) <= Cardinality(Later(b, L, len))
      BY <1>2, <3>8, FS_Subset
    <3>10. Cardinality(Later(m, T, len)) \in Nat
      BY <3>3, LaterFinite
    <3> QED
      BY <1>2, <1>3, <3>7, <3>9, <3>10
  <2> QED
    BY <2>1, <2>2
<1>5. NewestOfBucket(s, T, len)
  <2> SUFFICES ASSUME NEW u \in T, u > s, u \div len = b PROVE FALSE
    BY DEF NewestOfBucket
  <2>1. PICK r \in T : r \div len = b /\ u <= r /\ NewestOfBucket(r, T, len)
    BY NewestThere
  <2>2. r \in L
    BY <1>4, <2>1 DEF InTier
  <2>3. r > s
    BY <1>1, <2>1
  <2> QED
    BY <2>1, <2>2, <2>3 DEF InTier, NewestOfBucket
<1> QED
  BY <1>4, <1>5 DEF InTier

(***************************************************************************)
(* As long as everything the policy would spare of the whole history is    *)
(* still listed, a decision about the list is the decision about the       *)
(* history: what is missing never stood in the way of what is there.       *)
(***************************************************************************)
LEMMA SelectionIsLocal ==
  ASSUME NEW T \in SUBSET Int, IsFiniteSet(T), NEW L \in SUBSET T,
         NEW p \in RetentionConfig, NEW at \in Int,
         T \ SelectPrunable(Snaps(T), p, at) \subseteq L
  PROVE  SelectPrunable(Snaps(L), p, at) = SelectPrunable(Snaps(T), p, at) \cap L
<1> USE CalendarAssumption
<1>1. IsFiniteSet(L) /\ L \in SUBSET Int
  BY FS_Subset
<1>2. SelectPrunable(Snaps(L), p, at) \subseteq SelectPrunable(Snaps(T), p, at) \cap L
  <2>1. at <= at
    OBVIOUS
  <2>2. SelectPrunable(Snaps(L), p, at) \subseteq SelectPrunable(Snaps(T), p, at)
    BY <2>1, SelectionGrows
  <2>3. SelectPrunable(Snaps(L), p, at) \subseteq L
    BY <1>1, SelectedAre
  <2> QED
    BY <2>2, <2>3
<1>3. ASSUME NEW s \in L, s \in SelectPrunable(Snaps(T), p, at)
      PROVE  s \in SelectPrunable(Snaps(L), p, at)
  <2>1. (Beyond(s, T, p) \/ Old(s, p, at)) /\ ~ Shielded(s, T, p)
    BY <1>3, SelectedAre
  <2>2. Beyond(s, L, p) \/ Old(s, p, at)
    BY <2>1, BeyondStill
  <2>3. \A t \in T : Shielded(t, T, p) => t \in L
    BY SelectedAre
  <2>4. p.gfs.daily \in Nat /\ p.gfs.weekly \in Nat /\ p.gfs.monthly \in Nat
    BY DEF RetentionConfig, GFSConfig
  <2>5. ~ InTier(s, L, p.gfs.daily, DayLen)
    BY <2>1, <2>3, <2>4, InTierStill DEF Shielded
  <2>6. ~ InTier(s, L, p.gfs.weekly, WeekLen)
    BY <2>1, <2>3, <2>4, InTierStill DEF Shielded
  <2>7. ~ InTier(s, L, p.gfs.monthly, MonthLen)
    BY <2>1, <2>3, <2>4, InTierStill DEF Shielded
  <2>8. ASSUME p.smart_last, Newer(s, L) = {} PROVE FALSE
    <3>1. PICK r \in T : \A t \in T : t <= r
      BY Greatest
    <3>2. Newer(r, T) = {}
      <4> SUFFICES ASSUME NEW t \in T, t > r PROVE FALSE
        BY DEF Newer
      <4> QED
        BY <3>1
    <3>3. r \in L
      BY <2>3, <2>8, <3>2 DEF Shielded
    <3>4. ~ (r > s)
      BY <2>8, <3>3 DEF Newer
    <3>5. r = s
      BY <1>1, <3>1, <3>4
    <3> QED
      BY <2>1, <2>8, <3>2, <3>5 DEF Shielded
  <2>9. ~ Shielded(s, L, p)
    BY <2>5, <2>6, <2>7, <2>8 DEF Shielded
  <2> QED
    BY <1>1, <2>2, <2>9, SelectedAre
<1> QED
  BY <1>2, <1>3

-----------------------------------------------------------------------------
(* The whole history *)

(***************************************************************************)
(* What a place keeps are snapshots that were taken in the past.           *)
(***************************************************************************)
THEOREM Typing == Spec => []TypeOK
<1> USE HistoryAssumption
<1>1. Init => TypeOK
  BY DEF Init, TypeOK
<1>2. TypeOK /\ [Next]_vars => TypeOK'
  <2> SUFFICES ASSUME TypeOK, [Next]_vars PROVE TypeOK'
    OBVIOUS
  <2> USE DEF TypeOK
  <2>1. CASE Tick
    <3>1. now' \in Nat /\ 1..now \subseteq 1..now'
      BY <2>1 DEF Tick
    <3> QED
      BY <2>1, <3>1 DEF Tick
  <2>2. CASE BackupRun
    <3>1. now \in 1..now /\ UNCHANGED <<now, policy>>
      BY <2>2 DEF BackupRun
    <3>2. taken' = taken \cup {now} /\ kept' \subseteq kept \cup {now}
      BY <2>2 DEF BackupRun, ApplyRetention
    <3>3. settled' \in BOOLEAN
      BY <2>2 DEF BackupRun, ApplyRetention
    <3> QED
      BY <3>1, <3>2, <3>3
  <2>3. CASE PruneCommand
    BY <2>3, PrunableIsListed DEF PruneCommand, ApplyRetention
  <2>4. CASE UNCHANGED vars
    BY <2>4 DEF vars
  <2> QED
    BY <2>1, <2>2, <2>3, <2>4 DEF Next
<1> QED
  BY <1>1, <1>2, PTL DEF Spec

(***************************************************************************)
(* Whatever is listed and however much of a decision is carried out, a     *)
(* snapshot the decision spares stays.                                     *)
(***************************************************************************)
LEMMA SparedStays ==
  ASSUME NEW sids, ApplyRetention(sids), NEW s \in sids, s \notin Prunable(sids)
  PROVE  s \in kept'
BY DEF ApplyRetention

(***************************************************************************)
(* smart_last: the newest snapshot ever taken is never deleted, under any  *)
(* policy and whatever runs, failures and manual prunes came before.       *)
(***************************************************************************)
THEOREM SmartLast == Spec => []NewestKept
<1>1. Init => NewestKept
  BY DEF Init, NewestKept
<1>2. TypeOK /\ NewestKept /\ [Next]_vars => NewestKept'
  <2> SUFFICES ASSUME TypeOK, NewestKept, [Next]_vars,
                      policy.smart_last, policy' = policy,
                      NEW s \in taken', \A t \in taken' : t <= s
               PROVE  s \in kept'
    BY DEF NewestKept, Next, Tick, BackupRun, PruneCommand, vars
  <2>1. CASE Tick
    BY <2>1 DEF Tick, NewestKept
  <2>2. CASE BackupRun
    <3> DEFINE listed == kept \cup {now}
    <3>1. listed \in SUBSET Int /\ listed \subseteq taken'
      BY <2>2 DEF BackupRun, TypeOK
    <3>2. s \in listed
      BY <2>2 DEF BackupRun, NewestKept
    <3>3. s \notin Prunable(listed)
      BY <3>1, <3>2, NewestIsProtected
    <3> QED
      BY <2>2, <3>2, <3>3, SparedStays DEF BackupRun
  <2>3. CASE PruneCommand
    <3>1. kept \in SUBSET Int /\ kept \subseteq taken' /\ s \in kept
      BY <2>3 DEF PruneCommand, TypeOK, NewestKept
    <3>2. s \notin Prunable(kept)
      BY <3>1, NewestIsProtected
    <3> QED
      BY <2>3, <3>1, <3>2, SparedStays DEF PruneCommand
  <2>4. CASE UNCHANGED vars
    BY <2>4 DEF vars, NewestKept
  <2> QED
    BY <2>1, <2>2, <2>3, <2>4 DEF Next
<1> QED
  BY <1>1, <1>2, Typing, PTL DEF Spec

(***************************************************************************)
(* With a count and no age rule, the newest count snapshots of the whole   *)
(* history are there: thinning after every run never costs one more.       *)
(***************************************************************************)
THEOREM CountKeeps == Spec => []NewestCountKept
<1> USE HistoryAssumption
<1>1. Init => NewestCountKept
  BY DEF Init, NewestCountKept
<1>2. TypeOK /\ TypeOK' /\ NewestCountKept /\ [Next]_vars => NewestCountKept'
  <2> SUFFICES ASSUME TypeOK, TypeOK', NewestCountKept, [Next]_vars,
                      policy.count > 0, policy.age_days = 0, policy' = policy,
                      NEW s \in taken',
                      Cardinality({t \in taken' : t > s}) < policy.count
               PROVE  s \in kept'
    BY DEF NewestCountKept, Next, Tick, BackupRun, PruneCommand, vars
  <2>a. taken' \in SUBSET Int /\ IsFiniteSet(taken') /\ policy \in RetentionConfig
    <3>1. now' \in Int /\ taken' \in SUBSET (1..now')
      BY DEF TypeOK
    <3>2. IsFiniteSet(1..now')
      BY <3>1, FS_Interval
    <3>3. IsFiniteSet(taken')
      BY <3>1, <3>2, FS_Subset
    <3> QED
      BY <3>1, <3>3 DEF TypeOK
  <2>b. ASSUME NEW sids \in SUBSET taken'
        PROVE  /\ IsFiniteSet(sids)
               /\ Cardinality({t \in sids : t > s}) < policy.count
    <3>1. IsFiniteSet(sids) /\ IsFiniteSet({t \in taken' : t > s})
      BY <2>a, FS_Subset
    <3>2. {t \in sids : t > s} \in SUBSET {t \in taken' : t > s}
      OBVIOUS
    <3>3. /\ Cardinality({t \in sids : t > s}) <= Cardinality({t \in taken' : t > s})
          /\ IsFiniteSet({t \in sids : t > s})
      BY <3>1, <3>2, FS_Subset
    <3>4. /\ Cardinality({t \in sids : t > s}) \in Nat
          /\ Cardinality({t \in taken' : t > s}) \in Nat
          /\ policy.count \in Int
      BY <2>a, <3>1, <3>3, FS_CardinalityType DEF RetentionConfig
    <3> QED
      BY <3>1, <3>3, <3>4
  <2>c. taken \subseteq taken' /\ (s \in taken => s \in kept)
    <3>1. taken \in SUBSET taken'
      BY DEF Next, Tick, BackupRun, PruneCommand, vars
    <3> QED
      BY <2>b, <3>1 DEF NewestCountKept
  <2>1. CASE Tick
    BY <2>1, <2>c DEF Tick
  <2>2. CASE BackupRun
    <3> DEFINE listed == kept \cup {now}
    <3>1. listed \in SUBSET taken' /\ s \in listed
      BY <2>2, <2>c DEF BackupRun, TypeOK
    <3>2. s \notin Prunable(listed)
      BY <2>a, <2>b, <3>1, NewestCountIsSpared
    <3> QED
      BY <2>2, <3>1, <3>2, SparedStays DEF BackupRun
  <2>3. CASE PruneCommand
    <3>1. kept \in SUBSET taken' /\ s \in kept
      BY <2>3, <2>c DEF PruneCommand, TypeOK
    <3>2. s \notin Prunable(kept)
      BY <2>a, <2>b, <3>1, NewestCountIsSpared
    <3> QED
      BY <2>3, <3>1, <3>2, SparedStays DEF PruneCommand
  <2>4. CASE UNCHANGED vars
    BY <2>4, <2>c DEF vars
  <2> QED
    BY <2>1, <2>2, <2>3, <2>4 DEF Next
<1> QED
  BY <1>1, <1>2, Typing, PTL DEF Spec

(***************************************************************************)
(* What a decision about the whole history would spare is still there.     *)
(***************************************************************************)
SparedKept == taken \ Prunable(taken) \subseteq kept

(***************************************************************************)
(* A retention that decides about a list with everything the whole history *)
(* would spare keeps that, and carried out in full leaves exactly that.    *)
(***************************************************************************)
LEMMA RetentionIsExact ==
  ASSUME NEW T \in SUBSET Int, IsFiniteSet(T), NEW L \in SUBSET T,
         policy \in RetentionConfig, now \in Int,
         T \ Prunable(T) \subseteq L, ApplyRetention(L)
  PROVE  /\ T \ Prunable(T) \subseteq kept'
         /\ settled' => kept' = T \ Prunable(T)
<1>1. Prunable(L) = Prunable(T) \cap L
  BY SelectionIsLocal DEF Prunable
<1> QED
  BY <1>1 DEF ApplyRetention

(***************************************************************************)
(* Whenever the policy was last applied in full, and at this time, the     *)
(* place holds exactly what one decision over everything ever taken would  *)
(* keep: thinning after every run, failed deletions and manual prunes      *)
(* included, costs no checkpoint and leaves nothing over.                  *)
(***************************************************************************)
THEOREM ThinningHolds == Spec => []ThinningIsExact
<1> USE HistoryAssumption
<1> DEFINE Inv == SparedKept /\ ThinningIsExact
<1>1. Init => Inv
  <2> SUFFICES ASSUME Init PROVE Inv
    OBVIOUS
  <2>1. taken = {} /\ kept = {}
    BY DEF Init
  <2> QED
    BY <2>1 DEF SparedKept, ThinningIsExact
<1>2. TypeOK /\ TypeOK' /\ Inv /\ [Next]_vars => Inv'
  <2> SUFFICES ASSUME TypeOK, TypeOK', Inv, [Next]_vars PROVE Inv'
    OBVIOUS
  <2>a. taken' \in SUBSET Int /\ IsFiniteSet(taken') /\ policy \in RetentionConfig
    <3>1. now' \in Int /\ taken' \in SUBSET (1..now')
      BY DEF TypeOK
    <3>2. IsFiniteSet(1..now')
      BY <3>1, FS_Interval
    <3>3. IsFiniteSet(taken')
      BY <3>1, <3>2, FS_Subset
    <3> QED
      BY <3>1, <3>3 DEF TypeOK
  <2>b. now \in Int /\ now' \in Int
    BY DEF TypeOK
  <2>1. CASE Tick
    <3>1. taken' = taken /\ kept' = kept /\ policy' = policy /\ settled' = FALSE
      BY <2>1 DEF Tick
    <3>2. now <= now'
      BY <2>1, <2>b DEF Tick
    <3>3. SelectPrunable(Snaps(taken), policy, now)
            \subseteq SelectPrunable(Snaps(taken), policy, now')
      BY <2>a, <2>b, <3>1, <3>2, SelectionGrows
    <3>4. Prunable(taken)' = SelectPrunable(Snaps(taken), policy, now')
      BY <3>1 DEF Prunable, Snaps
    <3> QED
      BY <3>1, <3>3, <3>4 DEF SparedKept, ThinningIsExact, Prunable
  <2>2. CASE BackupRun
    <3> DEFINE listed == kept \cup {now}
    <3>1. /\ taken' = taken \cup {now} /\ UNCHANGED <<now, policy>>
          /\ ApplyRetention(listed)
      BY <2>2 DEF BackupRun
    <3>2. listed \in SUBSET taken'
      BY <3>1 DEF TypeOK
    <3>3. Prunable(taken) \subseteq Prunable(taken')
      <4>1. taken \in SUBSET taken' /\ now <= now
        BY <2>b, <3>1
      <4> QED
        BY <2>a, <2>b, <4>1, SelectionGrows DEF Prunable
    <3>4. taken' \ Prunable(taken') \subseteq listed
      BY <3>1, <3>3 DEF SparedKept
    <3>5. /\ taken' \ Prunable(taken') \subseteq kept'
          /\ settled' => kept' = taken' \ Prunable(taken')
      BY <2>a, <2>b, <3>1, <3>2, <3>4, RetentionIsExact
    <3>6. Prunable(taken)' = Prunable(taken')
      BY <3>1 DEF Prunable, Snaps
    <3> QED
      BY <3>5, <3>6 DEF SparedKept, ThinningIsExact
  <2>3. CASE PruneCommand
    <3>1. UNCHANGED <<now, policy, taken>> /\ ApplyRetention(kept)
      BY <2>3 DEF PruneCommand
    <3>2. kept \in SUBSET taken' /\ taken' \ Prunable(taken') \subseteq kept
      BY <3>1 DEF SparedKept, TypeOK
    <3>3. /\ taken' \ Prunable(taken') \subseteq kept'
          /\ settled' => kept' = taken' \ Prunable(taken')
      BY <2>a, <2>b, <3>1, <3>2, RetentionIsExact
    <3>4. Prunable(taken)' = Prunable(taken')
      BY <3>1 DEF Prunable, Snaps
    <3> QED
      BY <3>3, <3>4 DEF SparedKept, ThinningIsExact
  <2>4. CASE UNCHANGED vars
    BY <2>4 DEF vars, SparedKept, ThinningIsExact, Prunable, Snaps
  <2> QED
    BY <2>1, <2>2, <2>3, <2>4 DEF Next
<1> QED
  BY <1>1, <1>2, Typing, PTL DEF Spec
=============================================================================
