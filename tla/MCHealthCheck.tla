---------------------------- MODULE MCHealthCheck ----------------------------
EXTENDS HealthCheck, TLC

CONSTANTS app, db, p1, p2

Symmetry == Permutations(Procs)

SlugIs    == [n \in Names |-> n]
OwnFile   == [n \in Names |-> n]

JobOf(name, local, keepLocal, maxAge) ==
  [name |-> name, local |-> local, s3 |-> S3, keep_local |-> keepLocal,
   max_age |-> maxAge]

Pair  == {<<JobOf(app, TRUE, TRUE, 0), JobOf(db, TRUE, FALSE, 1)>>}
Alone == {<<JobOf(app, TRUE, FALSE, 0)>>}
Grown == Alone \cup Pair

ASSUME NamesTellApart == TellsApart
=============================================================================
