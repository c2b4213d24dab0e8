---------------------------- MODULE MCSharedPlaces ----------------------------
EXTENDS SharedPlaces, TLC

CONSTANTS app, db, left, right

SlugIs == [n \in Names |-> n]

Keep(n) ==
  [count |-> n, age_days |-> 0,
   gfs |-> [daily |-> 0, weekly |-> 0, monthly |-> 0], smart_last |-> TRUE]

JobOf(name, local, s3, keepLocal) ==
  [name |-> name, local |-> local, s3 |-> s3, keep_local |-> keepLocal,
   retention |-> Keep(1)]

OffsiteOnly(name, s3) == JobOf(name, FALSE, s3, TRUE)
Dropping(name, s3)    == JobOf(name, TRUE, s3, FALSE)

\* A second job is added behind the first, and taken away again.
Appended == {<<Dropping(app, {left})>>, <<Dropping(app, {left}), OffsiteOnly(db, {left})>>}

\* Each job has a bucket of its own.
Apart == {<<OffsiteOnly(app, {left}), Dropping(db, {right})>>}

AnyOf == Appended \cup Apart

ASSUME HandedOver == NothingTakenOver
=============================================================================
