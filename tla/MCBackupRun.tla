----------------------------- MODULE MCBackupRun -----------------------------
EXTENDS BackupRunInvariant, TLC

Keep(n, days) ==
  [count |-> n, age_days |-> days,
   gfs |-> [daily |-> 0, weekly |-> 0, monthly |-> 0], smart_last |-> TRUE]

JobOf(local, s3, keepLocal, retention) ==
  [local |-> local, s3 |-> s3, keep_local |-> keepLocal, retention |-> retention]

LocalOnly == JobOf(TRUE, {}, TRUE, Keep(1, 0))
Both      == JobOf(TRUE, S3, TRUE, Keep(1, 0))
BothDrop  == JobOf(TRUE, S3, FALSE, Keep(1, 0))
OnlyS3    == JobOf(FALSE, S3, TRUE, Keep(1, 0))
Aging     == JobOf(FALSE, S3, TRUE, Keep(0, 1))

AllShapes   == {LocalOnly, Both, BothDrop, Aging}
OffsiteJobs == {BothDrop, OnlyS3}
S3Job       == {OnlyS3}

Symmetry == Permutations(S3) \cup Permutations(Procs)
=============================================================================
