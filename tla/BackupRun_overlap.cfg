SPECIFICATION Spec
CONSTANTS
  DayLen = 1
  WeekLen = 7
  MonthLen = 30
  Procs = {p1, p2}
  S3 = {a}
  Local = local
  Jobs <- S3Job
  MaxRuns = 3
  MaxBreaks = 0
  Failures = {FALSE}
  ArchiveLeft = {}
  ManifestLeft = {}
INVARIANTS
  SafeDeletion
  NewestSurvives
  PendingOrOffsite
SYMMETRY Symmetry
