SPECIFICATION Spec
CONSTANTS
  DayLen = 1
  WeekLen = 7
  MonthLen = 30
  Procs = {p1}
  S3 = {a}
  Local = local
  Jobs <- AllShapes
  MaxRuns = 3
  MaxBreaks = 0
  Failures = {FALSE, TRUE}
  ArchiveLeft = {}
  ManifestLeft = {}
INVARIANTS
  SourceKeepsBackup
