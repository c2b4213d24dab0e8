SPECIFICATION FairSpec
CONSTANTS
  DayLen = 1
  WeekLen = 7
  MonthLen = 30
  Procs = {p1}
  S3 = {a, b}
  Local = local
  Jobs <- OffsiteJobs
  MaxRuns = 2
  MaxBreaks = 1
  Failures = {FALSE}
  ArchiveLeft = {"torn"}
  ManifestLeft = {}
INVARIANTS
  NewestSurvives
  ListedHasArchive
  DataDirCleared
  SuccessIsComplete
PROPERTIES
  RunsEnd
