SPECIFICATION Spec
CONSTANTS
  app = app
  db = db
  p1 = p1
  p2 = p2
  Names = {app, db}
  Slugs = {app, db}
  Slug <- SlugIs
  S3 = {s3}
  Local = local
  Plain = plain
  Nobody = nobody
  Procs = {p1, p2}
  Configs <- Grown
  Files = {app, db}
  RecordFile <- OwnFile
  Overlap = FALSE
  MaxTime = 2
  MaxLost = 1
SYMMETRY Symmetry
INVARIANTS
  FailureShows
  StalenessShows
  GoodRunsAreHealthy
