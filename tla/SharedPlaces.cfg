SPECIFICATION Spec
CONSTANTS
  DayLen = 1
  WeekLen = 7
  MonthLen = 30
  app = app
  db = db
  Names = {app, db}
  Slugs = {app, db}
  Slug <- SlugIs
  left = left
  right = right
  S3 = {left, right}
  Local = local
  Plain = plain
  Nobody = nobody
  Configs <- AnyOf
  MaxTime = 3
  Command = prune
INVARIANTS
  TypeOK
  OneOwner
  OneWriter
  PlansSpareOthers
  ShippedToOwner
  JobKeepsBackup
