SPECIFICATION Spec
CONSTANTS
  Backends = {db, old, dir}
  Names = {shop, archive, files, env}
  Parts = {p1, p2}
  Buckets = {a, b}
  Jobs <- MCJobs
  Shadows <- MCShadows
  Selections <- MCSelections
  MaxCommands = 2
  MaxFaults = 2
  db = db
  old = old
  dir = dir
  shop = shop
  archive = archive
  files = files
  env = env
  a = a
  b = b
INVARIANTS
  SuccessHoldsEverything
  ChecksComeFirst
  SuccessIsRestored
  RefusedForAReason
SYMMETRY Symmetry
