SPECIFICATION Spec
CONSTANTS
  Objects <- MCObjects
  Kind <- MCKind
  Schema <- MCSchema
  Ref <- MCRef
  On <- MCOn
  Mine <- MCMine
  Dumps <- MCDumps
  MaxDDL = 1
  t = t
  v = v
  e = e
  u = u
  p = p
  k = k
  x = x
  y = y
  z = z
  s = s
  r = r
  w = w
INVARIANTS
  AllOrNothing
  OthersKept
  StrangerSpared
  UpgradeIsUndone
