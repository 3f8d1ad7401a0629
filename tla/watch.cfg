CONSTANTS
  d1 = d1
  d2 = d2
  a = a
  b = b
  Dirs = {d1, d2}
  Names = {a, b}
  FirstDir = d1
  NoDir = NoDir
  Explicit <- MCExplicit
  Capacity = 1
  MaxSockets = 2
  MaxReloads = 1
SPECIFICATION FairSpec
INVARIANTS
  TypeOK
  Reflected
PROPERTIES
  Settles
CHECK_DEADLOCK FALSE
