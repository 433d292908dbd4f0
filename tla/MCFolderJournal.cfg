SPECIFICATION Spec
CONSTANTS
  t1 = t1
  t2 = t2
  body = body
  trash = trash
  sidecar = sidecar
  manifest = manifest
  Tabs = {t1, t2}
  OldTabs = {}
  Paths <- MCPaths
  Rank <- MCRank
  Shapes <- MCShapes
  Ops = {1, 2, 3}
  MaxFails = 1
  MaxCrashes = 1
INVARIANTS
  TypeOK
  PendingDisjoint
  FirstReadWhole
  MetRecordsWhole
PROPERTIES
  ImplementsAtomicFolder
CHECK_DEADLOCK TRUE
