SPECIFICATION FairSpec
CONSTANTS
  t1 = t1
  t2 = t2
  body = body
  trash = trash
  sidecar = sidecar
  manifest = manifest
  Tabs = {t1, t2}
  OldTabs = {t2}
  Paths <- MCPaths
  Rank <- MCRank
  Shapes <- MCShapes
  Ops = {1, 2}
  MaxFails = 1
  MaxCrashes = 1
INVARIANTS
  SkippingReadWhole
PROPERTIES
  RecordsFinish
CHECK_DEADLOCK TRUE
