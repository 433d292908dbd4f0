SPECIFICATION Spec
CONSTANTS
    t1 = t1
    t2 = t2
    d1 = d1
    d2 = d2
    i1 = i1
    i2 = i2
    i3 = i3
    Tabs <- MCTabs
    Dirs <- MCDirs
    Ids <- MCIds
    Manifests <- Mixed
    NoDir = NoDir
    NoId = NoId
    Slots = {1, 2}
    MaxCommands = 2
CHECK_DEADLOCK FALSE
SYMMETRY TabsAndDirs
INVARIANTS
    TypeOK
    OneFolderBehindTab
    StayingWritersExclude
