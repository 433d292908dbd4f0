SPECIFICATION Spec
CONSTANTS
    name = name
    s1 = s1
    s2 = s2
    Stems <- MCStems
    Order <- MCOrder
    Scans <- MCScans
    Starts <- MCStarts
CHECK_DEADLOCK FALSE
SYMMETRY EitherScan
INVARIANTS
    TypeOK
    QuietScanSettles
    AppsKeepOrder
PROPERTIES
    NoNeedlessFix
    IdentitiesKept
    IdentitiesApart
