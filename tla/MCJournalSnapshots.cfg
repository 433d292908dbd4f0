SPECIFICATION Spec
CONSTANTS
  MaxOps = 3
  MaxEdits = 2
  MaxFaults = 3
INVARIANTS
  TypeOK
  FirstEditKept
  ListedVersionsExist
  CounterCoversHistory
  OneSnapshotPerEdit
PROPERTIES
  VersionsKept
CHECK_DEADLOCK FALSE
