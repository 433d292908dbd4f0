SPECIFICATION Spec
CONSTANTS
  Notes = {n1}
  Scans = {s1, s2}
  NoScan = NoScan
  NoFile = NoFile
  MaxStamp = 3
  MaxFaults = 1
  MaxLoads = 1
  MaxRescans = 2
  MaxEvents = 3
SYMMETRY ScanSymmetry
INVARIANTS
  TypeOK
  OwnWritesIndexed
  OwnWritesSaved
  VerifiedEntriesSeen
  ScanFindsOnce
PROPERTIES
  EntriesStayRight
CHECK_DEADLOCK FALSE
