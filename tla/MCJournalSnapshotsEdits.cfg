SPECIFICATION Spec
CONSTANTS
  MaxOps = 1
  MaxEdits = 2
  MaxFaults = 3
INVARIANTS
  EditsNeverDiscarded
CHECK_DEADLOCK FALSE
