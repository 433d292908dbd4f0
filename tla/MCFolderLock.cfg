SPECIFICATION FairSpec
CONSTANTS
  p1 = p1
  p2 = p2
  p3 = p3
  p4 = p4
  t1 = t1
  t2 = t2
  Procs <- MCProcs
  TabOf <- MCTabOf
INVARIANTS
  TypeOK
  MutualExclusion
  NoLostWakeup
  QueueOrder
PROPERTIES
  ImplementsPromise
  EveryWaitEnds
CHECK_DEADLOCK TRUE
