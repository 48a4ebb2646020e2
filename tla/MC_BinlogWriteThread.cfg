CONSTANTS
  p1 = p1
  p2 = p2
  Nil = Nil
  Producers <- MCProducers
  MaxFields = 2
  MaxRecords = 3
  MaxCrashes = 1

SPECIFICATION Spec

INVARIANTS TypeOK DurableBeforeWake SyncCountsExact SpaceRecoverable
PROPERTIES SessionsComplete

\* the bounded records and crash let behaviours end with every producer idle
CHECK_DEADLOCK FALSE
