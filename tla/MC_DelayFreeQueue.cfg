CONSTANTS
  d1 = d1
  d2 = d2
  r1 = r1
  Nil = Nil
  Dentries <- MCDentries
  Readers <- MCReaders
  Delay = 1
  MaxHold = 1
  MaxHolds = 2
  MaxTime = 2
  MaxGen = 2
  OomDelay = TRUE
  MaxLost = 1
  MaxStale = 1
  MaxRecords = 5
SPECIFICATION Spec
SYMMETRY MCSymmetry
INVARIANTS TypeOK RefCountExact ReaderNeverSeesReclaimed ImmediateNeverSkipped
\* the clock, the records and the allocations are bounded, so behaviours end
CHECK_DEADLOCK FALSE
