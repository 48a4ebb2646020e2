CONSTANTS
  t1 = t1
  t2 = t2
  Nil = Nil
  Tasks <- MCTasks
  Size = 3
  Versions = {1, 2, 3}
  Timeout = 1
  MaxTime = 3
  MaxTaskVersion = 1
SPECIFICATION Spec
INVARIANTS TypeOK RingWellFormed CountsBalance
PROPERTIES TrackerRefinement WaitingTaskResumes
CHECK_DEADLOCK FALSE
