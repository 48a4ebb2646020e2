CONSTANTS
  d1 = d1
  d2 = d2
  Threads <- MCThreads
  Sources = {"replica"}
  SubmitKinds = {"update"}
  Loose = TRUE
  StorageEnabled = TRUE
  MaxRecords = 4
SPECIFICATION Spec
INVARIANT CounterCoversApplied
\* the process stops at the first NULL read, and submissions are bounded
CHECK_DEADLOCK FALSE
