CONSTANTS
  d1 = d1
  d2 = d2
  Threads <- MCThreads
  Sources = {"service"}
  SubmitKinds = {"update", "query"}
  Loose = TRUE
  StorageEnabled = TRUE
  MaxRecords = 4
SPECIFICATION Spec
PROPERTY RecordsEventuallyHandled
\* the process stops at the first NULL read, and submissions are bounded
CHECK_DEADLOCK FALSE
