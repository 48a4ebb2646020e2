CONSTANTS
  Nil = Nil
  Dentries <- MCDentries
  Names <- MCNames
  StorageEnabled = FALSE
  OomPoints = {}
  MaxDataVersion = 5
SPECIFICATION Spec
INVARIANT RenameLoopOnlyForCycles
