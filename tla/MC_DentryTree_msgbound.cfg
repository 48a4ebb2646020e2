CONSTANTS
  Nil = Nil
  Dentries <- MCDentries
  Names <- MCNames
  StorageEnabled = TRUE
  OomPoints = {}
  MaxDataVersion = 5
SPECIFICATION Spec
INVARIANT MessageBound
