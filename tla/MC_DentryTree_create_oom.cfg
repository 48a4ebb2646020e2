CONSTANTS
  Nil = Nil
  Dentries <- MCDentries
  Names <- MCNames
  StorageEnabled = FALSE
  OomPoints = {"create_insert"}
  MaxDataVersion = 5
SPECIFICATION Spec
PROPERTY FailedUpdateChangesNothing
