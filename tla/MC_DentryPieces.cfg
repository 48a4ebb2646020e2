CONSTANTS
  Nil = Nil
  Dentries <- MCDentries
  Names <- MCNames
  StorageEnabled = FALSE
  OomPoints = {"rename_name", "rename_dest_name", "rename_insert"}
  MaxDataVersion = 6
  MaxPathCount = 2
  NameLen <- MCNameLen
  BuffSize = 6
  NameRank <- MCNameRank
  FixedInodes = 1
  ListInitAlloc = 1
SPECIFICATION FullSpec
VIEW TreeView
INVARIANTS TypeOK TreeWellFormed LinkCountsExact LiveDentriesAccounted FullPathExact  PiecesRebuildTree ListingMatchesPieces
PROPERTIES FailedUpdateChangesNothing NamespaceRefinement
