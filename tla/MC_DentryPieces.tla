--------------------------- MODULE MC_DentryPieces ---------------------------
(***************************************************************************)
(* The instance of MC_DentryTree (four inodes, names "a" and "b") with     *)
(* FDIR_MAX_PATH_COUNT 2, so the deepest dentry overflows it, and a       *)
(* six-byte buffer: "/a/b" and its NUL fill it exactly, "/b/b" does not   *)
(* fit.  pack_children's stack array holds one inode, so a directory with *)
(* both names takes the realloc_array path, and the list array starts at  *)
(* one entry, so listing it takes the doubling loop.                       *)
(***************************************************************************)
EXTENDS DentryQuery

MCDentries == 1..4
MCNames == {"a", "b"}
MCNameLen == [n \in MCNames |-> IF n = "a" THEN 1 ELSE 2]
MCNameRank == [n \in MCNames |-> IF n = "a" THEN 1 ELSE 2]

\* No action reads lastOp or event (with storage off the event is always
\* empty): states that differ only in them have the same successors, so
\* the search keeps one of them.
TreeView == <<tree, dataVersion>>

NS == INSTANCE Namespace WITH ns <- AbsNs, Ids <- Dentries,
                              MaxDepth <- Cardinality(Dentries) - 1

\* The update path implements the namespace of spec 3 and 4.3: every
\* create, hard link, remove, rename and exchange the shard applies, by
\* inode or by full path, with every rollback, is seen by clients as one
\* step of Namespace (a new file in an existing directory, a new path to a
\* non-directory file, the removal of an entry with nothing below it, a
\* subtree moved out of itself over an empty entry of its kind, or two
\* disjoint subtrees swapped), and a failed update as no step at all.
\* This is NS!Spec, written out so that each step computes AbsNs and AbsNs'
\* at most once, and not at all when the tree is unchanged (AbsNs is a
\* function of tree alone, so such a step leaves it unchanged).
NamespaceRefinement ==
  /\ NS!Init
  /\ [][\/ UNCHANGED tree
       \/ LET before == AbsNs
              after == AbsNs'
          IN  after = before \/ NS!Step(before, after)]_AbsNs
=============================================================================
