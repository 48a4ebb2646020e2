----------------------------- MODULE DentryQuery -----------------------------
(***************************************************************************)
(* The list-dentry query of the data thread: list_dentry (data_thread.c)   *)
(* looks the inode up in the inode index and dentry_list (dentry.c) fills *)
(* the thread's reusable DENTRY_LIST_CACHE array, grown by                 *)
(* check_alloc_dentry_array.  A query changes nothing in the tree; the     *)
(* array is the state it leaves behind.  The array starts zeroed; its     *)
(* count is restarted by the service handler (outside this repository)    *)
(* before each listing.  A listing by full path goes through               *)
(* dentry_list_by_path, outside src/, and is not modelled; fc_malloc does *)
(* not fail here.                                                          *)
(***************************************************************************)
EXTENDS DentrySerializer

CONSTANTS
  ListInitAlloc   \* the first allocation of check_alloc_dentry_array (4 * 1024)

ASSUME ListInitAlloc \in Nat \ {0}

\* FDIRServerDentryArray before the first listing
EmptyListArray == [entries |-> << >>, alloc |-> 0, count |-> 0]

\* mutant: the size is not doubled up to the target
CheckAllocDentryArrayNoGrow(a, target) ==
  IF a.alloc >= target THEN a
  ELSE LET n == IF a.alloc > 0 THEN a.alloc ELSE ListInitAlloc IN
       [a EXCEPT !.alloc = n,
                 !.entries = [i \in 1..n |-> IF i <= a.count THEN a.entries[i] ELSE Unset]]

\* check_alloc_dentry_array: room for target entries; the new size is the
\* old one (or the first allocation) doubled until it fits, and the count
\* entries stored so far are copied
CheckAllocDentryArray(a, target) ==
  IF a.alloc >= target THEN a
  ELSE LET RECURSIVE Grow(_)
           Grow(n) == IF n < target THEN Grow(n * 2) ELSE n
           n == Grow(IF a.alloc > 0 THEN a.alloc ELSE ListInitAlloc)
       IN [a EXCEPT !.alloc = n,
                    !.entries = [i \in 1..n |-> IF i <= a.count THEN a.entries[i] ELSE Unset]]

\* dentry_list: a non-directory is appended at the count, a directory's
\* children are stored from the start in skiplist order; a store past the
\* array lands outside it
DentryList(d, a) ==
  LET isDir == fmt[d] = "dir"
      g == CheckAllocDentryArray(a, IF isDir THEN Cardinality(children[d]) ELSE 1)
      ch == ChildrenInOrder(d)
  IN IF ~isDir
     THEN [g EXCEPT !.entries = [i \in DOMAIN @ |-> IF i = g.count + 1 THEN d ELSE @[i]],
                    !.count = g.count + 1]
     ELSE [g EXCEPT !.entries = [i \in DOMAIN @ |-> IF i <= Len(ch) THEN ch[i] ELSE @[i]],
                    !.count = Len(ch)]

\* list_dentry for a record by inode: inode_index_get_dentry, then dentry_list
ListDentry(i, a) ==
  IF i \notin inodeIndex THEN [res |-> "ENOENT", array |-> a]
  ELSE [res |-> "OK", array |-> DentryList(i, a)]

-----------------------------------------------------------------------------
(* Properties *)

\* A listing agrees with the persisted pieces: list_dentry of any inode of
\* the index, into the array as an earlier listing of any dentry left it
\* (its size kept, its count restarted), returns exactly the inodes the
\* dentry's children piece lists, in that order, and a non-directory
\* returns itself; every entry lies within the array check_alloc_dentry_array
\* sized.
ListingMatchesPieces ==
  \A i \in inodeIndex, e \in Linked \cup {Nil} :
    LET prev == IF e = Nil THEN EmptyListArray ELSE DentryList(e, EmptyListArray)
        l == ListDentry(i, [prev EXCEPT !.count = 0])
        cp == DentrySerializerPack(i, "children").buffer
    IN /\ l.res = "OK"
       /\ l.array.count <= l.array.alloc
       /\ SubSeq(l.array.entries, 1, l.array.count) =
            IF fmt[i] # "dir" THEN << i >>
            ELSE IF cp = Nil THEN << >> ELSE Unpack(cp)[50]
=============================================================================
