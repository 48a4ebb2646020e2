--------------------------- MODULE MC_DentryTree ---------------------------
(***************************************************************************)
(* Model-checking instance of DentryTree: four inodes (a root, a          *)
(* directory and two entries, enough for a hard link to a file in another *)
(* directory and for a rename across three levels), two child names.     *)
(***************************************************************************)
EXTENDS DentryTree

MCDentries == 1..4
MCNames == {"a", "b"}
=============================================================================
