--------------------------- MODULE MC_DataThread ---------------------------
(***************************************************************************)
(* Two data threads and four records: enough for a thread to pop a batch  *)
(* of three (whose first two are dispatched before the last reaches the   *)
(* NULL read), and for both threads to be between their load and their   *)
(* CAS at once with replicated versions.                                  *)
(***************************************************************************)
EXTENDS DataThread

CONSTANTS d1, d2

MCThreads == {d1, d2}
=============================================================================
