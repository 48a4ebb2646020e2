------------------------- MODULE MC_PushResultRing -------------------------
(***************************************************************************)
(* A ring of three slots (two usable) for three versions, so that versions  *)
(* wrap around the ring, a full ring and out-of-order arrivals spill into  *)
(* the queue; two tasks, each reusable once; a timeout of one second    *)
(* within a three-second horizon, so that entries expire while others are    *)
(* still outstanding.                                                      *)
(***************************************************************************)
EXTENDS PushResultRing

CONSTANTS t1, t2

MCTasks == {t1, t2}
=============================================================================
