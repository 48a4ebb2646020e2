------------------------- MODULE MC_BinlogWriteThread -------------------------
(* Two producers interleaving their records in one batch, sessions of up  *)
(* to two fields, three records in all and one crash.                     *)
EXTENDS BinlogWriteThread, TLC

CONSTANTS p1, p2

MCProducers == {p1, p2}
=============================================================================
