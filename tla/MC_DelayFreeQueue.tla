-------------------------- MODULE MC_DelayFreeQueue --------------------------
(* Two dentry slots, one reader, a delay and a reader window of one       *)
(* second within a two-second horizon, five dentry_hold calls, up to two *)
(* holds per update and two allocations per slot.                        *)
EXTENDS DelayFreeQueue, TLC

CONSTANTS d1, d2, r1

MCDentries == {d1, d2}
MCReaders == {r1}

\* the slots are interchangeable
MCSymmetry == Permutations(MCDentries)
=============================================================================
