--------------------------- MODULE MCPgFulfilment ---------------------------
(***************************************************************************)
(* Small instances of PgFulfilment.  Two orders and one call in flight for *)
(* what holds when calls do not overlap; one order and two overlapping     *)
(* calls, the second escrow being a retry or somebody else's, for what     *)
(* holds whatever the interleaving.                                        *)
(***************************************************************************)
EXTENDS PgFulfilment, TLC

\* The slots of the calls are alike: a sound symmetry for safety properties.
CallSymmetry == Permutations(Calls)
=============================================================================
