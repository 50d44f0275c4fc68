----------------------------- MODULE MCPgStock -----------------------------
(***************************************************************************)
(* Small instances of PgStock: an order for two skus, an order for one of  *)
(* them, and two reservations.                                             *)
(***************************************************************************)
EXTENDS PgStock, TLC

CONSTANTS a, b, t1, t2

TwoEach == [s \in Skus |-> 2]
TwoBaskets == <<<<[sku |-> a, qty |-> 1], [sku |-> b, qty |-> 2]>>,
                <<[sku |-> b, qty |-> 1]>>>>
TxSymmetry == Permutations(Tx)
=============================================================================
