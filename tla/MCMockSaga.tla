----------------------------- MODULE MCMockSaga -----------------------------
(***************************************************************************)
(* A small instance of MockSaga: funding the essential first shop reverts, *)
(* a third merchant can stand in for it, and the wallet pays for two.      *)
(***************************************************************************)
EXTENDS MockSaga

CONSTANTS m1, m2, m3

TwoShops == <<m1, m2>>
ThirdStandsIn == <<{m1, m3}, {m2}>>
OneUnitEach == [m \in Merchants |-> 1]
=============================================================================
