-------------------------- MODULE MCAcceptanceSaga --------------------------
(***************************************************************************)
(* Instances of AcceptanceSaga: an essential basket "meal" and an optional *)
(* basket "cake"; the deli quotes the meal, the cafe both, the bakery cake. *)
(***************************************************************************)
EXTENDS AcceptanceSaga, TLC

CONSTANTS deli, cafe, bakery, meal, cake

MCPreference == <<deli, cafe, bakery>>

MCOptionShops == <<[merchant |-> deli, need |-> meal],
                   [merchant |-> cafe, need |-> cake]>>

MCCovers == (deli :> {meal}) @@ (cafe :> {meal, cake}) @@ (bakery :> {cake})

\* The deli has run out of the meal it quoted.
MCStock == [key \in {deli, cafe, bakery} \X {meal, cake} |->
              IF key = <<deli, meal>> THEN 0 ELSE 1]

\* Without the bakery: the meal goes back and forth between two merchants.
MCPreferencePair == <<deli, cafe>>

MCCoversPair == (deli :> {meal}) @@ (cafe :> {meal, cake})

MCStockPair == [key \in {deli, cafe} \X {meal, cake} |-> 1]

\* One shop only: its replacements bring the later orders.
MCOneShop == <<[merchant |-> deli, need |-> meal]>>

\* The slots for requests are interchangeable (safety runs only).
Symmetry == Permutations(Calls)

=============================================================================
