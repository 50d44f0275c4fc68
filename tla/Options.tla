------------------------------ MODULE Options ------------------------------
(***************************************************************************)
(* The options builder of the bridge: from the approved list and the       *)
(* quotes gathered for it to at most three routes through the shops.       *)
(*                                                                         *)
(* An item of the list is [sku, qty, essential]; an offer, in the order of *)
(* discovery, is [shop, lines] with the lines [sku, qty, unit] of its      *)
(* quote.  An assignment maps items (their places on the list) to offers   *)
(* (theirs).  Names, notes and the average quality shown are left out.     *)
(***************************************************************************)
EXTENDS Pricing, FiniteSets

CONSTANTS
    Shops,
    Distance,   \* shop -> its distance from the buyer
    Quality     \* shop -> its quality score

ASSUME ShopAssumption ==
    IsFiniteSet(Shops) /\ Distance \in [Shops -> Nat] /\ Quality \in [Shops -> Nat]

-----------------------------------------------------------------------------
\* A quote's line for a sku: the first one, should there be several.
LinesFor(offer, sku) == {n \in DOMAIN offer.lines : offer.lines[n].sku = sku}
QuoteLine(offer, sku) ==
    offer.lines[CHOOSE n \in LinesFor(offer, sku) : \A m \in LinesFor(offer, sku) : n <= m]

\* Mutant of Supplies: the quantity of the quote is not looked at.
SuppliesSome(offer, item) == LinesFor(offer, item.sku) # {}

Supplies(offer, item) ==
    /\ LinesFor(offer, item.sku) # {}
    /\ QuoteLine(offer, item.sku).qty >= item.qty

Candidates(offers, item) == {k \in DOMAIN offers : Supplies(offers[k], item)}
Fulfillable(plan, offers) == {i \in DOMAIN plan : Candidates(offers, plan[i]) # {}}

Unit(plan, offers, i, k) == QuoteLine(offers[k], plan[i].sku).unit
DistanceOf(offers, k) == Distance[offers[k].shop]
Distances(offers) == [k \in DOMAIN offers |-> DistanceOf(offers, k)]

\* The lower key comes first, then the lower second key.
Precedes(key, second, a, b) == key[a] < key[b] \/ (key[a] = key[b] /\ second[a] < second[b])

\* The first of S after a stable sort by the two keys.
Foremost(S, key, second) ==
    CHOOSE k \in S : \A j \in S :
        Precedes(key, second, k, j) \/ (~Precedes(key, second, j, k) /\ k <= j)

\* Mutant of CheapestRoute: the nearest shop, then the lower price.
NearestRoute(plan, offers) ==
    [i \in Fulfillable(plan, offers) |->
        Foremost(Candidates(offers, plan[i]), Distances(offers),
                 [k \in Candidates(offers, plan[i]) |-> Unit(plan, offers, i, k)])]

\* Each item from the lowest price, then the nearest shop.
CheapestRoute(plan, offers) ==
    [i \in Fulfillable(plan, offers) |->
        Foremost(Candidates(offers, plan[i]),
                 [k \in Candidates(offers, plan[i]) |-> Unit(plan, offers, i, k)],
                 Distances(offers))]

\* Each item from the shop of the best quality, then the lower price.
QualityRoute(plan, offers) ==
    [i \in Fulfillable(plan, offers) |->
        Foremost(Candidates(offers, plan[i]),
                 [k \in DOMAIN offers |-> -Quality[offers[k].shop]],
                 [k \in Candidates(offers, plan[i]) |-> Unit(plan, offers, i, k)])]

-----------------------------------------------------------------------------
(***************************************************************************)
(* The greedy cover: the shop that serves most of what is left, the        *)
(* nearest of those, until nothing is left.  What is left is kept by sku.  *)
(***************************************************************************)
Covers(plan, offers, left, k) ==
    {i \in Fulfillable(plan, offers) : plan[i].sku \in left /\ Supplies(offers[k], plan[i])}

NextStop(plan, offers, left) ==
    Foremost({k \in DOMAIN offers : Covers(plan, offers, left, k) # {}},
             [k \in DOMAIN offers |-> -Cardinality(Covers(plan, offers, left, k))],
             Distances(offers))

\* What a stop adds to the assignment so far and leaves of the skus.
AfterStop(plan, offers, was) ==
    LET k == NextStop(plan, offers, was.left)
        served == Covers(plan, offers, was.left, k)
    IN  IF was.left = {} THEN was
        ELSE [left |-> was.left \ {plan[i].sku : i \in served},
              route |-> [i \in served \cup DOMAIN was.route |->
                            IF i \in served THEN k ELSE was.route[i]]]

PickupRoute(plan, offers) ==
    LET skus == {plan[i].sku : i \in Fulfillable(plan, offers)}
        after[n \in 0 .. Len(plan)] ==
            IF n = 0 THEN [left |-> skus, route |-> [i \in {} |-> 0]]
            ELSE AfterStop(plan, offers, after[n - 1])
    IN  after[Len(plan)].route

-----------------------------------------------------------------------------
StopsOf(route) == Range(route)

Stop(plan, offers, route, k) ==
    LET items == {i \in DOMAIN route : route[i] = k}
    IN  [shop |-> offers[k].shop, items |-> items, quote |-> offers[k].lines,
         subtotal |-> SumFunctionOnSet(
            [i \in items |-> Unit(plan, offers, i, k) * plan[i].qty], items),
         essential |-> \E i \in items : plan[i].essential]

\* Essential shops first, then the nearest; the order of equals is left open.
SortedStops(plan, offers, route) ==
    LET late == [k \in StopsOf(route) |->
                    IF Stop(plan, offers, route, k).essential THEN 0 ELSE 1]
    IN  CHOOSE order \in [1 .. Cardinality(StopsOf(route)) -> StopsOf(route)] :
            \A m, n \in DOMAIN order : m < n =>
                order[m] # order[n] /\ ~Precedes(late, Distances(offers), order[n], order[m])

Option(kind, plan, offers, route) ==
    LET order == SortedStops(plan, offers, route)
        shops == [n \in DOMAIN order |-> Stop(plan, offers, route, order[n])]
    IN  [kind |-> kind, shops |-> shops,
         total |-> SumFunctionOnSet([n \in DOMAIN shops |-> shops[n].subtotal], DOMAIN shops)]

\* The cheapest option, and the other two where they differ.
BuildOptions(plan, offers) ==
    IF Fulfillable(plan, offers) = {} THEN <<>>
    ELSE LET cheap == CheapestRoute(plan, offers)
             good == QualityRoute(plan, offers)
             near == PickupRoute(plan, offers)
             cheapest == Option("cheapest", plan, offers, cheap)
             best == Option("best_quality", plan, offers, good)
         IN  <<cheapest>>
             \o (IF StopsOf(good) # StopsOf(cheap) \/ best.total # cheapest.total
                 THEN <<best>> ELSE <<>>)
             \o (IF StopsOf(near) \notin {StopsOf(cheap), StopsOf(good)}
                 THEN <<Option("pickup_optimized", plan, offers, near)>> ELSE <<>>)
=============================================================================
