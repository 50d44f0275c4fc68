---------------------------- MODULE ShoppingTask ----------------------------
(***************************************************************************)
(* One shopping task of the bridge from its list to a chosen option: the   *)
(* buyer approves some rows, the shops nearby are asked one after the      *)
(* other, leading offers are negotiated, and the options are built from    *)
(* the quotes as they then stand.  Payments for the calls are a module of  *)
(* their own (ResearchPayments); here a call is answered or not.           *)
(***************************************************************************)
EXTENDS Options

CONSTANTS
    Plans,         \* the lists the planner may return
    Category,      \* shop or sku -> its category
    Negotiating,   \* the shops that negotiate
    Shelves,       \* shop -> what its shelves may hold: sku -> [stock, price]
    MinPrice,      \* sku -> the minimum price
    RequestedBps,  \* the discount the bridge asks for
    LimitBps,      \* the most a shop gives
    NegotiationFee

Goods == DOMAIN MinPrice

\* The database keeps each price at or above its minimum, and that above zero.
ASSUME TaskAssumption ==
    /\ \A p \in Plans : p \in Seq([sku : Goods, qty : Nat \ {0}, essential : BOOLEAN])
    /\ Negotiating \subseteq Shops /\ DOMAIN Shelves = Shops
    /\ Shops \cup Goods \subseteq DOMAIN Category
    /\ \A k \in Goods : MinPrice[k] \in Nat \ {0}
    /\ \A s \in Shops : \A shelf \in Shelves[s] : \A k \in DOMAIN shelf :
          /\ k \in Goods /\ shelf[k].stock \in Nat
          /\ shelf[k].price \in Nat /\ shelf[k].price >= MinPrice[k]
    /\ RequestedBps \in Nat /\ LimitBps \in Nat /\ NegotiationFee \in Nat

VARIABLES
    status,     \* the task's status
    plan,       \* its list, once approved the approved part of it
    left,       \* the shops still to be asked, or to be negotiated with
    offers,     \* the verified quotes, in the order of discovery
    options,    \* what the buyer may choose from
    selected    \* the option chosen

taskVars == <<status, plan, left, offers, options, selected>>

Statuses == {"planning", "awaiting_list_approval", "discovering", "quoting", "researching",
             "options_ready", "awaiting_approval", "failed"}

TaskInit ==
    /\ status = "planning" /\ plan = <<>>
    /\ left = <<>> /\ offers = <<>>
    /\ options = <<>> /\ selected = {}

-----------------------------------------------------------------------------
PlanReady(p) ==
    /\ status = "planning"
    /\ status' = "awaiting_list_approval" /\ plan' = p
    /\ UNCHANGED <<left, offers, options, selected>>

\* Only the rows the buyer selected go on, in their order; at least one.
ApprovePlan(rows) ==
    /\ status = "awaiting_list_approval"
    /\ rows # {} /\ rows \subseteq DOMAIN plan
    /\ \E row \in [1 .. Cardinality(rows) -> rows] :
          /\ \A m, n \in DOMAIN row : m < n => row[m] < row[n]
          /\ plan' = [n \in DOMAIN row |-> plan[row[n]]]
    /\ status' = "discovering"
    /\ UNCHANGED <<left, offers, options, selected>>

\* The active shops within the radius, nearest first.
ByDistance(order) ==
    \A m, n \in DOMAIN order : m < n =>
        order[m] # order[n] /\ Distance[order[m]] <= Distance[order[n]]

Discover(found) ==
    /\ status = "discovering"
    /\ \E order \in [1 .. Cardinality(found) -> found] : ByDistance(order) /\ left' = order
    /\ status' = "quoting"
    /\ UNCHANGED <<plan, offers, options, selected>>

\* The network or the merchants' service fails.
Fail ==
    /\ status \in {"planning", "discovering", "quoting", "researching"}
    /\ status' = "failed"
    /\ UNCHANGED <<plan, left, offers, options, selected>>

Wanted(s) == {i \in DOMAIN plan : Category[s] = "market" \/ Category[plan[i].sku] = Category[s]}

\* quote-basket: what is on the shelf in the quantity asked for, at list price.
OnShelf(s, shelf) ==
    {i \in Wanted(s) : plan[i].sku \in DOMAIN shelf /\ shelf[plan[i].sku].stock >= plan[i].qty}
BasketQuote(s, shelf) ==
    [i \in OnShelf(s, shelf) |->
        [sku |-> plan[i].sku, qty |-> plan[i].qty, unit |-> shelf[plan[i].sku].price]]

Asking(s) == status = "quoting" /\ left # <<>> /\ s = Head(left)

GatherQuote(s, shelf) ==
    /\ Asking(s) /\ OnShelf(s, shelf) # {}
    /\ offers' = Append(offers, [shop |-> s, lines |-> BasketQuote(s, shelf)])
    /\ left' = Tail(left)
    /\ UNCHANGED <<status, plan, options, selected>>

\* Nothing wanted there, nothing on the shelf, no budget left for the call,
\* an error, or a quote that does not verify.
NoOffer(s) ==
    /\ Asking(s)
    /\ left' = Tail(left)
    /\ UNCHANGED <<status, plan, offers, options, selected>>

EndQuoting ==
    /\ status = "quoting" /\ left = <<>>
    /\ status' = IF offers = <<>> THEN "failed" ELSE "researching"
    /\ left' = [k \in DOMAIN offers |-> offers[k].shop]
    /\ UNCHANGED <<plan, offers, options, selected>>

-----------------------------------------------------------------------------
\* Every line of every offer for a sku.
UnitsFor(sku) ==
    UNION {{offers[k].lines[n].unit : n \in LinesFor(offers[k], sku)} : k \in DOMAIN offers}

LeadsOnSomeSku(k) ==
    \E n \in DOMAIN offers[k].lines :
        \A u \in UnitsFor(offers[k].lines[n].sku) : offers[k].lines[n].unit <= u

\* Half of the ten per cent asked for must be worth more than the fee.
WorthAsking(k) == TotalOf(offers[k].lines) \div 20 > NegotiationFee

Negotiated(lines) ==
    CounterOffer(MinPrice, lines, TotalOf(lines), RequestedBps, LimitBps)

Negotiable(k) ==
    /\ status = "researching" /\ left # <<>> /\ offers[k].shop = Head(left)
    /\ Head(left) \in Negotiating /\ LeadsOnSomeSku(k) /\ WorthAsking(k)

\* Mutant of NegotiateOffer: the new quote takes the place of another one.
NegotiateForFirst(k) ==
    /\ Negotiable(k)
    /\ TotalOf(offers[k].lines) - TotalOf(Negotiated(offers[k].lines)) >= NegotiationFee
    /\ offers' = [offers EXCEPT ![1].lines = Negotiated(offers[k].lines)]
    /\ left' = Tail(left)
    /\ UNCHANGED <<status, plan, options, selected>>

\* The new quote takes the place of the one it supersedes.
NegotiateOffer(k) ==
    /\ Negotiable(k)
    /\ TotalOf(offers[k].lines) - TotalOf(Negotiated(offers[k].lines)) >= NegotiationFee
    /\ offers' = [offers EXCEPT ![k].lines = Negotiated(@)]
    /\ left' = Tail(left)
    /\ UNCHANGED <<status, plan, options, selected>>

\* The offer leads nowhere, the budget is spent, or the shop declines.
KeepOffer ==
    /\ status = "researching" /\ left # <<>>
    /\ left' = Tail(left)
    /\ UNCHANGED <<status, plan, offers, options, selected>>

OptionsReady ==
    /\ status = "researching" /\ left = <<>>
    /\ options' = BuildOptions(plan, offers)
    /\ status' = IF options' = <<>> THEN "failed" ELSE "options_ready"
    /\ UNCHANGED <<plan, left, offers, selected>>

SelectOption(n) ==
    /\ status = "options_ready" /\ n \in DOMAIN options
    /\ selected' = {options[n]}
    /\ status' = "awaiting_approval"
    /\ UNCHANGED <<plan, left, offers, options>>

TaskNext ==
    \/ \E p \in Plans : PlanReady(p)
    \/ \E rows \in SUBSET DOMAIN plan : ApprovePlan(rows)
    \/ \E found \in SUBSET Shops : Discover(found)
    \/ Fail
    \/ \E s \in Shops : NoOffer(s) \/ \E shelf \in Shelves[s] : GatherQuote(s, shelf)
    \/ EndQuoting \/ KeepOffer \/ OptionsReady
    \/ \E k \in DOMAIN offers : NegotiateOffer(k)
    \/ \E n \in DOMAIN options : SelectOption(n)

TaskSpec == TaskInit /\ [][TaskNext]_taskVars
-----------------------------------------------------------------------------
(***************************************************************************)
(* Properties.  They look at the quotes' lines themselves, not through the *)
(* operators the options were built with.                                  *)
(***************************************************************************)
\* The lines a quote may have for the rows D of the list.
QuoteLines(D) == [D -> [sku : Goods, qty : Nat \ {0}, unit : Nat]]
OptionKinds == {"cheapest", "best_quality", "pickup_optimized"}

\* A task and its quotes keep their types (schemas.ts, options.ts:11-20).
TaskTypeOK ==
    /\ status \in Statuses
    /\ plan \in Seq([sku : Goods, qty : Nat \ {0}, essential : BOOLEAN])
    /\ left \in Seq(Shops)
    /\ DOMAIN offers = 1 .. Len(offers)
    /\ \A k \in DOMAIN offers : \E D \in SUBSET DOMAIN plan :
          offers[k] \in [shop : Shops, lines : QuoteLines(D)]
    /\ \A n \in DOMAIN options : options[n].kind \in OptionKinds
    /\ selected \subseteq {options[n] : n \in DOMAIN options}

Serves(line, item) == line.sku = item.sku /\ line.qty >= item.qty
ServingUnits(lines, item) ==
    {lines[n].unit : n \in {m \in DOMAIN lines : Serves(lines[m], item)}}
Servers(i) == {k \in DOMAIN offers : ServingUnits(offers[k].lines, plan[i]) # {}}
Servable == {i \in DOMAIN plan : Servers(i) # {}}

\* The one price an offer has for an item it serves.
PriceAt(lines, i) == (CHOOSE u \in ServingUnits(lines, plan[i]) : TRUE) * plan[i].qty

NoRowTwice == \A i, j \in DOMAIN plan : plan[i].sku = plan[j].sku => i = j

\* Every option offers each row of the approved list that some quote can
\* serve, once, from a shop whose present quote has it in the quantity and at
\* the price the option says; its shops are distinct, essential ones first
\* and then the nearest, and its total is what the rows cost (options.ts:62,
\* 93-96; "the complete list", options.ts:175).  A list with a sku on two
\* rows may lose one of them.
OptionsServeTheList ==
    /\ TaskTypeOK
    /\ \A n \in DOMAIN options :
          LET shops == options[n].shops
              rows == UNION {shops[m].items : m \in DOMAIN shops}
          IN  /\ rows \subseteq Servable /\ (NoRowTwice => rows = Servable)
              /\ \A m, h \in DOMAIN shops : m < h =>
                    /\ shops[m].shop # shops[h].shop
                    /\ shops[m].items \cap shops[h].items = {}
                    /\ shops[h].essential => shops[m].essential
                    /\ shops[m].essential = shops[h].essential =>
                          Distance[shops[m].shop] <= Distance[shops[h].shop]
              /\ \A m \in DOMAIN shops :
                    /\ [shop |-> shops[m].shop, lines |-> shops[m].quote] \in Range(offers)
                    /\ shops[m].items # {}
                    /\ \A i \in shops[m].items : ServingUnits(shops[m].quote, plan[i]) # {}
              /\ options[n].total =
                    SumFunctionOnSet([m \in DOMAIN shops |->
                        SumFunctionOnSet([i \in shops[m].items |-> PriceAt(shops[m].quote, i)],
                                         shops[m].items)], DOMAIN shops)

Assignments == {f \in [Servable -> DOMAIN offers] : \A i \in Servable : f[i] \in Servers(i)}
Cost(f) == SumFunctionOnSet([i \in Servable |-> PriceAt(offers[f[i]].lines, i)], Servable)

\* The cheapest option of a list that has no sku twice costs no more than any
\* way to buy it from the quotes, and its best quality option buys each row
\* from a shop no other supplier of that row surpasses (options.ts:108, 116).
OptionsAreBest ==
    options # <<>> =>
        /\ options[1].kind = "cheapest"
        /\ NoRowTwice => \A f \in Assignments : options[1].total <= Cost(f)
        /\ NoRowTwice => \A n \in DOMAIN options : options[n].kind = "best_quality" =>
              \A m \in DOMAIN options[n].shops : \A i \in options[n].shops[m].items :
                  \A k \in Servers(i) :
                      Quality[offers[k].shop] <= Quality[options[n].shops[m].shop]

LowestUnit(i) ==
    CHOOSE u \in UNION {ServingUnits(offers[k].lines, plan[i]) : k \in Servers(i)} :
        \A k \in Servers(i) : \A v \in ServingUnits(offers[k].lines, plan[i]) : u <= v

\* Negotiating never makes a row dearer nor takes it out of reach, and the
\* quotes stay with their shops (orchestrator.ts:449-464).
NegotiationNeverCosts ==
    [][status = "researching" =>
         /\ Servable' = Servable
         /\ \A k \in DOMAIN offers : offers'[k].shop = offers[k].shop
                                     /\ {l.sku : l \in Range(offers'[k].lines)}
                                          = {l.sku : l \in Range(offers[k].lines)}
         /\ \A i \in Servable : LowestUnit(i)' <= LowestUnit(i)]_taskVars
=============================================================================
