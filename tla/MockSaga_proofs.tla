-------------------------- MODULE MockSaga_proofs --------------------------
(***************************************************************************)
(* Proofs about MockSaga, for any plan, merchants, stock and balance, any  *)
(* number of orders and any number of lost messages and crashes.           *)
(***************************************************************************)
EXTENDS MockSaga, SequenceTheorems, SumTheorems

BookStates ==
    {"none", "paid_in_escrow", "preparing", "ready", "completed", "refunded"}

EscrowStates == Spent \cup {"None", "Refunded"}

OrderStates ==
    {"none", "awaiting_funding", "paid_in_escrow", "preparing", "ready", "completed",
     "refunded", "cancelled"}

Stages ==
    {"idle", "listed", "confirm", "preparing", "ready", "completed", "refunded",
     "tell_preparing", "tell_ready", "tell_completed", "tell_refunded"}

Places == {"idle", "order", "fund", "report", "undo", "failed", "count"}

Sagas == [at : Places, shop : Shops, merchant : Merchants, alt : BOOLEAN, order : Nat]

Rows == [state : OrderStates, shop : Shops, merchant : Merchants]

Receipts ==
    [completed : SUBSET OrderIds, refunded : SUBSET OrderIds, dropped : SUBSET Shops]

\* Types, in full.
Typed ==
    /\ status \in {"awaiting_approval", "funding", "in_progress", "failed",
                   "cancelled", "settled"}
    /\ saga \in Sagas
    /\ dropped \in SUBSET Shops
    /\ books \in [OrderIds -> BookStates]
    /\ receipts \in Seq(Receipts)
    /\ escrow \in [OrderIds -> EscrowStates]
    /\ balance \in Nat
    /\ orders \in [OrderIds -> Rows]
    /\ stock \in [Merchants -> Nat]
    /\ timers \in SUBSET OrderIds
    /\ runs \in [Jobs \X OrderIds -> Stages]
    /\ releasing \in SUBSET OrderIds
    /\ saga.at \in {"fund", "report", "undo"} => saga.order \in OrderIds

\* What the books, the order and every job under way show of an order's escrow.
Evidence(o) ==
    /\ books[o] = "none" <=> escrow[o] = "None"
    /\ "completed" \in {books[o], orders[o].state} => escrow[o] = "Released"
    /\ "refunded" \in {books[o], orders[o].state} => escrow[o] = "Refunded"
    /\ orders[o].state = "none" => escrow[o] = "None"
    /\ orders[o].state \in {"paid_in_escrow", "preparing", "ready"} => escrow[o] # "None"
    /\ o \in releasing => escrow[o] = "Released"
    /\ \A j \in Jobs :
          /\ Stage(j, o) \in {"completed", "tell_completed"} => escrow[o] = "Released"
          /\ Stage(j, o) \in {"refunded", "tell_refunded"} => escrow[o] = "Refunded"

\* What the saga knows of the order it is funding.
SagaKnows ==
    /\ saga.at \in {"fund", "report"} => orders[saga.order].shop = saga.shop
    /\ saga.at = "fund" =>
          orders[saga.order].state = "awaiting_funding" /\ escrow[saga.order] = "None"
    /\ saga.at = "report" => escrow[saga.order] # "None"

\* A task goes through its saga once, and its receipt closes it for good.
OneWay ==
    /\ saga.at # "idle" => status \in {"funding", "cancelled"}
    /\ receipts # <<>> => saga.at = "idle" /\ status \in {"settled", "cancelled"}

\* Shop s was dropped or paid for.
Handled(s) ==
    s \in dropped \/ \E o \in OrderIds : escrow[o] # "None" /\ orders[o].shop = s

\* The saga leaves no shop behind it unhandled.
NoneSkipped ==
    /\ Essential \cap dropped = {}
    /\ saga.at \notin {"idle", "count"} => \A s \in Shops : s < saga.shop => Handled(s)
    /\ saga.at = "count" \/ status = "in_progress" => \A s \in Shops : Handled(s)

\* The money in escrow or paid out.
Away == {o \in OrderIds : escrow[o] \in Spent}

MoneyAddsUp == balance = Balance - Cardinality(Away)

\* The units of merchant m that orders have taken.
Taken(m) ==
    {o \in OrderIds : orders[o].merchant = m /\ orders[o].state \notin {"none", "cancelled"}}

StockAddsUp == \A m \in Merchants : stock[m] = Stock[m] - Cardinality(Taken(m))

-----------------------------------------------------------------------------
(* Constants and helpers *)

LEMMA PlanFacts ==
  /\ Len(Plan) \in Nat /\ 1 \in Shops /\ Len(Plan) \in Shops
  /\ \A s \in Shops : Plan[s] \in Merchants
  /\ \A s \in Shops : s # Len(Plan) => s + 1 \in Shops
  /\ \A s \in Shops : s \in Nat /\ s <= Len(Plan)
<1>1. Plan \in Seq(Merchants) /\ Len(Plan) \in Nat /\ Len(Plan) # 0
  BY MockAssumption, EmptySeq, LenProperties
<1>2. \A s \in 1 .. Len(Plan) : Plan[s] \in Merchants
  BY <1>1, ElementOfSeq
<1> QED
  BY <1>1, <1>2 DEF Shops

LEMMA IdFacts ==
  /\ MaxOrders \in Nat /\ IsFiniteSet(OrderIds) /\ OrderIds \subseteq Nat
  /\ \A S \in SUBSET OrderIds : IsFiniteSet(S) /\ Cardinality(S) \in Nat
<1>1. MaxOrders \in Nat
  BY MockAssumption
<1>2. IsFiniteSet(OrderIds) /\ OrderIds \subseteq Nat
  BY <1>1, FS_Interval DEF OrderIds
<1>3. \A S \in SUBSET OrderIds : IsFiniteSet(S) /\ Cardinality(S) \in Nat
  BY <1>2, FS_Subset, FS_CardinalityType
<1> QED
  BY <1>1, <1>2, <1>3

LEMMA NoSagaIsSaga == NoSaga \in Sagas /\ NoSaga.at = "idle" /\ NoSaga.shop = 1
BY PlanFacts DEF NoSaga, Sagas, Places, NoOrder

LEMMA SagaFacts ==
  ASSUME Typed
  PROVE  /\ saga \in Sagas /\ saga.at \in Places /\ saga.shop \in Shops
         /\ saga.merchant \in Merchants /\ saga.alt \in BOOLEAN /\ saga.order \in Nat
BY DEF Typed, Sagas

LEMMA GoesOn ==
  ASSUME Typed, NEW place \in Places, Goes(place)
  PROVE  /\ saga' \in Sagas /\ saga'.at = place /\ saga'.shop = saga.shop
         /\ saga'.order = saga.order
BY SagaFacts DEF Goes, Sagas

LEMMA GoesToNext ==
  ASSUME Typed, NextShop
  PROVE  /\ saga' \in Sagas
         /\ \/ saga.shop = Len(Plan) /\ saga'.at = "count"
            \/ saga.shop # Len(Plan) /\ saga'.at = "order" /\ saga'.shop = saga.shop + 1
<1>1. CASE saga.shop = Len(Plan)
  BY <1>1, SagaFacts DEF NextShop, Sagas, Places
<1>2. CASE saga.shop # Len(Plan)
  <2>1. saga.shop + 1 \in Shops /\ Plan[saga.shop + 1] \in Merchants
    BY <1>2, SagaFacts, PlanFacts
  <2>2. saga' = [NoSaga EXCEPT !.at = "order", !.shop = saga.shop + 1,
                               !.merchant = Plan[saga.shop + 1]]
    BY <1>2 DEF NextShop
  <2> QED
    BY <1>2, <2>1, <2>2, NoSagaIsSaga DEF Sagas, Places
<1> QED
  BY <1>1, <1>2

LEMMA TriesAnother ==
  ASSUME Typed, NEW m \in Merchants, Tries(m, TRUE)
  PROVE  saga' \in Sagas /\ saga'.at = "order" /\ saga'.shop = saga.shop
BY SagaFacts DEF Tries, Sagas, Places, NoOrder

\* POST /order takes an order id nobody has.
LEMMA FreshIsFree ==
  ASSUME \E o \in OrderIds : orders[o].state = "none"
  PROVE  FreshOrder \in OrderIds /\ orders[FreshOrder].state = "none"
<1> DEFINE S == {o \in OrderIds : orders[o].state = "none"}
<1>1. S \in SUBSET Nat /\ S # {}
  BY IdFacts
<1> HIDE DEF S
<1>2. \E o \in S : \A p \in S : o <= p
  BY <1>1, LeastNumber
<1>3. \E o \in OrderIds : orders[o].state = "none"
                        /\ \A p \in OrderIds : orders[p].state = "none" => o <= p
  BY <1>2 DEF S
<1> QED
  BY <1>3 DEF FreshOrder

LEMMA Created ==
  ASSUME Typed, NEW m \in Merchants, CreateOrder(m)
  PROVE  /\ FreshOrder \in OrderIds /\ orders[FreshOrder].state = "none"
         /\ orders' \in [OrderIds -> Rows]
         /\ orders'[FreshOrder].state = "awaiting_funding"
         /\ orders'[FreshOrder].shop = saga.shop
         /\ orders'[FreshOrder].merchant = m
         /\ \A o \in OrderIds : o # FreshOrder => orders'[o] = orders[o]
         /\ stock' \in [Merchants -> Nat] /\ stock'[m] = stock[m] - 1
         /\ \A n \in Merchants : n # m => stock'[n] = stock[n]
         /\ UNCHANGED <<timers, runs>>
<1> DEFINE row == [state |-> "awaiting_funding", shop |-> saga.shop, merchant |-> m]
<1>1. FreshOrder \in OrderIds /\ orders[FreshOrder].state = "none"
  BY FreshIsFree DEF CreateOrder
<1>2. row \in Rows
  BY SagaFacts DEF Rows, OrderStates
<1>3. orders' = [orders EXCEPT ![FreshOrder] = row] /\ orders \in [OrderIds -> Rows]
  BY DEF CreateOrder, Typed
<1>4. /\ row.state = "awaiting_funding" /\ row.shop = saga.shop /\ row.merchant = m
  OBVIOUS
<1> HIDE DEF row
<1>5. /\ orders' \in [OrderIds -> Rows] /\ orders'[FreshOrder] = row
      /\ \A o \in OrderIds : o # FreshOrder => orders'[o] = orders[o]
  BY <1>1, <1>2, <1>3
<1>6. /\ stock' = [stock EXCEPT ![m] = @ - 1] /\ stock[m] > 0
      /\ stock \in [Merchants -> Nat] /\ UNCHANGED <<timers, runs>>
  BY DEF CreateOrder, Typed
<1>7. /\ stock' \in [Merchants -> Nat] /\ stock'[m] = stock[m] - 1
      /\ \A n \in Merchants : n # m => stock'[n] = stock[n]
  <2>1. stock[m] - 1 \in Nat
    BY <1>6
  <2> QED
    BY <1>6, <2>1
<1> QED
  BY <1>1, <1>4, <1>5, <1>6, <1>7

\* An order gets a new state and keeps its shop and its merchant.
LEMMA StateSet ==
  ASSUME Typed, NEW o \in OrderIds, NEW state \in OrderStates,
         orders' = [orders EXCEPT ![o].state = state]
  PROVE  /\ orders' \in [OrderIds -> Rows] /\ orders'[o].state = state
         /\ \A p \in OrderIds : /\ p # o => orders'[p] = orders[p]
                                /\ orders'[p].shop = orders[p].shop
                                /\ orders'[p].merchant = orders[p].merchant
<1>1. orders \in [OrderIds -> Rows]
  BY DEF Typed
<1> QED
  BY <1>1 DEF Rows

LEMMA EscrowMoved ==
  ASSUME Typed, NEW o \in OrderIds, NEW to \in EscrowStates, Moves(o, to)
  PROVE  /\ escrow' \in [OrderIds -> EscrowStates] /\ escrow'[o] = to
         /\ \A p \in OrderIds : p # o => escrow'[p] = escrow[p]
BY DEF Moves, Typed

LEMMA Refunds ==
  ASSUME Typed, NEW S \in SUBSET OrderIds, RefundAll(S)
  PROVE  /\ escrow' \in [OrderIds -> EscrowStates]
         /\ \A o \in OrderIds : escrow'[o] = IF o \in S THEN "Refunded" ELSE escrow[o]
         /\ balance' \in Nat
<1>1. Cardinality(S) \in Nat /\ balance \in Nat
  BY IdFacts DEF Typed
<1> QED
  BY <1>1 DEF RefundAll, Typed, EscrowStates

LEMMA JobDoes ==
  ASSUME Typed, NEW j \in Jobs, NEW o \in OrderIds, NEW stage \in Stages, Does(j, o, stage)
  PROVE  /\ runs' \in [Jobs \X OrderIds -> Stages] /\ runs'[<<j, o>>] = stage
         /\ \A i \in Jobs, p \in OrderIds :
               <<i, p>> # <<j, o>> => runs'[<<i, p>>] = runs[<<i, p>>]
<1>1. runs \in [Jobs \X OrderIds -> Stages] /\ <<j, o>> \in Jobs \X OrderIds
  BY DEF Typed
<1> QED
  BY <1>1 DEF Does

LEMMA JobLeaves ==
  ASSUME Typed, NEW j \in Jobs, NEW o \in OrderIds, NEW stage \in Stages, Does(j, o, stage),
         NEW i \in Jobs, NEW p \in OrderIds
  PROVE  runs'[<<i, p>>] = runs[<<i, p>>] \/ (p = o /\ runs'[<<i, p>>] = stage)
<1>1. CASE i = j /\ p = o
  BY <1>1, JobDoes
<1>2. CASE ~(i = j /\ p = o)
  <2>1. <<i, p>> # <<j, o>>
    BY <1>2
  <2> QED
    BY <2>1, JobDoes
<1> QED
  BY <1>1, <1>2

\* The webhook that tells a merchant of the funding.
LEMMA LearnedFunded ==
  ASSUME Typed, NEW o \in OrderIds, LearnFunded(o)
  PROVE  /\ orders' \in [OrderIds -> Rows] /\ timers' \in SUBSET OrderIds
         /\ \A p \in OrderIds : /\ p # o => orders'[p] = orders[p]
                                /\ orders'[p].shop = orders[p].shop
                                /\ orders'[p].merchant = orders[p].merchant
         /\ orders'[o].state = IF orders[o].state = "awaiting_funding"
                               THEN "paid_in_escrow" ELSE orders[o].state
         /\ UNCHANGED <<stock, runs>>
<1>1. CASE orders[o].state = "awaiting_funding"
  <2>1. /\ orders' = [orders EXCEPT ![o].state = "paid_in_escrow"]
        /\ timers' \in SUBSET OrderIds /\ UNCHANGED <<stock, runs>>
    BY <1>1 DEF LearnFunded, Typed
  <2> QED
    BY <1>1, <2>1, StateSet DEF OrderStates
<1>2. CASE orders[o].state # "awaiting_funding"
  BY <1>2 DEF LearnFunded, Typed, merchant
<1> QED
  BY <1>1, <1>2

\* The call that takes an order back.
LEMMA OrderCancelled ==
  ASSUME Typed, NEW o \in OrderIds, CancelOrder(o)
  PROVE  /\ orders' \in [OrderIds -> Rows] /\ stock' \in [Merchants -> Nat]
         /\ \A p \in OrderIds : /\ p # o => orders'[p] = orders[p]
                                /\ orders'[p].shop = orders[p].shop
                                /\ orders'[p].merchant = orders[p].merchant
         /\ UNCHANGED <<timers, runs>>
         /\ \/ /\ orders[o].state = "awaiting_funding" /\ orders'[o].state = "cancelled"
               /\ stock' = [stock EXCEPT ![orders[o].merchant] = @ + 1]
            \/ orders[o].state # "awaiting_funding" /\ UNCHANGED <<orders, stock>>
<1>1. CASE orders[o].state = "awaiting_funding"
  <2>1. /\ orders' = [orders EXCEPT ![o].state = "cancelled"]
        /\ stock' = [stock EXCEPT ![orders[o].merchant] = @ + 1]
        /\ UNCHANGED <<timers, runs>>
    BY <1>1 DEF CancelOrder
  <2>2. orders[o].merchant \in Merchants
    BY DEF Typed, Rows
  <2>3. stock' \in [Merchants -> Nat]
    BY <2>1, <2>2 DEF Typed
  <2> QED
    BY <1>1, <2>1, <2>3, StateSet DEF OrderStates
<1>2. CASE orders[o].state # "awaiting_funding"
  BY <1>2 DEF CancelOrder, Typed, merchant
<1> QED
  BY <1>1, <1>2

-----------------------------------------------------------------------------
(* Types *)

LEMMA InitTyped == Init => Typed
<1> SUFFICES ASSUME Init PROVE Typed
  OBVIOUS
<1>1. NoRow \in Rows
  BY PlanFacts DEF NoRow, Rows, OrderStates
<1>2. <<>> \in Seq(Receipts)
  BY EmptySeq
<1> QED
  BY <1>1, <1>2, NoSagaIsSaga, MockAssumption
     DEF Init, Typed, BookStates, EscrowStates, Stages

LEMMA FinalizeTyped ==
  ASSUME Typed, NEW b, NEW st \in {"awaiting_approval", "funding", "in_progress", "failed",
                                  "cancelled", "settled"}, MaybeFinalize(st, b)
  PROVE  /\ status' \in {"awaiting_approval", "funding", "in_progress", "failed",
                         "cancelled", "settled"}
         /\ receipts' \in Seq(Receipts)
<1>1. ReceiptOf(b) \in Receipts
  BY DEF ReceiptOf, Receipts, Typed
<1>2. receipts \in Seq(Receipts)
  BY DEF Typed
<1>3. Append(receipts, ReceiptOf(b)) \in Seq(Receipts)
  BY <1>1, <1>2, AppendProperties
<1> QED
  BY <1>2, <1>3, Zenon DEF MaybeFinalize

LEMMA CancelTyped ==
  ASSUME Typed, Cancel
  PROVE  /\ status' = "cancelled" /\ balance' \in Nat
         /\ escrow' \in [OrderIds -> EscrowStates] /\ books' \in [OrderIds -> BookStates]
<1> DEFINE S == {o \in OrderIds : books[o] \in {"paid_in_escrow", "preparing", "ready"}
                                  /\ MayRefund(o)}
<1>1. RefundAll(S) /\ S \in SUBSET OrderIds /\ status' = "cancelled"
      /\ books' = [o \in OrderIds |-> IF o \in S THEN "refunded" ELSE books[o]]
  BY DEF Cancel
<1> HIDE DEF S
<1> QED
  BY <1>1, Refunds DEF Typed, BookStates

LEMMA SagaTyped == Typed /\ (Saga \/ ApprovePayment) => Typed'
<1> SUFFICES ASSUME Typed, Saga \/ ApprovePayment PROVE Typed'
  OBVIOUS
<1>1. CASE ApprovePayment
  <2>1. saga' \in Sagas /\ saga'.at = "order"
    BY <1>1, NoSagaIsSaga DEF ApprovePayment, Sagas, Places
  <2> QED
    BY <1>1, <2>1 DEF ApprovePayment, Typed, chain, merchant
<1>2. CASE PlaceOrder
  <2>1. CASE Goes("failed") /\ UNCHANGED merchant
    BY <1>2, <2>1, GoesOn DEF PlaceOrder, Typed, chain, merchant, Places
  <2>2. CASE /\ CreateOrder(saga.merchant)
             /\ saga' = [saga EXCEPT !.at = "fund", !.order = FreshOrder]
    <3>1. FreshOrder \in Nat /\ FreshOrder \in OrderIds /\ orders' \in [OrderIds -> Rows] /\ stock' \in [Merchants -> Nat]
          /\ UNCHANGED <<timers, runs>>
      BY <2>2, SagaFacts, Created, IdFacts
    <3>2. saga' \in Sagas /\ saga'.order \in OrderIds
      BY <2>2, <3>1, SagaFacts DEF Sagas, Places
    <3> QED
      BY <1>2, <3>1, <3>2 DEF PlaceOrder, Typed, chain
  <2> QED
    BY <1>2, <2>1, <2>2 DEF PlaceOrder
<1>3. CASE FundShop
  <2>1. saga' \in Sagas /\ saga'.order \in OrderIds
    BY <1>3, GoesOn DEF FundShop, Places, Typed
  <2>2. balance' \in Nat /\ escrow' \in [OrderIds -> EscrowStates]
        /\ books' \in [OrderIds -> BookStates]
    <3>1. CASE saga.merchant \in FailSlugs \/ balance = 0
      BY <1>3, <3>1 DEF FundShop, Typed, chain
    <3>2. CASE ~(saga.merchant \in FailSlugs \/ balance = 0)
      <4>1. /\ balance' = balance - 1 /\ Moves(saga.order, "Funded")
            /\ books' = [books EXCEPT ![saga.order] = "paid_in_escrow"]
            /\ saga.order \in OrderIds /\ balance # 0 /\ balance \in Nat
        BY <1>3, <3>2 DEF FundShop, Typed
      <4>2. balance' \in Nat
        BY <4>1
      <4>3. escrow' \in [OrderIds -> EscrowStates]
        BY <4>1, EscrowMoved DEF EscrowStates, Spent
      <4>4. books' \in [OrderIds -> BookStates]
        BY <4>1 DEF Typed, BookStates
      <4> QED
        BY <4>2, <4>3, <4>4
    <3> QED
      BY <3>1, <3>2
  <2> QED
    BY <1>3, <2>1, <2>2 DEF FundShop, Typed, merchant
<1>4. CASE ReportFunded
  <2>1. /\ LearnFunded(saga.order) /\ saga.order \in OrderIds
        /\ saga' \in Sagas /\ saga'.at \in {"count", "order"}
    BY <1>4, GoesToNext DEF ReportFunded, Typed
  <2>2. orders' \in [OrderIds -> Rows] /\ timers' \in SUBSET OrderIds /\ UNCHANGED <<stock, runs>>
    BY <2>1, LearnedFunded
  <2> QED
    BY <1>4, <2>1, <2>2 DEF ReportFunded, Typed, chain
<1>5. CASE UndoOrder
  <2>1. saga' \in Sagas /\ saga'.at = "failed"
    BY <1>5, GoesOn DEF UndoOrder, Places
  <2>2. orders' \in [OrderIds -> Rows] /\ stock' \in [Merchants -> Nat]
        /\ UNCHANGED <<timers, runs>>
    BY <1>5, OrderCancelled DEF UndoOrder, Typed
  <2> QED
    BY <1>5, <2>1, <2>2 DEF UndoOrder, Typed, chain
<1>6. CASE TryAlternative
  <2>1. saga' \in Sagas /\ saga'.at = "order"
    <3>1. PICK m \in Covers[saga.shop] \ {saga.merchant} : Tries(m, TRUE)
      BY <1>6 DEF TryAlternative
    <3>2. m \in Merchants
      BY SagaFacts, MockAssumption
    <3> QED
      BY <3>1, <3>2, TriesAnother
  <2> QED
    BY <1>6, <2>1 DEF TryAlternative, Typed, chain, merchant
<1>7. CASE DropShop
  <2>1. saga' \in Sagas /\ saga'.at \in {"count", "order"} /\ saga.shop \in Shops
    BY <1>7, GoesToNext, SagaFacts DEF DropShop
  <2> QED
    BY <1>7, <2>1 DEF DropShop, Typed, chain, merchant
<1>8. CASE SagaCancel
  BY <1>8, CancelTyped, NoSagaIsSaga DEF SagaCancel, Typed, merchant
<1>9. CASE CountFunded
  <2>1. status' \in {"awaiting_approval", "funding", "in_progress", "failed",
                     "cancelled", "settled"} /\ receipts' \in Seq(Receipts)
    BY <1>9, FinalizeTyped DEF CountFunded, Typed
  <2> QED
    BY <1>9, <2>1, NoSagaIsSaga DEF CountFunded, Typed, chain, merchant
<1> QED
  BY <1>1, <1>2, <1>3, <1>4, <1>5, <1>6, <1>7, <1>8, <1>9 DEF Saga

LEMMA BuyerTyped ==
  ASSUME Typed, CancelTask \/ \E o \in OrderIds : UserRelease(o) \/ ReportReleased(o)
  PROVE  Typed'
<1>1. CASE CancelTask
  BY <1>1, CancelTyped DEF CancelTask, Typed, merchant
<1>2. ASSUME NEW o \in OrderIds, UserRelease(o) PROVE Typed'
  <2>1. escrow' \in [OrderIds -> EscrowStates]
    BY <1>2, EscrowMoved DEF UserRelease, EscrowStates, Spent
  <2> QED
    BY <1>2, <2>1 DEF UserRelease, Typed, merchant, BookStates
<1>3. ASSUME NEW o \in OrderIds, ReportReleased(o) PROVE Typed'
  <2>1. orders' \in [OrderIds -> Rows]
    BY <1>3, StateSet DEF ReportReleased, LearnReleased, OrderStates, Typed
  <2>2. status' \in {"awaiting_approval", "funding", "in_progress", "failed",
                     "cancelled", "settled"} /\ receipts' \in Seq(Receipts)
    BY <1>3, FinalizeTyped DEF ReportReleased, Typed
  <2> QED
    BY <1>3, <2>1, <2>2 DEF ReportReleased, Typed, chain
<1> QED
  BY <1>1, <1>2, <1>3

LEMMA ChainedTyped ==
  ASSUME Typed, NEW j \in Jobs, NEW o \in OrderIds, NEW from, NEW to \in EscrowStates,
         NEW stage \in Stages, Chained(j, o, from, to, stage)
  PROVE  escrow' \in [OrderIds -> EscrowStates] /\ runs' \in [Jobs \X OrderIds -> Stages]
<1>1. "idle" \in Stages
  BY DEF Stages
<1> QED
  BY <1>1, JobDoes, EscrowMoved DEF Chained, Typed

LEMMA WorkTyped ==
  ASSUME Typed, NEW o \in OrderIds,
         \/ AutoPrepare(o) \/ MarkReady(o) \/ VerifyPickup(o) \/ ConfirmPickup(o)
         \/ ListOverdue(o) \/ RefundOverdue(o)
  PROVE  Typed'
<1> USE DEF Jobs, Stages, EscrowStates, Spent
<1>1. CASE AutoPrepare(o)
  <2>1. escrow' \in [OrderIds -> EscrowStates] /\ runs' \in [Jobs \X OrderIds -> Stages]
    <3>1. CASE orders[o].state = "paid_in_escrow"
      BY <1>1, <3>1, ChainedTyped DEF AutoPrepare
    <3>2. CASE orders[o].state # "paid_in_escrow"
      BY <1>1, <3>2 DEF AutoPrepare, Typed
    <3> QED
      BY <3>1, <3>2
  <2> QED
    BY <1>1, <2>1 DEF AutoPrepare, Typed, bridge
<1>2. CASE MarkReady(o)
  <2>1. escrow' \in [OrderIds -> EscrowStates] /\ runs' \in [Jobs \X OrderIds -> Stages]
    BY <1>2, ChainedTyped DEF MarkReady
  <2> QED
    BY <1>2, <2>1 DEF MarkReady, Typed, bridge
<1>3. CASE VerifyPickup(o)
  <2>1. escrow' \in [OrderIds -> EscrowStates] /\ runs' \in [Jobs \X OrderIds -> Stages]
    BY <1>3, ChainedTyped DEF VerifyPickup
  <2> QED
    BY <1>3, <2>1 DEF VerifyPickup, Typed, bridge
<1>4. CASE ConfirmPickup(o)
  <2>1. escrow' \in [OrderIds -> EscrowStates] /\ runs' \in [Jobs \X OrderIds -> Stages]
    BY <1>4, ChainedTyped DEF ConfirmPickup
  <2> QED
    BY <1>4, <2>1 DEF ConfirmPickup, Typed, bridge
<1>5. CASE ListOverdue(o)
  <2>1. runs' \in [Jobs \X OrderIds -> Stages]
    BY <1>5, JobDoes DEF ListOverdue
  <2> QED
    BY <1>5, <2>1 DEF ListOverdue, Typed, bridge, chain
<1>6. CASE RefundOverdue(o)
  <2>1. runs' \in [Jobs \X OrderIds -> Stages]
    BY <1>6, JobDoes DEF RefundOverdue
  <2>2. escrow' \in [OrderIds -> EscrowStates] /\ balance' \in Nat
    BY <1>6, Refunds DEF RefundOverdue, chain, Typed
  <2> QED
    BY <1>6, <2>1, <2>2 DEF RefundOverdue, Typed, bridge
<1> QED
  BY <1>1, <1>2, <1>3, <1>4, <1>5, <1>6

LEMMA StageTyped ==
  ASSUME Typed, NEW j \in Jobs, NEW o \in OrderIds
  PROVE  Stage(j, o) \in Stages /\ (Told(j, o) => runs' \in [Jobs \X OrderIds -> Stages])
<1>1. Stage(j, o) \in Stages
  BY DEF Typed, Stage
<1>2. Told(j, o) => runs' \in [Jobs \X OrderIds -> Stages]
  BY JobDoes DEF Told, Stages
<1> QED
  BY <1>1, <1>2

LEMMA TellTyped ==
  ASSUME Typed, NEW j \in Jobs, NEW o \in OrderIds, Record(j, o) \/ Tell(j, o)
  PROVE  Typed'
<1>1. CASE Record(j, o)
  <2>1. runs' \in [Jobs \X OrderIds -> Stages]
    BY <1>1, JobDoes DEF Record, Stages
  <2>2. orders' \in [OrderIds -> Rows]
    BY <1>1, StateSet DEF Record, OrderStates, Typed
  <2> QED
    BY <1>1, <2>1, <2>2 DEF Record, Typed, bridge, chain
<1>2. CASE Tell(j, o)
  <2> DEFINE b == IF books[o] = "none" THEN books
                  ELSE [books EXCEPT ![o] = Event[Stage(j, o)]]
  <2>1. Event[Stage(j, o)] \in BookStates
    BY <1>2 DEF Tell, Event, BookStates
  <2>2. b \in [OrderIds -> BookStates]
    BY <2>1 DEF Typed
  <2>3. books' = b /\ MaybeFinalize(status, b) /\ Told(j, o)
    BY <1>2 DEF Tell
  <2> HIDE DEF b
  <2>4. status' \in {"awaiting_approval", "funding", "in_progress", "failed",
                     "cancelled", "settled"} /\ receipts' \in Seq(Receipts)
    BY <2>3, FinalizeTyped DEF Typed
  <2> QED
    BY <1>2, <2>2, <2>3, <2>4, StageTyped DEF Tell, Typed, chain
<1> QED
  BY <1>1, <1>2

LEMMA FaultsTyped == Typed /\ Faults => Typed'
<1> SUFFICES ASSUME Typed, Faults PROVE Typed'
  OBVIOUS
<1>1. CASE OrderLost
  <2>1. saga' = NoSaga /\ releasing' = {} /\ UNCHANGED <<status, dropped, books, receipts>>
    BY <1>1 DEF OrderLost, BridgeStops
  <2>2. /\ orders' \in [OrderIds -> Rows] /\ stock' \in [Merchants -> Nat]
        /\ UNCHANGED <<timers, runs>>
    BY <1>1, SagaFacts, Created DEF OrderLost, Typed, merchant
  <2> QED
    BY <1>1, <2>1, <2>2, NoSagaIsSaga DEF OrderLost, Typed, chain
<1>2. CASE ReportLost
  <2>1. orders' \in [OrderIds -> Rows] /\ timers' \in SUBSET OrderIds /\ UNCHANGED <<stock, runs>>
    BY <1>2, LearnedFunded DEF ReportLost, merchant, Typed
  <2> QED
    BY <1>2, <2>1, GoesOn DEF ReportLost, Typed, chain, Places
<1>3. CASE UndoLost
  BY <1>3, GoesOn DEF UndoLost, Typed, chain, merchant, Places
<1>4. CASE CrashBridge
  BY <1>4, NoSagaIsSaga DEF CrashBridge, BridgeStops, Typed, chain, merchant
<1>5. CASE CrashMerchant
  BY <1>5 DEF CrashMerchant, Typed, bridge, chain, Stages
<1>6. ASSUME NEW o \in OrderIds, ReleaseLost(o) PROVE Typed'
  <2>1. status' \in {"awaiting_approval", "funding", "in_progress", "failed",
                     "cancelled", "settled"} /\ receipts' \in Seq(Receipts)
    BY <1>6, FinalizeTyped DEF ReleaseLost, Typed
  <2> QED
    BY <1>6, <2>1 DEF ReleaseLost, Typed, chain, merchant
<1>7. ASSUME NEW o \in OrderIds, NEW j \in Jobs, TellLost(j, o) PROVE Typed'
  BY <1>7, StageTyped DEF TellLost, Typed, bridge, chain
<1> QED
  BY <1>1, <1>2, <1>3, <1>4, <1>5, <1>6, <1>7 DEF Faults

LEMMA StepTyped == Typed /\ [Next]_vars => Typed'
<1> SUFFICES ASSUME Typed, [Next]_vars PROVE Typed'
  OBVIOUS
<1>1. CASE UNCHANGED vars
  BY <1>1 DEF vars, bridge, chain, merchant, Typed
<1>2. ASSUME NEW o \in OrderIds, DeadlinePasses(o) PROVE Typed'
  BY <1>2 DEF DeadlinePasses, bridge, chain, merchant, Typed
<1> QED
  BY <1>1, <1>2, SagaTyped, BuyerTyped, WorkTyped, TellTyped, FaultsTyped
     DEF Next, Buyer, Works

-----------------------------------------------------------------------------
(* The chain *)

\* What a step may do to the chain: move escrows on that hold money, refund some
\* that hold money, or fund the order of the saga.
Advances ==
    /\ balance' = balance
    /\ \A o \in OrderIds :
          \/ escrow'[o] = escrow[o]
          \/ /\ Holds(o) /\ escrow'[o] \in {"Preparing", "Ready", "Released"}
             /\ escrow'[o] = "Preparing" => escrow[o] = "Funded"
             /\ escrow'[o] = "Ready" => escrow[o] = "Preparing"

RefundsHeld ==
    \E S \in SUBSET OrderIds : (\A o \in S : Holds(o)) /\ RefundAll(S)

FundsOne ==
    /\ saga.at = "fund" /\ saga.order \in OrderIds
    /\ balance # 0 /\ balance' = balance - 1
    /\ Moves(saga.order, "Funded")
    /\ books' = [books EXCEPT ![saga.order] = "paid_in_escrow"]
    /\ FundShop

LEMMA CancelRefunds == Cancel => RefundsHeld
<1> SUFFICES ASSUME Cancel PROVE RefundsHeld
  OBVIOUS
<1> DEFINE S == {o \in OrderIds : books[o] \in {"paid_in_escrow", "preparing", "ready"}
                                  /\ MayRefund(o)}
<1>1. RefundAll(S) /\ S \in SUBSET OrderIds /\ \A o \in S : Holds(o)
  BY DEF Cancel, MayRefund
<1> HIDE DEF S
<1> QED
  BY <1>1 DEF RefundsHeld

LEMMA ChainedAdvances ==
  ASSUME Typed, NEW j \in Jobs, NEW o \in OrderIds,
         NEW from \in SUBSET {"Funded", "Preparing", "Ready"},
         NEW to \in {"Preparing", "Ready", "Released"}, NEW stage,
         to = "Preparing" => from = {"Funded"}, to = "Ready" => from = {"Preparing"},
         Chained(j, o, from, to, stage), balance' = balance
  PROVE  Advances
<1>1. CASE escrow[o] \in from
  <2>1. Holds(o) /\ Moves(o, to) /\ to \in EscrowStates
    BY <1>1 DEF Holds, Settled, Chained, EscrowStates, Spent
  <2>2. (to = "Preparing" => escrow[o] = "Funded") /\ (to = "Ready" => escrow[o] = "Preparing")
    BY <1>1
  <2>3. escrow'[o] = to /\ \A p \in OrderIds : p # o => escrow'[p] = escrow[p]
    BY <2>1, EscrowMoved
  <2> QED
    BY <2>1, <2>2, <2>3 DEF Advances
<1>2. CASE escrow[o] \notin from
  BY <1>2 DEF Chained, Advances
<1> QED
  BY <1>1, <1>2

LEMMA ChainSteps == Typed /\ [Next]_vars => Advances \/ RefundsHeld \/ FundsOne
<1> SUFFICES ASSUME Typed, [Next]_vars PROVE Advances \/ RefundsHeld \/ FundsOne
  OBVIOUS
<1>1. ASSUME UNCHANGED chain PROVE Advances
  BY <1>1 DEF chain, Advances
<1>2. CASE UNCHANGED vars
  BY <1>1, <1>2 DEF vars
<1>3. CASE Saga
  <2>1. CASE FundShop
    <3>1. UNCHANGED chain \/ FundsOne
      BY <2>1 DEF FundShop, FundsOne, Typed
    <3> QED
      BY <1>1, <3>1
  <2>2. CASE SagaCancel
    BY <2>2, CancelRefunds DEF SagaCancel
  <2>3. CASE ~FundShop /\ ~SagaCancel
    BY <1>1, <1>3, <2>3 DEF Saga, PlaceOrder, ReportFunded, UndoOrder, TryAlternative,
                            DropShop, CountFunded
  <2> QED
    BY <2>1, <2>2, <2>3
<1>4. CASE Buyer
  <2>1. CASE ApprovePayment
    BY <1>1, <2>1 DEF ApprovePayment
  <2>2. CASE CancelTask
    BY <2>2, CancelRefunds DEF CancelTask
  <2>3. ASSUME NEW o \in OrderIds, UserRelease(o) PROVE Advances
    <3>1. Holds(o) /\ Moves(o, "Released") /\ balance' = balance /\ "Released" \in EscrowStates
      BY <2>3 DEF UserRelease, EscrowStates, Spent
    <3> QED
      BY <3>1, EscrowMoved DEF Advances
  <2> QED
    BY <1>4, <2>1, <2>2, <2>3 DEF Buyer
<1>5. CASE Faults
  BY <1>1, <1>5 DEF Faults, OrderLost, ReportLost, UndoLost, CrashBridge, CrashMerchant,
                    ReleaseLost, TellLost
<1>6. ASSUME NEW o \in OrderIds, DeadlinePasses(o) PROVE Advances
  BY <1>1, <1>6 DEF DeadlinePasses
<1>7. ASSUME NEW o \in OrderIds, Works(o) PROVE Advances \/ RefundsHeld
  <2>1. CASE AutoPrepare(o)
    <3>1. CASE orders[o].state = "paid_in_escrow"
      BY <2>1, <3>1, ChainedAdvances DEF AutoPrepare, Jobs
    <3>2. CASE orders[o].state # "paid_in_escrow"
      BY <1>1, <2>1, <3>2 DEF AutoPrepare, chain
    <3> QED
      BY <3>1, <3>2
  <2>2. CASE MarkReady(o)
    BY <2>2, ChainedAdvances DEF MarkReady, Jobs
  <2>3. CASE VerifyPickup(o)
    BY <2>3, ChainedAdvances DEF VerifyPickup, Jobs
  <2>4. CASE ConfirmPickup(o)
    BY <2>4, ChainedAdvances DEF ConfirmPickup, Jobs
  <2>5. CASE RefundOverdue(o)
    <3>1. CASE MayRefund(o)
      <4>1. RefundAll({o}) /\ {o} \in SUBSET OrderIds /\ \A p \in {o} : Holds(p)
        BY <2>5, <3>1 DEF RefundOverdue, MayRefund
      <4> QED
        BY <4>1 DEF RefundsHeld
    <3>2. CASE ~MayRefund(o)
      BY <1>1, <2>5, <3>2 DEF RefundOverdue
    <3> QED
      BY <3>1, <3>2
  <2>6. CASE ListOverdue(o)
    BY <1>1, <2>6 DEF ListOverdue
  <2>7. CASE ReportReleased(o)
    BY <1>1, <2>7 DEF ReportReleased
  <2>8. ASSUME NEW j \in Jobs, Record(j, o) \/ Tell(j, o) PROVE Advances
    BY <1>1, <2>8 DEF Record, Tell
  <2> QED
    BY <1>7, <2>1, <2>2, <2>3, <2>4, <2>5, <2>6, <2>7, <2>8 DEF Works
<1> QED
  BY <1>2, <1>3, <1>4, <1>5, <1>6, <1>7 DEF Next

\* No escrow is funded twice and none that is settled moves again.
Kept(o) ==
    /\ escrow[o] \in Settled => escrow'[o] = escrow[o]
    /\ escrow[o] = "None" <=> escrow'[o] = "None"

LEMMA AllKept ==
  ASSUME Typed, Advances \/ RefundsHeld, NEW o \in OrderIds
  PROVE  Kept(o)
<1>1. CASE Advances
  BY <1>1 DEF Advances, Kept, Holds
<1>2. CASE RefundsHeld
  <2>1. PICK S \in SUBSET OrderIds : (\A p \in S : Holds(p)) /\ RefundAll(S)
    BY <1>2 DEF RefundsHeld
  <2> QED
    BY <2>1, Refunds DEF Kept, Holds
<1> QED
  BY <1>1, <1>2

LEMMA FundKept ==
  ASSUME Typed, SagaKnows, FundsOne, NEW o \in OrderIds
  PROVE  /\ o # saga.order => Kept(o)
         /\ o = saga.order => escrow[o] = "None" /\ escrow'[o] = "Funded"
<1>1. /\ \A p \in OrderIds : p # saga.order => escrow'[p] = escrow[p]
      /\ escrow'[saga.order] = "Funded" /\ escrow[saga.order] = "None"
  BY EscrowMoved DEF FundsOne, SagaKnows, EscrowStates, Spent
<1> QED
  BY <1>1 DEF Kept

-----------------------------------------------------------------------------
(* The wallet *)

LEMMA AwayFacts == Away \in SUBSET OrderIds /\ IsFiniteSet(Away) /\ Cardinality(Away) \in Nat
BY IdFacts DEF Away

\* Every step keeps the sum of the wallet and the money away.
LEMMA MoneyStep ==
  ASSUME Typed, SagaKnows, MoneyAddsUp, [Next]_vars
  PROVE  MoneyAddsUp'
<1>1. Balance \in Nat /\ balance \in Nat /\ balance = Balance - Cardinality(Away)
  BY MockAssumption DEF Typed, MoneyAddsUp
<1>2. CASE Advances
  <2>1. \A o \in OrderIds : escrow'[o] \in Spent <=> escrow[o] \in Spent
    BY <1>2 DEF Advances, Holds, Settled, Spent, Typed, EscrowStates
  <2>2. Away' = Away
    BY <2>1 DEF Away
  <2> QED
    BY <1>2, <2>2 DEF Advances, MoneyAddsUp
<1>3. CASE RefundsHeld
  <2>1. PICK S \in SUBSET OrderIds : (\A o \in S : Holds(o)) /\ RefundAll(S)
    BY <1>3 DEF RefundsHeld
  <2>2. S \subseteq Away
    BY <2>1 DEF Holds, Settled, Away, Spent, Typed, EscrowStates
  <2>3. Away' = Away \ S
    <3>1. \A o \in OrderIds : escrow'[o] = IF o \in S THEN "Refunded" ELSE escrow[o]
      BY <2>1, Refunds
    <3> QED
      BY <3>1 DEF Away, Spent
  <2>4. Cardinality(Away \ S) = Cardinality(Away) - Cardinality(S)
        /\ Cardinality(S) \in Nat /\ Cardinality(Away) \in Nat
    <3>1. Away \cap S = S
      BY <2>2
    <3> QED
      BY <3>1, IdFacts, AwayFacts, FS_Difference
  <2>5. balance' = balance + Cardinality(S)
    BY <2>1 DEF RefundAll
  <2>6. balance' = Balance - Cardinality(Away')
    BY <1>1, <2>3, <2>4, <2>5
  <2> QED
    BY <2>6 DEF MoneyAddsUp
<1>4. CASE FundsOne
  <2> DEFINE i == saga.order
  <2>1. i \in OrderIds /\ balance' = balance - 1
    BY <1>4 DEF FundsOne
  <2>2. /\ \A o \in OrderIds : o # i => escrow'[o] = escrow[o]
        /\ escrow'[i] = "Funded" /\ escrow[i] = "None"
    BY <1>4, EscrowMoved DEF FundsOne, SagaKnows, EscrowStates, Spent
  <2> HIDE DEF i
  <2>3. Away' = Away \cup {i} /\ i \notin Away
    BY <2>1, <2>2 DEF Away, Spent
  <2>4. Cardinality(Away \cup {i}) = Cardinality(Away) + 1
    BY <2>3, AwayFacts, FS_AddElement
  <2>5. balance' = Balance - Cardinality(Away')
    BY <1>1, <2>1, <2>3, <2>4, AwayFacts
  <2> QED
    BY <2>5 DEF MoneyAddsUp
<1> QED
  BY <1>2, <1>3, <1>4, ChainSteps

-----------------------------------------------------------------------------
(* What the books and the jobs show *)

\* Whatever a step writes about order o is true of the escrow it leaves.
Justified(o) ==
    /\ \/ books'[o] = books[o]
       \/ /\ books[o] # "none" /\ books'[o] # "none"
          /\ books'[o] = "completed" => escrow'[o] = "Released"
          /\ books'[o] = "refunded" => escrow'[o] = "Refunded"
    /\ \/ orders'[o].state = orders[o].state
       \/ /\ orders'[o].state # "none"
          /\ orders'[o].state = "completed" => escrow'[o] = "Released"
          /\ orders'[o].state = "refunded" => escrow'[o] = "Refunded"
          /\ orders'[o].state \in {"paid_in_escrow", "preparing", "ready"} =>
                escrow'[o] # "None"
    /\ o \in releasing' => o \in releasing \/ escrow'[o] = "Released"
    /\ \A j \in Jobs :
          \/ runs'[<<j, o>>] = runs[<<j, o>>]
          \/ /\ runs'[<<j, o>>] \in {"completed", "tell_completed"} => escrow'[o] = "Released"
             /\ runs'[<<j, o>>] \in {"refunded", "tell_refunded"} => escrow'[o] = "Refunded"

LEMMA EvidenceStays ==
  ASSUME Typed, NEW o \in OrderIds, Evidence(o), Kept(o), Justified(o)
  PROVE  Evidence(o)'
<1> USE DEF Evidence, Kept, Justified, Settled
<1>1. (books[o] = "none" <=> escrow[o] = "None")'
  OBVIOUS
<1>2. ("completed" \in {books[o], orders[o].state} => escrow[o] = "Released")'
  OBVIOUS
<1>3. ("refunded" \in {books[o], orders[o].state} => escrow[o] = "Refunded")'
  OBVIOUS
<1>4. (orders[o].state = "none" => escrow[o] = "None")'
  OBVIOUS
<1>5. (orders[o].state \in {"paid_in_escrow", "preparing", "ready"} => escrow[o] # "None")'
  OBVIOUS
<1>6. (o \in releasing => escrow[o] = "Released")'
  OBVIOUS
<1>7. ASSUME NEW j \in Jobs
      PROVE  /\ Stage(j, o)' \in {"completed", "tell_completed"} => escrow'[o] = "Released"
             /\ Stage(j, o)' \in {"refunded", "tell_refunded"} => escrow'[o] = "Refunded"
  BY DEF Stage
<1> QED
  BY <1>1, <1>2, <1>3, <1>4, <1>5, <1>6, <1>7

\* A job's chain call is what the job says it was.
LEMMA ChainedShows ==
  ASSUME Typed, NEW j \in Jobs, NEW o \in OrderIds, NEW p \in OrderIds, NEW from,
         NEW to \in EscrowStates, NEW stage \in {"preparing", "ready", "completed"},
         stage = "completed" => to = "Released",
         Chained(j, o, from, to, stage), UNCHANGED <<books, orders, releasing>>
  PROVE  Justified(p)
<1>0. stage \in Stages /\ "idle" \in Stages
  BY DEF Stages
<1>1. ASSUME NEW i \in Jobs
      PROVE  \/ runs'[<<i, p>>] = runs[<<i, p>>]
             \/ /\ runs'[<<i, p>>] \notin {"tell_completed", "refunded", "tell_refunded"}
                /\ runs'[<<i, p>>] = "completed" => escrow'[p] = "Released"
  <2>1. CASE escrow[o] \in from
    <3>1. Moves(o, to) /\ Does(j, o, stage)
      BY <2>1 DEF Chained
    <3>2. escrow'[o] = to
      BY <3>1, EscrowMoved
    <3>3. runs'[<<j, o>>] = stage
          /\ (<<i, p>> # <<j, o>> => runs'[<<i, p>>] = runs[<<i, p>>])
      BY <1>0, <3>1, JobDoes
    <3> QED
      BY <3>2, <3>3
  <2>2. CASE escrow[o] \notin from
    <3>1. Does(j, o, "idle")
      BY <2>2 DEF Chained
    <3>2. runs'[<<j, o>>] = "idle"
          /\ (<<i, p>> # <<j, o>> => runs'[<<i, p>>] = runs[<<i, p>>])
      BY <1>0, <3>1, JobDoes
    <3> QED
      BY <3>2
  <2> QED
    BY <2>1, <2>2
<1> QED
  BY <1>1 DEF Justified

LEMMA NothingWritten ==
  ASSUME NEW o \in OrderIds, UNCHANGED <<books, orders, runs>>, releasing' \subseteq releasing
  PROVE  Justified(o)
BY DEF Justified

LEMMA WorkJustified ==
  ASSUME Typed, NEW o \in OrderIds, NEW p \in OrderIds, Evidence(p),
         \/ AutoPrepare(o) \/ MarkReady(o) \/ VerifyPickup(o) \/ ConfirmPickup(o)
         \/ ListOverdue(o) \/ RefundOverdue(o)
  PROVE  Justified(p)
<1> USE DEF Jobs, EscrowStates, Spent
<1>1. CASE AutoPrepare(o)
  <2>1. UNCHANGED <<books, orders, releasing>>
    BY <1>1 DEF AutoPrepare, bridge
  <2>2. CASE orders[o].state = "paid_in_escrow"
    BY <1>1, <2>1, <2>2, ChainedShows DEF AutoPrepare
  <2>3. CASE orders[o].state # "paid_in_escrow"
    BY <1>1, <2>1, <2>3, NothingWritten DEF AutoPrepare
  <2> QED
    BY <2>2, <2>3
<1>2. CASE MarkReady(o)
  BY <1>2, ChainedShows DEF MarkReady, bridge
<1>3. CASE VerifyPickup(o)
  BY <1>3, ChainedShows DEF VerifyPickup, bridge
<1>4. CASE ConfirmPickup(o)
  BY <1>4, ChainedShows DEF ConfirmPickup, bridge
<1>5. CASE ListOverdue(o)
  <2>1. Does("refund", o, "listed") /\ "listed" \in Stages
        /\ UNCHANGED <<books, orders, releasing>>
    BY <1>5 DEF ListOverdue, bridge, Stages
  <2>2. \A i \in Jobs : runs'[<<i, p>>] = runs[<<i, p>>] \/ runs'[<<i, p>>] = "listed"
    BY <2>1, JobLeaves
  <2> QED
    BY <2>1, <2>2 DEF Justified
<1>6. CASE RefundOverdue(o)
  <2>1. UNCHANGED <<books, orders, releasing>>
    BY <1>6 DEF RefundOverdue, bridge
  <2>2. CASE MayRefund(o)
    <3>1. RefundAll({o}) /\ Does("refund", o, "refunded") /\ "refunded" \in Stages
      BY <1>6, <2>2 DEF RefundOverdue, Stages
    <3>2. escrow'[o] = "Refunded"
      <4>1. {o} \in SUBSET OrderIds
        OBVIOUS
      <4> QED
        BY <3>1, <4>1, Refunds
    <3>3. \A i \in Jobs : \/ runs'[<<i, p>>] = runs[<<i, p>>]
                          \/ p = o /\ runs'[<<i, p>>] = "refunded"
      BY <3>1, JobLeaves
    <3> QED
      BY <2>1, <3>2, <3>3 DEF Justified
  <2>3. CASE ~MayRefund(o)
    <3>1. Does("refund", o, "idle") /\ "idle" \in Stages
      BY <1>6, <2>3 DEF RefundOverdue, Stages
    <3>2. \A i \in Jobs : runs'[<<i, p>>] = runs[<<i, p>>] \/ runs'[<<i, p>>] = "idle"
      BY <3>1, JobLeaves
    <3> QED
      BY <2>1, <3>2 DEF Justified
  <2> QED
    BY <2>2, <2>3
<1> QED
  BY <1>1, <1>2, <1>3, <1>4, <1>5, <1>6

\* A job records and tells what its chain call did.
LEMMA TellJustified ==
  ASSUME Typed, NEW j \in Jobs, NEW o \in OrderIds, NEW p \in OrderIds,
         Evidence(p), Evidence(o), Record(j, o) \/ Tell(j, o)
  PROVE  Justified(p)
<1>1. CASE Record(j, o)
  <2> DEFINE done == Stage(j, o)
  <2>1. /\ done \in {"preparing", "ready", "completed", "refunded"}
        /\ UNCHANGED <<books, escrow, releasing>>
        /\ done = "completed" => escrow[o] = "Released"
        /\ done = "refunded" => escrow[o] = "Refunded"
    BY <1>1 DEF Record, bridge, chain, Evidence
  <2>2. CASE done \in Transitions[orders[o].state]
    <3>1. /\ orders' = [orders EXCEPT ![o].state = done]
          /\ Does(j, o, CASE done = "preparing" -> "tell_preparing"
                          [] done = "ready" -> "tell_ready"
                          [] done = "completed" -> "tell_completed"
                          [] done = "refunded" -> "tell_refunded")
      BY <1>1, <2>2 DEF Record
    <3>2. orders[o].state \in OrderStates /\ done \in OrderStates
      BY <2>1 DEF Typed, Rows, OrderStates
    <3>3. \A q \in OrderIds : q # o => orders'[q] = orders[q]
      BY <3>1, <3>2, StateSet
    <3>4. orders'[o].state = done
      BY <3>1, <3>2, StateSet
    <3>5. done \in {"preparing", "ready"} => escrow[o] # "None"
      <4>1. done \in {"preparing", "ready"} => orders[o].state \in {"paid_in_escrow", "preparing"}
        BY <2>2, <3>2 DEF Transitions, OrderStates
      <4> QED
        BY <4>1 DEF Evidence
    <3>6. \A i \in Jobs : \/ runs'[<<i, p>>] = runs[<<i, p>>]
                          \/ /\ p = o
                             /\ runs'[<<i, p>>] \in Stages \ {"completed", "refunded"}
                             /\ runs'[<<i, p>>] = "tell_completed" => done = "completed"
                             /\ runs'[<<i, p>>] = "tell_refunded" => done = "refunded"
      <4>1. PICK next \in Stages \ {"completed", "refunded"} :
              /\ Does(j, o, next)
              /\ next = "tell_completed" => done = "completed"
              /\ next = "tell_refunded" => done = "refunded"
        BY <2>1, <3>1 DEF Stages
      <4> QED
        BY <4>1, JobLeaves
    <3> HIDE DEF done
    <3> QED
      BY <2>1, <3>3, <3>4, <3>5, <3>6 DEF Justified
  <2>3. CASE done \notin Transitions[orders[o].state]
    <3>1. Does(j, o, "idle") /\ UNCHANGED orders /\ "idle" \in Stages
      BY <1>1, <2>3 DEF Record, Stages
    <3>2. \A i \in Jobs : runs'[<<i, p>>] = runs[<<i, p>>] \/ runs'[<<i, p>>] = "idle"
      BY <3>1, JobLeaves
    <3> QED
      BY <2>1, <3>1, <3>2 DEF Justified
  <2> QED
    BY <2>2, <2>3
<1>2. CASE Tell(j, o)
  <2>1. UNCHANGED <<escrow, orders, releasing>>
    BY <1>2 DEF Tell, chain
  <2>2. \A i \in Jobs : runs'[<<i, p>>] = runs[<<i, p>>]
                        \/ runs'[<<i, p>>] \in {"idle", "confirm"}
    BY <1>2, JobLeaves DEF Tell, Told, Stages
  <2>3. \/ books'[p] = books[p]
        \/ /\ p = o /\ books[o] # "none" /\ books'[o] = Event[Stage(j, o)]
    BY <1>2 DEF Tell, Typed
  <2>4. /\ Event[Stage(j, o)] # "none"
        /\ Event[Stage(j, o)] = "completed" => escrow[o] = "Released"
        /\ Event[Stage(j, o)] = "refunded" => escrow[o] = "Refunded"
    <3>1. Stage(j, o) \in {"tell_preparing", "tell_ready", "tell_completed", "tell_refunded"}
      BY <1>2 DEF Tell, Event
    <3>2. /\ Event[Stage(j, o)] # "none"
          /\ Event[Stage(j, o)] = "completed" => Stage(j, o) = "tell_completed"
          /\ Event[Stage(j, o)] = "refunded" => Stage(j, o) = "tell_refunded"
      BY <3>1 DEF Event
    <3> QED
      BY <3>2 DEF Evidence
  <2> QED
    BY <2>1, <2>2, <2>3, <2>4 DEF Justified
<1> QED
  BY <1>1, <1>2

\* A refund of orders the books call paid for, and the books closed with it.
LEMMA CancelJustified ==
  ASSUME Typed, Cancel, UNCHANGED <<orders, runs, releasing>>, NEW o \in OrderIds
  PROVE  Justified(o)
<1> DEFINE S == {p \in OrderIds : books[p] \in {"paid_in_escrow", "preparing", "ready"}
                                  /\ MayRefund(p)}
<1>1. RefundAll(S) /\ S \in SUBSET OrderIds
      /\ books' = [p \in OrderIds |-> IF p \in S THEN "refunded" ELSE books[p]]
      /\ (o \in S => books[o] # "none")
  BY DEF Cancel
<1> HIDE DEF S
<1>2. escrow'[o] = IF o \in S THEN "Refunded" ELSE escrow[o]
  BY <1>1, Refunds
<1> QED
  BY <1>1, <1>2 DEF Justified

\* The merchant hears of money that is there.
LEMMA LearnedJustified ==
  ASSUME Typed, NEW i \in OrderIds, LearnFunded(i), escrow[i] # "None",
         UNCHANGED <<escrow, books, releasing>>, NEW o \in OrderIds
  PROVE  Justified(o)
BY LearnedFunded DEF Justified

LEMMA CreatedJustified ==
  ASSUME Typed, NEW m \in Merchants, CreateOrder(m), UNCHANGED books,
         releasing' \subseteq releasing, NEW o \in OrderIds
  PROVE  Justified(o)
BY Created DEF Justified

LEMMA SagaJustified ==
  ASSUME Typed, SagaKnows, Saga, ~FundsOne, NEW o \in OrderIds
  PROVE  Justified(o)
<1>1. CASE PlaceOrder
  <2>1. UNCHANGED <<books, releasing>>
    BY <1>1 DEF PlaceOrder
  <2>2. CASE CreateOrder(saga.merchant)
    BY <2>1, <2>2, SagaFacts, CreatedJustified
  <2>3. CASE UNCHANGED merchant
    BY <2>1, <2>3, NothingWritten DEF merchant
  <2> QED
    BY <1>1, <2>2, <2>3 DEF PlaceOrder
<1>2. CASE FundShop
  BY <1>2, NothingWritten DEF FundShop, FundsOne, merchant, Typed
<1>3. CASE ReportFunded
  BY <1>3, LearnedJustified DEF ReportFunded, Typed, SagaKnows, chain
<1>4. CASE UndoOrder
  <2>1. UNCHANGED <<books, releasing, escrow>> /\ CancelOrder(saga.order)
        /\ saga.order \in OrderIds
    BY <1>4 DEF UndoOrder, chain, Typed
  <2>2. /\ UNCHANGED runs
        /\ orders'[o].state \in {orders[o].state, "cancelled"}
    BY <2>1, OrderCancelled
  <2> QED
    BY <2>1, <2>2 DEF Justified
<1>5. CASE TryAlternative \/ DropShop \/ CountFunded
  BY <1>5, NothingWritten DEF TryAlternative, DropShop, CountFunded, merchant
<1>6. CASE SagaCancel
  BY <1>6, CancelJustified DEF SagaCancel, merchant
<1> QED
  BY <1>1, <1>2, <1>3, <1>4, <1>5, <1>6 DEF Saga

LEMMA BuyerJustified ==
  ASSUME Typed, NEW o \in OrderIds, NEW p \in OrderIds, Evidence(o),
         Buyer \/ ReportReleased(p)
  PROVE  Justified(o)
<1>1. CASE ApprovePayment
  BY <1>1, NothingWritten DEF ApprovePayment, merchant
<1>2. CASE CancelTask
  BY <1>2, CancelJustified DEF CancelTask, merchant
<1>3. ASSUME NEW q \in OrderIds, UserRelease(q) PROVE Justified(o)
  <2>1. escrow'[q] = "Released"
    BY <1>3, EscrowMoved DEF UserRelease, EscrowStates, Spent
  <2>2. /\ books[q] # "none" /\ books' = [books EXCEPT ![q] = "completed"]
        /\ releasing' = releasing \cup {q} /\ UNCHANGED <<orders, runs>>
    BY <1>3 DEF UserRelease, merchant
  <2> QED
    BY <2>1, <2>2 DEF Justified, Typed
<1>4. CASE ReportReleased(p)
  <2>1. /\ UNCHANGED <<books, escrow, runs>> /\ releasing' \subseteq releasing
        /\ p \in releasing /\ LearnReleased(p)
    BY <1>4 DEF ReportReleased, chain
  <2>2. \/ orders'[o].state = orders[o].state
        \/ o = p /\ orders'[o].state = "completed"
    BY <2>1, StateSet DEF LearnReleased, OrderStates
  <2>3. o = p => escrow[o] = "Released"
    BY <2>1 DEF Evidence
  <2> QED
    BY <2>1, <2>2, <2>3 DEF Justified
<1> QED
  BY <1>1, <1>2, <1>3, <1>4 DEF Buyer

LEMMA FaultsJustified ==
  ASSUME Typed, SagaKnows, Faults, NEW o \in OrderIds
  PROVE  Justified(o)
<1>1. CASE OrderLost
  <2>1. UNCHANGED books /\ releasing' \subseteq releasing
    BY <1>1 DEF OrderLost, BridgeStops
  <2>2. CASE CreateOrder(saga.merchant)
    BY <2>1, <2>2, SagaFacts, CreatedJustified
  <2>3. CASE UNCHANGED merchant
    BY <2>1, <2>3, NothingWritten DEF merchant
  <2> QED
    BY <1>1, <2>2, <2>3 DEF OrderLost
<1>2. CASE ReportLost
  <2>1. UNCHANGED <<books, escrow, releasing>>
    BY <1>2 DEF ReportLost, chain
  <2>2. CASE LearnFunded(saga.order)
    BY <1>2, <2>1, <2>2, LearnedJustified DEF ReportLost, Typed, SagaKnows
  <2>3. CASE UNCHANGED merchant
    BY <2>1, <2>3, NothingWritten DEF merchant
  <2> QED
    BY <1>2, <2>2, <2>3 DEF ReportLost
<1>3. CASE UndoLost \/ CrashBridge
  BY <1>3, NothingWritten DEF UndoLost, CrashBridge, BridgeStops, merchant
<1>4. CASE CrashMerchant
  <2>1. UNCHANGED <<books, orders, releasing>> /\ \A j \in Jobs : runs'[<<j, o>>] = "idle"
    BY <1>4 DEF CrashMerchant, bridge
  <2> QED
    BY <2>1 DEF Justified
<1>5. ASSUME NEW p \in OrderIds, ReleaseLost(p) PROVE Justified(o)
  BY <1>5, NothingWritten DEF ReleaseLost, merchant
<1>6. ASSUME NEW p \in OrderIds, NEW j \in Jobs, TellLost(j, p) PROVE Justified(o)
  <2>1. UNCHANGED <<books, orders, releasing>> /\ Told(j, p)
    BY <1>6 DEF TellLost, bridge
  <2>2. \A i \in Jobs : runs'[<<i, o>>] = runs[<<i, o>>]
                        \/ runs'[<<i, o>>] \in {"idle", "confirm"}
    BY <2>1, JobLeaves DEF Told, Stages
  <2> QED
    BY <2>1, <2>2 DEF Justified
<1> QED
  BY <1>1, <1>2, <1>3, <1>4, <1>5, <1>6 DEF Faults

LEMMA EvidenceStep ==
  ASSUME Typed, SagaKnows, \A o \in OrderIds : Evidence(o), [Next]_vars, NEW o \in OrderIds
  PROVE  Evidence(o)'
<1>1. CASE ~FundsOne
  <2>1. Kept(o)
    BY <1>1, ChainSteps, AllKept
  <2>2. Justified(o)
    <3>1. CASE UNCHANGED vars
      BY <3>1, NothingWritten DEF vars, bridge, merchant
    <3>2. ASSUME NEW p \in OrderIds, DeadlinePasses(p) PROVE Justified(o)
      BY <3>2, NothingWritten DEF DeadlinePasses, bridge, merchant
    <3> QED
      BY <1>1, <3>1, <3>2, SagaJustified, BuyerJustified, FaultsJustified, WorkJustified,
         TellJustified DEF Next, Works
  <2> QED
    BY <2>1, <2>2, EvidenceStays
<1>2. CASE FundsOne
  <2>1. /\ saga.order \in OrderIds /\ UNCHANGED <<orders, runs, releasing>>
        /\ books' = [books EXCEPT ![saga.order] = "paid_in_escrow"]
        /\ orders[saga.order].state = "awaiting_funding"
    BY <1>2 DEF FundsOne, FundShop, merchant, SagaKnows
  <2>2. CASE o # saga.order
    <3>1. Kept(o) /\ Justified(o)
      BY <1>2, <2>1, <2>2, FundKept DEF Justified, Typed
    <3> QED
      BY <3>1, EvidenceStays
  <2>3. CASE o = saga.order
    <3>1. escrow[o] = "None" /\ escrow'[o] = "Funded" /\ books'[o] = "paid_in_escrow"
          /\ orders'[o].state = "awaiting_funding"
      BY <1>2, <2>1, <2>3, FundKept DEF Typed
    <3>2. o \notin releasing'
      BY <2>1, <3>1 DEF Evidence
    <3>3. \A j \in Jobs : Stage(j, o)' \notin {"completed", "tell_completed", "refunded",
                                               "tell_refunded"}
      BY <2>1, <3>1 DEF Evidence, Stage
    <3> QED
      BY <3>1, <3>2, <3>3 DEF Evidence
  <2> QED
    BY <2>2, <2>3
<1> QED
  BY <1>1, <1>2

-----------------------------------------------------------------------------
(* The merchants' orders *)

\* An order that exists keeps its shop and its merchant.
Stays(o) ==
    orders[o].state # "none" =>
        /\ orders'[o].state # "none"
        /\ orders'[o].shop = orders[o].shop /\ orders'[o].merchant = orders[o].merchant

\* Orders nobody has, still to be funded or cancelled are not moved, and none is
\* moved there.
Idle == {"none", "awaiting_funding", "cancelled"}

OrdersKept ==
    /\ stock' = stock
    /\ \A o \in OrderIds :
          /\ orders'[o].shop = orders[o].shop /\ orders'[o].merchant = orders[o].merchant
          /\ \/ orders'[o].state = orders[o].state
             \/ orders[o].state \notin Idle /\ orders'[o].state \notin Idle

LEMMA WorkKeepsOrders ==
  ASSUME Typed, NEW o \in OrderIds, Works(o) \/ DeadlinePasses(o)
  PROVE  OrdersKept /\ saga' = saga
<1>1. ASSUME UNCHANGED <<orders, stock>> PROVE OrdersKept
  BY <1>1 DEF OrdersKept
<1>2. CASE \/ AutoPrepare(o) \/ MarkReady(o) \/ VerifyPickup(o) \/ ConfirmPickup(o)
           \/ ListOverdue(o) \/ RefundOverdue(o) \/ DeadlinePasses(o)
  BY <1>1, <1>2 DEF AutoPrepare, MarkReady, VerifyPickup, ConfirmPickup, ListOverdue,
                    RefundOverdue, DeadlinePasses, bridge, merchant
<1>3. CASE ReportReleased(o)
  <2>1. LearnReleased(o) /\ UNCHANGED <<saga, stock>>
    BY <1>3 DEF ReportReleased
  <2>2. CASE orders[o].state \in {"paid_in_escrow", "preparing", "ready"}
    <3>1. orders' = [orders EXCEPT ![o].state = "completed"] /\ "completed" \in OrderStates
      BY <2>1, <2>2 DEF LearnReleased, OrderStates
    <3> QED
      BY <2>1, <2>2, <3>1, StateSet DEF OrdersKept, Idle
  <2>3. CASE orders[o].state \notin {"paid_in_escrow", "preparing", "ready"}
    BY <1>1, <2>1, <2>3 DEF LearnReleased
  <2> QED
    BY <2>1, <2>2, <2>3
<1>4. ASSUME NEW j \in Jobs, Record(j, o) PROVE OrdersKept /\ saga' = saga
  <2> DEFINE done == Stage(j, o)
  <2>1. /\ UNCHANGED <<saga, stock>>
        /\ done \in {"preparing", "ready", "completed", "refunded"}
    BY <1>4 DEF Record, bridge
  <2>2. CASE done \in Transitions[orders[o].state]
    <3>1. orders' = [orders EXCEPT ![o].state = done] /\ done \in OrderStates
      BY <1>4, <2>1, <2>2 DEF Record, OrderStates
    <3>2. orders[o].state \in {"paid_in_escrow", "preparing", "ready"}
      <4>1. orders[o].state \in OrderStates
        BY DEF Typed, Rows
      <4> QED
        BY <2>1, <2>2, <4>1 DEF Transitions, OrderStates
    <3> HIDE DEF done
    <3> QED
      BY <2>1, <3>1, <3>2, StateSet DEF OrdersKept, Idle
  <2>3. CASE done \notin Transitions[orders[o].state]
    BY <1>1, <1>4, <2>1, <2>3 DEF Record
  <2> QED
    BY <2>2, <2>3
<1>5. ASSUME NEW j \in Jobs, Tell(j, o) PROVE OrdersKept /\ saga' = saga
  BY <1>1, <1>5 DEF Tell
<1> QED
  BY <1>2, <1>3, <1>4, <1>5 DEF Works

\* What any step does to the merchants' orders.
LEMMA OrdersStep ==
  ASSUME Typed, [Next]_vars
  PROVE  \/ OrdersKept
         \/ CreateOrder(saga.merchant) /\ saga.at = "order"
         \/ LearnFunded(saga.order) /\ saga.at = "report"
         \/ CancelOrder(saga.order) /\ saga.at = "undo"
<1>1. ASSUME UNCHANGED <<orders, stock>> PROVE OrdersKept
  BY <1>1 DEF OrdersKept
<1>2. CASE UNCHANGED vars
  BY <1>1, <1>2 DEF vars, merchant
<1>3. CASE Saga
  BY <1>1, <1>3 DEF Saga, PlaceOrder, FundShop, ReportFunded, UndoOrder, TryAlternative,
                    DropShop, SagaCancel, CountFunded, merchant
<1>4. CASE Buyer
  BY <1>1, <1>4 DEF Buyer, ApprovePayment, CancelTask, UserRelease, merchant
<1>5. CASE Faults
  BY <1>1, <1>5 DEF Faults, OrderLost, ReportLost, UndoLost, CrashBridge, CrashMerchant,
                    ReleaseLost, TellLost, merchant
<1> QED
  BY <1>2, <1>3, <1>4, <1>5, WorkKeepsOrders DEF Next

LEMMA AllStay ==
  ASSUME Typed, [Next]_vars, NEW o \in OrderIds
  PROVE  Stays(o)
<1>1. CASE OrdersKept
  BY <1>1 DEF OrdersKept, Stays, Idle
<1>2. CASE CreateOrder(saga.merchant)
  BY <1>2, SagaFacts, Created DEF Stays
<1>3. CASE LearnFunded(saga.order) /\ saga.at = "report"
  BY <1>3, LearnedFunded DEF Stays, Typed
<1>4. CASE CancelOrder(saga.order) /\ saga.at = "undo"
  BY <1>4, OrderCancelled DEF Stays, Typed
<1> QED
  BY <1>1, <1>2, <1>3, <1>4, OrdersStep

-----------------------------------------------------------------------------
(* The saga *)

LEMMA SagaKnowsStep ==
  ASSUME Typed, SagaKnows, \A o \in OrderIds : Evidence(o), [Next]_vars
  PROVE  SagaKnows'
<1>1. ASSUME saga' = saga, OrdersKept PROVE SagaKnows'
  <2>1. ~FundsOne
    BY <1>1, GoesOn DEF FundsOne, FundShop, Places
  <2>2. ASSUME saga.at \in {"fund", "report"} PROVE SagaKnows'
    <3>1. saga.order \in OrderIds /\ Kept(saga.order)
      BY <2>1, <2>2, ChainSteps, AllKept DEF Typed
    <3> QED
      BY <1>1, <3>1 DEF SagaKnows, OrdersKept, Kept, Idle
  <2> QED
    BY <1>1, <2>2 DEF SagaKnows
<1>2. ASSUME saga'.at \notin {"fund", "report"} PROVE SagaKnows'
  BY <1>2 DEF SagaKnows
<1>3. ASSUME UNCHANGED <<orders, stock>> PROVE OrdersKept
  BY <1>3 DEF OrdersKept
<1>4. CASE UNCHANGED vars
  BY <1>1, <1>3, <1>4 DEF vars, bridge, merchant
<1>5. CASE Buyer
  <2>1. CASE ApprovePayment
    BY <1>2, <2>1, NoSagaIsSaga DEF ApprovePayment, Sagas
  <2>2. CASE CancelTask \/ \E o \in OrderIds : UserRelease(o)
    BY <1>1, <1>3, <2>2 DEF CancelTask, UserRelease, merchant
  <2> QED
    BY <1>5, <2>1, <2>2 DEF Buyer
<1>6. CASE \E o \in OrderIds : Works(o) \/ DeadlinePasses(o)
  BY <1>1, <1>6, WorkKeepsOrders
<1>7. CASE Faults
  <2>1. CASE OrderLost \/ CrashBridge
    BY <1>2, <2>1, NoSagaIsSaga DEF OrderLost, CrashBridge, BridgeStops
  <2>2. CASE ReportLost \/ UndoLost
    BY <1>2, <2>2, GoesOn DEF ReportLost, UndoLost, Places
  <2>3. CASE CrashMerchant \/ \E o \in OrderIds : ReleaseLost(o) \/ \E j \in Jobs : TellLost(j, o)
    BY <1>1, <1>3, <2>3 DEF CrashMerchant, ReleaseLost, TellLost, bridge, merchant
  <2> QED
    BY <1>7, <2>1, <2>2, <2>3 DEF Faults
<1>8. CASE PlaceOrder
  <2>1. CASE Goes("failed")
    BY <1>2, <2>1, GoesOn DEF Places
  <2>2. CASE /\ CreateOrder(saga.merchant)
             /\ saga' = [saga EXCEPT !.at = "fund", !.order = FreshOrder]
    <3>1. /\ saga'.at = "fund" /\ saga'.order = FreshOrder /\ saga'.shop = saga.shop
      BY <2>2, SagaFacts DEF Sagas
    <3>2. /\ FreshOrder \in OrderIds /\ orders[FreshOrder].state = "none"
          /\ orders'[FreshOrder].state = "awaiting_funding"
          /\ orders'[FreshOrder].shop = saga.shop
      BY <2>2, SagaFacts, Created
    <3>3. escrow'[FreshOrder] = "None"
      BY <1>8, <3>2 DEF Evidence, PlaceOrder, chain
    <3> QED
      BY <3>1, <3>2, <3>3 DEF SagaKnows
  <2> QED
    BY <1>8, <2>1, <2>2 DEF PlaceOrder
<1>9. CASE FundShop
  <2>1. CASE Goes("undo")
    BY <1>2, <2>1, GoesOn DEF Places
  <2>2. CASE Moves(saga.order, "Funded") /\ Goes("report")
    <3>1. /\ saga'.at = "report" /\ saga'.order = saga.order /\ saga'.shop = saga.shop
      BY <2>2, GoesOn DEF Places
    <3>2. saga.order \in OrderIds /\ escrow'[saga.order] = "Funded" /\ orders' = orders
      BY <1>9, <2>2, EscrowMoved DEF FundShop, Typed, EscrowStates, Spent, merchant
    <3> QED
      BY <1>9, <3>1, <3>2 DEF SagaKnows, FundShop
  <2> QED
    BY <1>9, <2>1, <2>2 DEF FundShop
<1>10. CASE ReportFunded \/ DropShop
  BY <1>2, <1>10, GoesToNext DEF ReportFunded, DropShop
<1>11. CASE UndoOrder
  BY <1>2, <1>11, GoesOn DEF UndoOrder, Places
<1>12. CASE TryAlternative
  <2>1. PICK m \in Covers[saga.shop] : Tries(m, TRUE)
    BY <1>12 DEF TryAlternative
  <2>2. m \in Merchants
    BY <2>1, SagaFacts, MockAssumption
  <2> QED
    BY <1>2, <2>1, <2>2, TriesAnother
<1>13. CASE SagaCancel \/ CountFunded
  BY <1>2, <1>13, NoSagaIsSaga DEF SagaCancel, CountFunded
<1> QED
  BY <1>4, <1>5, <1>6, <1>7, <1>8, <1>9, <1>10, <1>11, <1>12, <1>13 DEF Next, Saga

\* When a receipt is made, and of what.
Closes ==
    /\ status = "in_progress" \/ saga.at = "count"
    /\ AllClosed(books') /\ status' = "settled" /\ saga'.at = "idle"
    /\ UNCHANGED <<dropped, escrow>>
    /\ receipts' = Append(receipts, ReceiptOf(books'))

LEMMA Finalized ==
  ASSUME NEW st, MaybeFinalize(st, books'), UNCHANGED <<dropped, escrow>>, saga'.at = "idle",
         st = "in_progress" => status = "in_progress" \/ saga.at = "count"
  PROVE  Closes \/ (status' = st /\ receipts' = receipts)
<1>1. CASE st = "in_progress" /\ AllClosed(books')
  <2>1. status' = "settled" /\ receipts' = Append(receipts, ReceiptOf(books'))
    BY <1>1 DEF MaybeFinalize
  <2>2. dropped' = dropped /\ escrow' = escrow /\ AllClosed(books')
        /\ (status = "in_progress" \/ saga.at = "count")
    BY <1>1
  <2> QED
    BY <2>1, <2>2 DEF Closes
<1>2. CASE ~(st = "in_progress" /\ AllClosed(books'))
  BY <1>2, Zenon DEF MaybeFinalize
<1> QED
  BY <1>1, <1>2

\* Where a step takes the task and the saga.
LEMMA TaskSteps ==
  ASSUME Typed, OneWay, [Next]_vars
  PROVE  \/ Closes
         \/ receipts' = receipts /\ status' = status /\ (saga' = saga \/ saga'.at = "idle")
         \/ receipts' = receipts /\ status' = status /\ saga.at # "idle" /\ Saga
         \/ receipts' = receipts /\ status' = status /\ (ReportLost \/ UndoLost)
         \/ receipts' = receipts /\ status' = "cancelled" /\ (saga' = saga \/ saga'.at = "idle")
         \/ receipts' = receipts /\ saga'.at = "idle" /\ CountFunded
         \/ receipts' = receipts /\ ApprovePayment
<1>1. CASE UNCHANGED vars
  BY <1>1 DEF vars, bridge
<1>2. CASE Buyer
  BY <1>2 DEF Buyer, ApprovePayment, CancelTask, Cancel, UserRelease
<1>3. ASSUME MaybeFinalize(status, books'), UNCHANGED <<dropped, escrow, saga>>
      PROVE  Closes \/ (receipts' = receipts /\ status' = status /\ saga' = saga)
  <2>1. CASE saga.at = "idle"
    <3>1. saga' = saga /\ saga'.at = "idle" /\ UNCHANGED <<dropped, escrow>>
      BY <1>3, <2>1
    <3>2. Closes \/ (status' = status /\ receipts' = receipts)
      BY <1>3, <3>1, Finalized
    <3> QED
      BY <3>1, <3>2
  <2>2. CASE saga.at # "idle"
    <3>1. status # "in_progress"
      BY <2>2 DEF OneWay
    <3> QED
      BY <1>3, <3>1, Zenon DEF MaybeFinalize
  <2> QED
    BY <2>1, <2>2
<1>4. ASSUME NEW o \in OrderIds, Works(o) \/ DeadlinePasses(o)
      PROVE  Closes \/ (receipts' = receipts /\ status' = status /\ saga' = saga)
  <2>1. CASE \/ AutoPrepare(o) \/ MarkReady(o) \/ VerifyPickup(o) \/ ConfirmPickup(o)
             \/ ListOverdue(o) \/ RefundOverdue(o) \/ DeadlinePasses(o)
    BY <2>1 DEF AutoPrepare, MarkReady, VerifyPickup, ConfirmPickup, ListOverdue,
                RefundOverdue, DeadlinePasses, bridge
  <2>2. CASE ReportReleased(o)
    <3>1. MaybeFinalize(status, books') /\ UNCHANGED <<dropped, escrow, saga>>
      BY <2>2, Zenon DEF ReportReleased, chain
    <3> QED
      BY <1>3, <3>1
  <2>3. ASSUME NEW j \in Jobs, Record(j, o)
        PROVE  receipts' = receipts /\ status' = status /\ saga' = saga
    BY <2>3 DEF Record, bridge
  <2>4. ASSUME NEW j \in Jobs, Tell(j, o)
        PROVE  MaybeFinalize(status, books') /\ UNCHANGED <<dropped, escrow, saga>>
    BY <2>4, Zenon DEF Tell, chain
  <2> QED
    BY <1>3, <1>4, <2>1, <2>2, <2>3, <2>4 DEF Works
<1>5. CASE Faults
  <2>1. CASE \E o \in OrderIds : ReleaseLost(o)
    <3>1. MaybeFinalize(status, books') /\ UNCHANGED <<dropped, escrow, saga>>
      BY <2>1, Zenon DEF ReleaseLost, chain
    <3> QED
      BY <1>3, <3>1
  <2>2. CASE OrderLost \/ CrashBridge
    BY <2>2, NoSagaIsSaga DEF OrderLost, CrashBridge, BridgeStops
  <2>3. CASE ReportLost \/ UndoLost
    BY <2>3 DEF ReportLost, UndoLost
  <2>4. CASE CrashMerchant \/ \E o \in OrderIds, j \in Jobs : TellLost(j, o)
    BY <2>4 DEF CrashMerchant, TellLost, bridge
  <2> QED
    BY <1>5, <2>1, <2>2, <2>3, <2>4 DEF Faults
<1>6. CASE CountFunded
  <2>1. saga'.at = "idle" /\ saga.at = "count" /\ UNCHANGED <<dropped, escrow, books>>
    BY <1>6, NoSagaIsSaga DEF CountFunded, chain
  <2>2. CASE \A o \in OrderIds : books[o] \in {"none", "refunded"}
    BY <1>6, <2>1, <2>2 DEF CountFunded
  <2>3. CASE ~\A o \in OrderIds : books[o] \in {"none", "refunded"}
    <3>1. MaybeFinalize("in_progress", books')
      BY <1>6, <2>1, <2>3, Zenon DEF CountFunded
    <3> QED
      BY <1>6, <2>1, <3>1, Finalized
  <2> QED
    BY <2>2, <2>3
<1>7. CASE SagaCancel
  BY <1>7, NoSagaIsSaga DEF SagaCancel, Cancel
<1>8. CASE Saga /\ ~CountFunded /\ ~SagaCancel
  BY <1>8 DEF Saga, PlaceOrder, FundShop, ReportFunded, UndoOrder, TryAlternative, DropShop, GivesUp
<1> QED
  BY <1>1, <1>2, <1>4, <1>5, <1>6, <1>7, <1>8 DEF Next

LEMMA OneWayStep ==
  ASSUME Typed, OneWay, [Next]_vars
  PROVE  OneWay'
<1>1. CASE Closes
  BY <1>1 DEF Closes, OneWay
<1>2. CASE ApprovePayment /\ receipts' = receipts
  BY <1>2 DEF ApprovePayment, OneWay
<1>3. CASE CountFunded /\ receipts' = receipts /\ saga'.at = "idle"
  <2>1. receipts = <<>>
    BY <1>3 DEF CountFunded, OneWay
  <2> QED
    BY <1>3, <2>1 DEF OneWay
<1>4. CASE receipts' = receipts /\ status' = status /\ (ReportLost \/ UndoLost)
  <2>1. saga.at # "idle" /\ receipts = <<>>
    BY <1>4 DEF ReportLost, UndoLost, OneWay
  <2> QED
    BY <1>4, <2>1 DEF OneWay
<1> QED
  BY <1>1, <1>2, <1>3, <1>4, TaskSteps DEF OneWay

\* A shop that was dropped or paid for stays so.
LEMMA HandledStays ==
  ASSUME Typed, SagaKnows, \A o \in OrderIds : Evidence(o), [Next]_vars, NEW s, Handled(s)
  PROVE  Handled(s)'
<1>1. dropped \subseteq dropped'
  <2>1. CASE UNCHANGED vars
    BY <2>1 DEF vars, bridge
  <2>2. CASE Saga
    BY <2>2 DEF Saga, PlaceOrder, FundShop, ReportFunded, UndoOrder, TryAlternative,
                DropShop, SagaCancel, CountFunded
  <2>3. CASE Buyer
    BY <2>3 DEF Buyer, ApprovePayment, CancelTask, UserRelease
  <2>4. CASE Faults
    BY <2>4 DEF Faults, OrderLost, ReportLost, UndoLost, CrashBridge, CrashMerchant,
                ReleaseLost, TellLost, BridgeStops, bridge
  <2>5. ASSUME NEW o \in OrderIds, Works(o) \/ DeadlinePasses(o) PROVE dropped \subseteq dropped'
    BY <2>5 DEF Works, AutoPrepare, MarkReady, VerifyPickup, ConfirmPickup, ListOverdue,
                RefundOverdue, ReportReleased, Record, Tell, DeadlinePasses, bridge
  <2> QED
    BY <2>1, <2>2, <2>3, <2>4, <2>5 DEF Next
<1>2. ASSUME NEW o \in OrderIds, escrow[o] # "None"
      PROVE  escrow'[o] # "None" /\ orders'[o].shop = orders[o].shop
  <2>1. orders[o].state # "none"
    BY <1>2 DEF Evidence
  <2>2. orders'[o].shop = orders[o].shop
    BY <2>1, AllStay DEF Stays
  <2>3. CASE FundsOne
    BY <1>2, <2>2, <2>3, FundKept DEF Kept
  <2>4. CASE ~FundsOne
    BY <1>2, <2>2, <2>4, ChainSteps, AllKept DEF Kept
  <2> QED
    BY <2>3, <2>4
<1> QED
  BY <1>1, <1>2 DEF Handled

LEMMA NoneSkippedStep ==
  ASSUME Typed, SagaKnows, OneWay, NoneSkipped, \A o \in OrderIds : Evidence(o), [Next]_vars
  PROVE  NoneSkipped'
<1>1. (Essential \cap dropped = {})'
  <2>1. CASE UNCHANGED vars
    BY <2>1 DEF vars, bridge, NoneSkipped
  <2>2. CASE Saga
    BY <2>2 DEF Saga, PlaceOrder, FundShop, ReportFunded, UndoOrder, TryAlternative,
                DropShop, SagaCancel, CountFunded, NoneSkipped
  <2>3. CASE Buyer
    BY <2>3 DEF Buyer, ApprovePayment, CancelTask, UserRelease, NoneSkipped
  <2>4. CASE Faults
    BY <2>4 DEF Faults, OrderLost, ReportLost, UndoLost, CrashBridge, CrashMerchant,
                ReleaseLost, TellLost, BridgeStops, bridge, NoneSkipped
  <2>5. ASSUME NEW o \in OrderIds, Works(o) \/ DeadlinePasses(o)
        PROVE  (Essential \cap dropped = {})'
    BY <2>5 DEF Works, AutoPrepare, MarkReady, VerifyPickup, ConfirmPickup, ListOverdue,
                RefundOverdue, ReportReleased, Record, Tell, DeadlinePasses, bridge, NoneSkipped
  <2> QED
    BY <2>1, <2>2, <2>3, <2>4, <2>5 DEF Next
<1>2. \A s \in Shops : Handled(s) => Handled(s)'
  BY HandledStays
<1>3. ASSUME saga'.at \notin {"idle", "count"} => saga.at \notin {"idle", "count"} /\ saga'.shop = saga.shop,
             saga'.at = "count" \/ status' = "in_progress" =>
                 saga.at = "count" \/ status = "in_progress"
      PROVE  NoneSkipped'
  BY <1>1, <1>2, <1>3 DEF NoneSkipped
<1>4. CASE Closes
  BY <1>1, <1>4 DEF Closes, NoneSkipped
<1>5. CASE /\ status' \in {status, "cancelled"}
           /\ saga' = saga \/ saga'.at = "idle"
  BY <1>3, <1>5
<1>6. CASE CountFunded /\ saga'.at = "idle"
  BY <1>3, <1>6 DEF CountFunded
<1>7. CASE ApprovePayment
  <2>1. saga'.at = "order" /\ saga'.shop = 1 /\ status' = "funding"
    BY <1>7, NoSagaIsSaga DEF ApprovePayment, Sagas
  <2>2. \A s \in Shops : ~(s < 1)
    BY DEF Shops
  <2> QED
    BY <1>1, <2>1, <2>2 DEF NoneSkipped
<1>8. CASE status' = status /\ (ReportLost \/ UndoLost)
  <2>1. saga.at \in {"report", "undo"} /\ saga'.at \in {"undo", "failed"} /\ saga'.shop = saga.shop
    BY <1>8, GoesOn DEF ReportLost, UndoLost, Places
  <2> QED
    BY <1>3, <1>8, <2>1
<1>9. CASE Saga /\ status' = status
  <2>0. ASSUME saga.at \notin {"idle", "count"}, saga'.at # "count", saga'.shop = saga.shop
        PROVE  NoneSkipped'
    BY <1>3, <1>9, <2>0
  <2>1. CASE PlaceOrder
    <3>1. saga'.at \in {"fund", "failed"} /\ saga'.shop = saga.shop
      BY <2>1, SagaFacts DEF PlaceOrder, Goes, Sagas
    <3> QED
      BY <2>0, <2>1, <3>1 DEF PlaceOrder
  <2>2. CASE FundShop
    <3>1. saga'.at \in {"undo", "report"} /\ saga'.shop = saga.shop
      BY <2>2, GoesOn DEF FundShop, Places
    <3> QED
      BY <2>0, <2>2, <3>1 DEF FundShop
  <2>3. CASE UndoOrder
    <3>1. saga'.at = "failed" /\ saga'.shop = saga.shop
      BY <2>3, GoesOn DEF UndoOrder, Places
    <3> QED
      BY <2>0, <2>3, <3>1 DEF UndoOrder
  <2>4. CASE TryAlternative
    <3>1. PICK m \in Covers[saga.shop] : Tries(m, TRUE)
      BY <2>4 DEF TryAlternative
    <3>2. m \in Merchants
      BY <3>1, SagaFacts, MockAssumption
    <3>3. saga'.at = "order" /\ saga'.shop = saga.shop
      BY <3>1, <3>2, TriesAnother
    <3> QED
      BY <2>0, <2>4, <3>3 DEF TryAlternative
  <2>5. ASSUME NextShop, NEW here \in Shops, here = saga.shop, Handled(here)', saga.at \in {"report", "failed"} PROVE NoneSkipped'
    <3>1. \A s \in Shops : s < saga.shop => Handled(s)'
      BY <1>2, <2>5 DEF NoneSkipped
    <3>2. \A s \in Shops : s \in Nat /\ s <= Len(Plan)
      BY PlanFacts
    <3>3. saga.shop \in Nat /\ Len(Plan) \in Nat
      BY SagaFacts, PlanFacts
    <3>4. \A s \in Shops : s <= saga.shop => Handled(s)'
      <4>1. TAKE s \in Shops
      <4>2. HAVE s <= saga.shop
      <4>3. s < saga.shop \/ s = saga.shop
        BY <3>2, <3>3, <4>2
      <4> QED
        BY <2>5, <3>1, <4>3
    <3>5. CASE saga.shop = Len(Plan) /\ saga'.at = "count"
      <4>1. \A s \in Shops : Handled(s)'
        BY <3>2, <3>4, <3>5
      <4> QED
        BY <1>1, <3>5, <4>1 DEF NoneSkipped
    <3>6. CASE saga'.at = "order" /\ saga'.shop = saga.shop + 1
      <4>1. \A s \in Shops : s < saga'.shop => Handled(s)'
        BY <3>2, <3>3, <3>4, <3>6
      <4>2. status' # "in_progress"
        BY <1>9, <2>5 DEF OneWay
      <4> QED
        BY <1>1, <3>6, <4>1, <4>2 DEF NoneSkipped
    <3> QED
      BY <2>5, <3>5, <3>6, GoesToNext
  <2>6. CASE ReportFunded
    <3>1. saga.at = "report" /\ saga.order \in OrderIds /\ escrow[saga.order] # "None"
          /\ orders[saga.order].shop = saga.shop
      BY <2>6 DEF ReportFunded, Typed, SagaKnows
    <3>2. saga.shop \in Shops /\ Handled(saga.shop)
      BY <3>1, SagaFacts DEF Handled
    <3>3. \E here \in Shops : here = saga.shop /\ Handled(here)'
      BY <1>2, <3>2
    <3> QED
      BY <2>5, <2>6, <3>1, <3>3 DEF ReportFunded
  <2>7. CASE DropShop
    <3>1. saga.shop \in Shops /\ saga.shop \in dropped'
      BY <2>7, SagaFacts DEF DropShop
    <3>2. \E here \in Shops : here = saga.shop /\ Handled(here)'
      BY <3>1 DEF Handled
    <3> QED
      BY <2>5, <2>7, <3>2 DEF DropShop, GivesUp
  <2>8. CASE SagaCancel \/ CountFunded
    BY <1>5, <1>9, <2>8, NoSagaIsSaga DEF SagaCancel, CountFunded
  <2> QED
    BY <1>9, <2>1, <2>2, <2>3, <2>4, <2>6, <2>7, <2>8 DEF Saga
<1> QED
  BY <1>4, <1>5, <1>6, <1>7, <1>8, <1>9, TaskSteps

-----------------------------------------------------------------------------
(* The shelves *)

LEMMA TakenFacts ==
  ASSUME NEW m
  PROVE  Taken(m) \in SUBSET OrderIds /\ IsFiniteSet(Taken(m)) /\ Cardinality(Taken(m)) \in Nat
BY IdFacts DEF Taken

\* Every step keeps the sum of the shelves and the units taken.
LEMMA StockStep ==
  ASSUME Typed, StockAddsUp, [Next]_vars, NEW n \in Merchants
  PROVE  stock'[n] = Stock[n] - Cardinality(Taken(n)')
<1>1. /\ Stock[n] \in Nat /\ stock[n] \in Nat /\ Cardinality(Taken(n)) \in Nat
      /\ stock[n] = Stock[n] - Cardinality(Taken(n))
  BY MockAssumption, TakenFacts DEF StockAddsUp, Typed
<1>2. ASSUME \A o \in OrderIds : o \in Taken(n)' <=> o \in Taken(n), stock'[n] = stock[n]
      PROVE  stock'[n] = Stock[n] - Cardinality(Taken(n)')
  <2>1. Taken(n)' = Taken(n)
    BY <1>2 DEF Taken
  <2> QED
    BY <1>1, <1>2, <2>1
<1>3. CASE OrdersKept
  BY <1>2, <1>3 DEF OrdersKept, Taken, Idle
<1>4. CASE CreateOrder(saga.merchant)
  <2> DEFINE m == saga.merchant
             o == FreshOrder
  <2>1. /\ m \in Merchants /\ o \in OrderIds /\ orders[o].state = "none"
        /\ orders'[o].state = "awaiting_funding" /\ orders'[o].merchant = m
        /\ \A p \in OrderIds : p # o => orders'[p] = orders[p]
        /\ stock'[m] = stock[m] - 1
        /\ n # m => stock'[n] = stock[n]
    BY <1>4, SagaFacts, Created
  <2> HIDE DEF m, o
  <2>2. CASE n # m
    BY <1>2, <2>1, <2>2 DEF Taken
  <2>3. CASE n = m
    <3>1. Taken(n)' = Taken(n) \cup {o} /\ o \notin Taken(n)
      BY <2>1, <2>3 DEF Taken
    <3>2. Cardinality(Taken(n) \cup {o}) = Cardinality(Taken(n)) + 1
      BY <3>1, TakenFacts, FS_AddElement
    <3> QED
      BY <1>1, <2>1, <2>3, <3>1, <3>2
  <2> QED
    BY <2>2, <2>3
<1>5. CASE LearnFunded(saga.order) /\ saga.at = "report"
  <2>1. saga.order \in OrderIds
    BY <1>5 DEF Typed
  <2>2. /\ stock' = stock
        /\ \A p \in OrderIds : orders'[p].merchant = orders[p].merchant
        /\ \A p \in OrderIds : \/ orders'[p].state = orders[p].state
                               \/ orders[p].state = "awaiting_funding"
                                  /\ orders'[p].state = "paid_in_escrow"
    BY <1>5, <2>1, LearnedFunded
  <2> QED
    BY <1>2, <2>2 DEF Taken
<1>6. CASE CancelOrder(saga.order) /\ saga.at = "undo"
  <2> DEFINE o == saga.order
             m == orders[o].merchant
  <2>1. o \in OrderIds /\ m \in Merchants
    BY <1>6 DEF Typed, Rows
  <2>2. CASE UNCHANGED <<orders, stock>>
    BY <1>2, <2>2 DEF Taken
  <2>3. CASE /\ orders[o].state = "awaiting_funding" /\ orders'[o].state = "cancelled"
             /\ stock' = [stock EXCEPT ![m] = @ + 1]
    <3>1. \A p \in OrderIds : /\ p # o => orders'[p] = orders[p]
                              /\ orders'[p].merchant = orders[p].merchant
      BY <1>6, <2>1, OrderCancelled
    <3>2. stock'[m] = stock[m] + 1 /\ (n # m => stock'[n] = stock[n])
      BY <2>1, <2>3 DEF Typed
    <3>3. /\ orders[o].merchant = m /\ orders'[o].merchant = m
          /\ orders[o].state = "awaiting_funding" /\ orders'[o].state = "cancelled"
      BY <2>1, <2>3, <3>1
    <3> HIDE DEF m, o
    <3>4. CASE n # m
      BY <1>2, <3>1, <3>2, <3>3, <3>4 DEF Taken
    <3>5. CASE n = m
      <4>1. Taken(n)' = Taken(n) \ {o} /\ o \in Taken(n)
        BY <2>1, <3>1, <3>3, <3>5 DEF Taken
      <4>2. Cardinality(Taken(n) \ {o}) = Cardinality(Taken(n)) - 1
        BY <4>1, TakenFacts, FS_RemoveElement
      <4> QED
        BY <1>1, <3>2, <3>5, <4>1, <4>2
    <3> QED
      BY <3>4, <3>5
  <2> QED
    BY <1>6, <2>1, <2>2, <2>3, OrderCancelled
<1> QED
  BY <1>3, <1>4, <1>5, <1>6, OrdersStep

-----------------------------------------------------------------------------
(* The receipt *)

\* The books that close a task tell of every escrow, and every shop has a line.
LEMMA ClosingIsTrue ==
  ASSUME Typed, Typed', OneWay, NoneSkipped, \A o \in OrderIds : Evidence(o),
         \A o \in OrderIds : Evidence(o)', \A o \in OrderIds : Stays(o), Closes
  PROVE  ReceiptIsTrue'
<1> DEFINE r == ReceiptOf(books')
<1>1. receipts = <<>>
  BY DEF Closes, OneWay
<1>2. receipts' = <<r>>
  <2>1. receipts' = Append(<<>>, r)
    BY <1>1, Zenon DEF Closes
  <2> QED
    BY <2>1
<1>3. \A o \in OrderIds : books'[o] \in {"none", "completed", "refunded"}
  BY DEF Closes, AllClosed
<1>4. \A o \in OrderIds : /\ books'[o] = "completed" <=> escrow'[o] = "Released"
                          /\ books'[o] = "refunded" <=> escrow'[o] = "Refunded"
                          /\ escrow'[o] \in {"None", "Released", "Refunded"}
  BY <1>3 DEF Evidence
<1>5. escrow' = escrow /\ dropped' = dropped
  BY DEF Closes
<1>6. /\ r.completed = {o \in OrderIds : escrow'[o] = "Released"}
      /\ r.refunded = {o \in OrderIds : escrow'[o] = "Refunded"}
      /\ r.dropped = dropped
  BY <1>4 DEF ReceiptOf
<1> HIDE DEF r
<1>7. \A o \in OrderIds : ~Holds(o)'
  BY <1>4 DEF Holds, Settled
<1>8. Essential \cap r.dropped = {}
  BY <1>6 DEF NoneSkipped
<1>9. Shops = r.dropped \cup {orders'[o].shop : o \in r.completed \cup r.refunded}
  <2>1. r.dropped \subseteq Shops
    BY <1>6 DEF Typed
  <2>2. \A o \in OrderIds : orders'[o].shop \in Shops
    BY DEF Typed, Rows
  <2>3. \A s \in Shops : Handled(s)
    BY DEF Closes, NoneSkipped
  <2>4. ASSUME NEW o \in OrderIds, escrow[o] # "None"
        PROVE  o \in r.completed \cup r.refunded /\ orders'[o].shop = orders[o].shop
    <3>1. o \in r.completed \cup r.refunded
      BY <1>4, <1>5, <1>6, <2>4
    <3>2. orders'[o].shop = orders[o].shop
      BY <2>4 DEF Evidence, Stays
    <3> QED
      BY <3>1, <3>2
  <2>5. \A s \in Shops : s \in r.dropped \/ \E o \in r.completed \cup r.refunded :
                                               orders'[o].shop = s
    BY <1>6, <2>3, <2>4 DEF Handled
  <2>6. r.completed \cup r.refunded \subseteq OrderIds
    BY <1>6
  <2> QED
    BY <2>1, <2>2, <2>5, <2>6
<1>10. Len(receipts') = 1 /\ \A i \in DOMAIN receipts' : receipts'[i] = r
  BY <1>2
<1> QED
  BY <1>6, <1>7, <1>8, <1>9, <1>10 DEF ReceiptIsTrue

\* A receipt once made stays true.
LEMMA ReceiptStaysTrue ==
  ASSUME Typed, OneWay, ReceiptIsTrue, \A o \in OrderIds : Evidence(o),
         \A o \in OrderIds : Stays(o), Advances \/ RefundsHeld \/ FundsOne,
         receipts' = receipts
  PROVE  ReceiptIsTrue'
<1>1. CASE receipts = <<>>
  BY <1>1 DEF ReceiptIsTrue
<1>2. CASE receipts # <<>>
  <2>1. PICK i : i \in DOMAIN receipts
    <3>1. receipts \in Seq(Receipts)
      BY DEF Typed
    <3>2. Len(receipts) \in Nat \ {0}
      BY <1>2, <3>1, EmptySeq
    <3>3. 1 \in DOMAIN receipts
      BY <3>1, <3>2, LenProperties
    <3> QED
      BY <3>3
  <2>2. \A o \in OrderIds : ~Holds(o)
    BY <2>1 DEF ReceiptIsTrue
  <2>3. ~FundsOne
    BY <1>2 DEF OneWay, FundsOne
  <2>4. \A o \in OrderIds : escrow'[o] = escrow[o]
    <3>1. CASE Advances
      BY <2>2, <3>1 DEF Advances
    <3>2. CASE RefundsHeld
      <4>1. PICK S \in SUBSET OrderIds : (\A o \in S : Holds(o)) /\ RefundAll(S)
        BY <3>2 DEF RefundsHeld
      <4> QED
        BY <2>2, <4>1, Refunds
    <3> QED
      BY <2>3, <3>1, <3>2
  <2>5. \A o \in OrderIds : ~Holds(o)'
    BY <2>2, <2>4 DEF Holds
  <2>6. ASSUME NEW k \in DOMAIN receipts'
        PROVE  LET r == receipts'[k] IN
                 /\ r.completed = {o \in OrderIds : escrow'[o] = "Released"}
                 /\ r.refunded = {o \in OrderIds : escrow'[o] = "Refunded"}
                 /\ Shops = r.dropped \cup {orders'[o].shop : o \in r.completed \cup r.refunded}
                 /\ Essential \cap r.dropped = {}
    <3> DEFINE r == receipts[k]
    <3>1. /\ r.completed = {o \in OrderIds : escrow[o] = "Released"}
          /\ r.refunded = {o \in OrderIds : escrow[o] = "Refunded"}
          /\ Shops = r.dropped \cup {orders[o].shop : o \in r.completed \cup r.refunded}
          /\ Essential \cap r.dropped = {}
      BY <2>6 DEF ReceiptIsTrue
    <3>2. receipts'[k] = r
      OBVIOUS
    <3> HIDE DEF r
    <3>3. \A o \in r.completed \cup r.refunded : orders'[o].shop = orders[o].shop
      <4>1. \A o \in r.completed \cup r.refunded : o \in OrderIds /\ escrow[o] # "None"
        BY <3>1
      <4> QED
        BY <4>1 DEF Evidence, Stays
    <3>4. {orders'[o].shop : o \in r.completed \cup r.refunded}
             = {orders[o].shop : o \in r.completed \cup r.refunded}
      BY <3>3
    <3>5. /\ r.completed = {o \in OrderIds : escrow'[o] = "Released"}
          /\ r.refunded = {o \in OrderIds : escrow'[o] = "Refunded"}
      BY <2>4, <3>1
    <3> QED
      BY <3>1, <3>2, <3>4, <3>5
  <2>7. Len(receipts') <= 1
    BY DEF ReceiptIsTrue
  <2> QED
    BY <2>5, <2>6, <2>7 DEF ReceiptIsTrue
<1> QED
  BY <1>1, <1>2

-----------------------------------------------------------------------------
(* The inductive invariant and the theorems *)

IInv ==
    /\ Typed /\ SagaKnows /\ OneWay /\ NoneSkipped
    /\ \A o \in OrderIds : Evidence(o)
    /\ MoneyAddsUp /\ StockAddsUp
    /\ ReceiptIsTrue

LEMMA InitInv == Init => IInv
<1> SUFFICES ASSUME Init PROVE IInv
  OBVIOUS
<1>1. Typed
  BY InitTyped
<1>2. /\ saga.at = "idle" /\ status = "awaiting_approval" /\ receipts = <<>> /\ dropped = {}
      /\ releasing = {} /\ stock = Stock /\ balance = Balance
      /\ \A o \in OrderIds : /\ books[o] = "none" /\ escrow[o] = "None"
                             /\ orders[o].state = "none"
                             /\ \A j \in Jobs : Stage(j, o) = "idle"
  BY NoSagaIsSaga DEF Init, NoRow, Stage
<1>3. SagaKnows /\ OneWay /\ NoneSkipped
  BY <1>2 DEF SagaKnows, OneWay, NoneSkipped
<1>4. \A o \in OrderIds : Evidence(o)
  BY <1>2 DEF Evidence
<1>5. MoneyAddsUp
  <2>1. Away = {}
    BY <1>2 DEF Away, Spent
  <2> QED
    BY <1>2, <2>1, FS_EmptySet, MockAssumption DEF MoneyAddsUp
<1>6. StockAddsUp
  <2>1. \A m \in Merchants : Taken(m) = {} /\ Stock[m] \in Nat
    BY <1>2, MockAssumption DEF Taken
  <2>2. \A m \in Merchants : stock[m] = Stock[m] /\ Cardinality(Taken(m)) = 0
    BY <1>2, <2>1, FS_EmptySet
  <2> QED
    BY <2>1, <2>2 DEF StockAddsUp
<1>7. ReceiptIsTrue
  BY <1>2 DEF ReceiptIsTrue
<1> QED
  BY <1>1, <1>3, <1>4, <1>5, <1>6, <1>7 DEF IInv

LEMMA InvStep == IInv /\ [Next]_vars => IInv'
<1> SUFFICES ASSUME IInv, [Next]_vars PROVE IInv'
  OBVIOUS
<1> USE DEF IInv
<1>1. Typed'
  BY StepTyped
<1>2. SagaKnows' /\ OneWay' /\ NoneSkipped'
  BY SagaKnowsStep, OneWayStep, NoneSkippedStep
<1>3. \A o \in OrderIds : Evidence(o)'
  BY EvidenceStep
<1>4. MoneyAddsUp'
  BY MoneyStep
<1>5. StockAddsUp'
  BY StockStep DEF StockAddsUp
<1>6. ReceiptIsTrue'
  <2>1. \A o \in OrderIds : Stays(o)
    BY AllStay
  <2>2. CASE Closes
    BY <1>1, <1>3, <2>1, <2>2, ClosingIsTrue
  <2>3. CASE receipts' = receipts
    BY <2>1, <2>3, ChainSteps, ReceiptStaysTrue
  <2> QED
    BY <2>2, <2>3, TaskSteps
<1> QED
  BY <1>1, <1>2, <1>3, <1>4, <1>5, <1>6

\* The books, the orders, every job under way, the wallet, the shelves and the
\* receipt agree with the chain in every reachable state.
THEOREM Inductive == Spec => []IInv
BY InitInv, InvStep, PTL DEF Spec

\* Neither database runs ahead of the chain (the bridge's handleOrderEvent and the
\* merchant's transitions write what a chain call has already done).
THEOREM BooksNeverRunAhead == Spec => []BooksFollowChain
<1>1. IInv => BooksFollowChain
  BY DEF IInv, Evidence, BooksFollowChain
<1> QED
  BY <1>1, Inductive, PTL

\* maybeFinalize makes one receipt at most, over an empty escrow and with a line
\* for every shop, and nothing later makes it untrue.
THEOREM ReceiptTellsTheTruth == Spec => []ReceiptIsTrue
<1>1. IInv => ReceiptIsTrue
  BY DEF IInv
<1> QED
  BY <1>1, Inductive, PTL

\* No price is lost or paid twice between the wallet and the escrows, and no unit
\* between the shelves and the orders, whatever fails and whatever races.
THEOREM WalletAndShelvesAddUp == Spec => []MoneyAndStockAddUp
<1>1. ASSUME IInv PROVE MoneyAndStockAddUp
  <2>1. TypeOK
    <3>1. balance \in 0 .. Balance
      BY <1>1, AwayFacts, MockAssumption DEF IInv, Typed, MoneyAddsUp
    <3>2. orders \in [OrderIds -> [state : DOMAIN Transitions, shop : Shops,
                                   merchant : Merchants]]
      <4>1. DOMAIN Transitions = OrderStates
        BY DEF Transitions, OrderStates
      <4> QED
        BY <1>1, <4>1 DEF IInv, Typed, Rows
    <3>3. saga.at \in Places
      BY <1>1, SagaFacts DEF IInv
    <3> QED
      BY <1>1, <3>1, <3>2, <3>3 DEF IInv, Typed, TypeOK, EscrowStates, Places
  <2>2. balance = Balance - Cardinality({o \in OrderIds : escrow[o] \in Spent})
    BY <1>1 DEF IInv, MoneyAddsUp, Away
  <2>3. \A m \in Merchants : stock[m] = Stock[m] - Cardinality(Taken(m))
    BY <1>1 DEF IInv, StockAddsUp
  <2> QED
    BY <2>1, <2>2, <2>3 DEF MoneyAndStockAddUp, Taken
<1> QED
  BY <1>1, Inductive, PTL

-----------------------------------------------------------------------------
(* Each escrow of the mock chain lives as EscrowLife says *)

OneEscrow(o) == [i \in {o} |-> escrow[o]]

Life(o) == INSTANCE EscrowLife WITH Ids <- {o}, life <- OneEscrow(o)

LEMMA MovesRefine ==
  ASSUME NEW o \in OrderIds,
         \/ escrow[o] = "None" /\ escrow'[o] = "Funded"
         \/ escrow[o] = "Funded" /\ escrow'[o] = "Preparing"
         \/ escrow[o] = "Preparing" /\ escrow'[o] = "Ready"
         \/ /\ escrow[o] \in {"Funded", "Preparing", "Ready"}
            /\ escrow'[o] \in {"Released", "Refunded"}
  PROVE  Life(o)!Next
<1>1. \A s : [OneEscrow(o) EXCEPT ![o] = s] = [i \in {o} |-> s]
  BY DEF OneEscrow
<1>2. OneEscrow(o)[o] = escrow[o] /\ OneEscrow(o)' = [OneEscrow(o) EXCEPT ![o] = escrow'[o]]
  BY DEF OneEscrow
<1>3. ASSUME NEW from, NEW to, escrow[o] \in from, escrow'[o] = to
      PROVE  Life(o)!Becomes(o, from, to)
  BY <1>2, <1>3 DEF Life!Becomes
<1>4. CASE escrow[o] = "None" /\ escrow'[o] = "Funded"
  <2>1. Life(o)!Becomes(o, {"None"}, "Funded")
    BY <1>3, <1>4
  <2>2. ~(o < o)
    BY IdFacts
  <2> QED
    BY <2>1, <2>2 DEF Life!Next, Life!Create
<1>5. CASE \/ escrow[o] = "Funded" /\ escrow'[o] = "Preparing"
           \/ escrow[o] = "Preparing" /\ escrow'[o] = "Ready"
  <2>1. \/ Life(o)!Becomes(o, {"Funded"}, "Preparing")
        \/ Life(o)!Becomes(o, {"Preparing"}, "Ready")
    BY <1>3, <1>5
  <2> QED
    BY <2>1 DEF Life!Next, Life!Advance
<1>6. CASE /\ escrow[o] \in {"Funded", "Preparing", "Ready"}
           /\ escrow'[o] \in {"Released", "Refunded"}
  <2>1. \/ Life(o)!Becomes(o, {"Funded", "Preparing", "Ready", "Disputed"}, "Released")
        \/ Life(o)!Becomes(o, {"Funded", "Preparing", "Ready", "Disputed"}, "Refunded")
    BY <1>3, <1>6
  <2> QED
    BY <2>1 DEF Life!Next, Life!Settle
<1> QED
  BY <1>4, <1>5, <1>6

\* The checks of the mock chain's fund, mark, confirm, release and refund are enough:
\* taken alone, each of its escrows obeys the life cycle that the escrow program is
\* proved to obey. (Together they do not: a cancelled task refunds several at once.)
THEOREM EachEscrowLives ==
  ASSUME NEW o \in OrderIds
  PROVE  Spec => Life(o)!Spec
<1>1. Init => Life(o)!Init
  BY DEF Init, OneEscrow, Life!Init
<1>2. IInv /\ [Next]_vars => [Life(o)!Next]_(OneEscrow(o))
  <2> SUFFICES ASSUME IInv, [Next]_vars
               PROVE  Life(o)!Next \/ OneEscrow(o)' = OneEscrow(o)
    OBVIOUS
  <2>1. escrow[o] \in EscrowStates
    BY DEF IInv, Typed
  <2>2. CASE escrow'[o] = escrow[o]
    BY <2>2 DEF OneEscrow
  <2>3. CASE Advances
    BY <2>1, <2>2, <2>3, MovesRefine DEF Advances, Holds, Settled, EscrowStates, Spent
  <2>4. CASE RefundsHeld
    <3>1. PICK S \in SUBSET OrderIds : (\A p \in S : Holds(p)) /\ RefundAll(S)
      BY <2>4 DEF RefundsHeld
    <3>2. escrow'[o] = IF o \in S THEN "Refunded" ELSE escrow[o]
      BY <3>1 DEF RefundAll
    <3> QED
      BY <2>1, <2>2, <3>1, <3>2, MovesRefine DEF Holds, Settled, EscrowStates, Spent
  <2>5. CASE FundsOne
    <3>1. escrow'[o] = escrow[o] \/ (escrow[o] = "None" /\ escrow'[o] = "Funded")
      BY <2>5, EscrowMoved, FundKept DEF FundsOne, IInv, EscrowStates, Spent
    <3> QED
      BY <2>2, <3>1, MovesRefine
  <2> QED
    BY <2>3, <2>4, <2>5, ChainSteps DEF IInv
<1> QED
  BY <1>1, <1>2, Inductive, PTL DEF Spec, Life!Spec
=============================================================================
