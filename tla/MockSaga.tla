------------------------------ MODULE MockSaga ------------------------------
(***************************************************************************)
(* One task without Postgres: the bridge funds every shop itself from its  *)
(* session wallet, out of its own mock chain, and runs the saga            *)
(* (alternative, drop, cancel) when a shop cannot be funded.  The merchant *)
(* service keeps its own orders and stock, prepares on timers, settles     *)
(* with the pickup code and refunds overdue orders; it tells the bridge    *)
(* each new state, once, over HTTP.                                        *)
(*                                                                         *)
(* What a program does between two awaits is one action; the mock chain    *)
(* answers in the bridge's process, so what the bridge does to the chain   *)
(* and to its own tables next is one action too.  An order is one unit of  *)
(* one item at price 1.                                                    *)
(***************************************************************************)
EXTENDS Integers, Sequences, FiniteSets

CONSTANTS
    Merchants,
    Plan,            \* the chosen option: the merchant of each shop, in order
    Essential,       \* the positions in Plan of the essential shops
    Covers,          \* for each position, the merchants whose quotes cover it
    Stock,           \* each merchant's units at the start
    Balance,         \* the session wallet at the start
    FailSlugs,       \* DEMO_FAIL_SHOP: funding these merchants reverts
    NeverPrepares,   \* DEMO_PREP_TIMEOUT: these merchants never prepare
    MaxOrders,       \* bound: orders ever created
    MaxFailures      \* bound: lost messages and crashes together

Shops == 1 .. Len(Plan)
OrderIds == 1 .. MaxOrders
NoOrder == 0

ASSUME MockAssumption ==
    /\ Plan \in Seq(Merchants) /\ Plan # <<>>
    /\ Essential \subseteq Shops
    /\ Covers \in [Shops -> SUBSET Merchants]
    /\ Stock \in [Merchants -> Nat]
    /\ Balance \in Nat
    /\ MaxOrders \in Nat /\ MaxFailures \in Nat

VARIABLES
    status,     \* tasks.status at the bridge
    saga,       \* where approvePayment stands: [at, shop, merchant, alt, order]
    dropped,    \* the shops in dropped_shops
    books,      \* the bridge's task_orders.state
    receipts,   \* the receipts created for the task
    escrow,     \* the mock chain: the escrow of each order
    balance,    \* the session wallet on the mock chain
    orders,     \* the merchants' orders: [state, shop, merchant]
    stock,      \* each merchant's units on the shelf
    overdue,    \* the orders whose release_deadline has passed
    timers,     \* the orders with an auto-prepare timer pending
    runs,       \* where each merchant job stands, by job and order
    releasing,  \* the orders whose release webhook is under way
    failures

bridge == <<status, saga, dropped, books, receipts, releasing>>
chain == <<escrow, balance>>
merchant == <<orders, stock, timers, runs>>
world == <<overdue, failures>>
vars == <<bridge, chain, merchant, world>>

Jobs == {"prepare", "ready", "pickup", "refund"}
NoSaga == [at |-> "idle", shop |-> 1, merchant |-> Plan[1], alt |-> FALSE,
           order |-> NoOrder]
NoRow == [state |-> "none", shop |-> 1, merchant |-> Plan[1]]

Init ==
    /\ status = "awaiting_approval"
    /\ saga = NoSaga
    /\ dropped = {}
    /\ books = [o \in OrderIds |-> "none"]
    /\ receipts = <<>>
    /\ escrow = [o \in OrderIds |-> "None"]
    /\ balance = Balance
    /\ orders = [o \in OrderIds |-> NoRow]
    /\ stock = Stock
    /\ overdue = {}
    /\ timers = {}
    /\ runs = [j \in Jobs \X OrderIds |-> "idle"]
    /\ releasing = {}
    /\ failures = 0

-----------------------------------------------------------------------------
(***************************************************************************)
(* The mock chain: each operation with the check it throws on.             *)
(***************************************************************************)
Settled == {"Released", "Refunded"}

Holds(o) == escrow[o] \notin Settled \cup {"None"}

\* Mutant of MayRefund: the check for a settled escrow is missing.
MayRefundSettled(o) == escrow[o] = "Funded" \/ o \in overdue

MayRefund(o) == Holds(o) /\ (escrow[o] = "Funded" \/ o \in overdue)

Moves(o, to) == escrow' = [escrow EXCEPT ![o] = to]

\* Refunds a set of escrows, each one's price back to the wallet.
RefundAll(S) ==
    /\ escrow' = [o \in OrderIds |-> IF o \in S THEN "Refunded" ELSE escrow[o]]
    /\ balance' = balance + Cardinality(S)

-----------------------------------------------------------------------------
(***************************************************************************)
(* The bridge's ends of a task.                                            *)
(***************************************************************************)
\* Mutant of AllClosed: an order waiting for its pickup counts as closed.
NothingInTheWorks(b) ==
    \A o \in OrderIds : b[o] \in {"none", "ready", "completed", "refunded"}

\* The task's orders are all closed by the books b.
AllClosed(b) == \A o \in OrderIds : b[o] \in {"none", "completed", "refunded"}

\* finalize: the receipt the books b give, one line for each order and each
\* dropped shop; an order's line names the shop it was for.
ReceiptOf(b) ==
    [completed |-> {o \in OrderIds : b[o] = "completed"},
     refunded |-> {o \in OrderIds : b[o] = "refunded"},
     dropped |-> dropped]

\* maybeFinalize, the task being in status st with the books b.
MaybeFinalize(st, b) ==
    IF st = "in_progress" /\ AllClosed(b)
    THEN status' = "settled" /\ receipts' = Append(receipts, ReceiptOf(b))
    ELSE status' = st /\ UNCHANGED receipts

\* cancelTask: refunds whatever the chain allows, whatever the task's status.
Cancel ==
    LET S == {o \in OrderIds : books[o] \in {"paid_in_escrow", "preparing", "ready"}
                               /\ MayRefund(o)}
    IN  /\ RefundAll(S)
        /\ books' = [o \in OrderIds |-> IF o \in S THEN "refunded" ELSE books[o]]
        /\ status' = "cancelled"

-----------------------------------------------------------------------------
(***************************************************************************)
(* approvePayment, one shop after the other.                               *)
(***************************************************************************)
Goes(at) == saga' = [saga EXCEPT !.at = at]

Tries(m, alt) == saga' = [saga EXCEPT !.at = "order", !.merchant = m, !.alt = alt,
                                      !.order = NoOrder]

\* On to the next shop, or to the count that ends the loop.
NextShop ==
    saga' = IF saga.shop = Len(Plan) THEN [saga EXCEPT !.at = "count"]
            ELSE [NoSaga EXCEPT !.at = "order", !.shop = saga.shop + 1,
                                !.merchant = Plan[saga.shop + 1]]

ApprovePayment ==
    /\ status = "awaiting_approval"
    /\ status' = "funding"
    /\ saga' = [NoSaga EXCEPT !.at = "order"]
    /\ UNCHANGED <<dropped, books, receipts, releasing, chain, merchant, world>>

\* An order consumes its quote; the merchant has one for the task.
Consumed(m) == \E o \in OrderIds : orders[o].state # "none" /\ orders[o].merchant = m

FreshOrder == CHOOSE o \in OrderIds :
    orders[o].state = "none" /\ \A p \in OrderIds : orders[p].state = "none" => o <= p

\* The merchant's POST /order, for a quote still active and a unit in stock.
CreateOrder(m) ==
    /\ ~Consumed(m) /\ stock[m] > 0
    /\ \E o \in OrderIds : orders[o].state = "none"
    /\ orders' = [orders EXCEPT ![FreshOrder] =
                    [state |-> "awaiting_funding", shop |-> saga.shop,
                     merchant |-> m]]
    /\ stock' = [stock EXCEPT ![m] = @ - 1]
    /\ UNCHANGED <<timers, runs>>

\* Refused also when the quote has expired by now, at either side.
PlaceOrder ==
    /\ saga.at = "order"
    /\ \/ /\ CreateOrder(saga.merchant)
          /\ saga' = [saga EXCEPT !.at = "fund", !.order = FreshOrder]
       \/ /\ Goes("failed")
          /\ UNCHANGED merchant
    /\ UNCHANGED <<status, dropped, books, receipts, releasing, chain, world>>

\* chain.fund and the INSERT of the order as paid, or the revert.
FundShop ==
    /\ saga.at = "fund"
    /\ IF saga.merchant \in FailSlugs \/ balance = 0
       THEN /\ Goes("undo")
            /\ UNCHANGED <<books, chain>>
       ELSE /\ balance' = balance - 1
            /\ Moves(saga.order, "Funded")
            /\ books' = [books EXCEPT ![saga.order] = "paid_in_escrow"]
            /\ Goes("report")
    /\ UNCHANGED <<status, dropped, receipts, releasing, merchant, world>>

\* The merchant's /internal/escrow-funded.  Its answer is not read.
LearnFunded(o) ==
    IF orders[o].state = "awaiting_funding"
    THEN /\ orders' = [orders EXCEPT ![o].state = "paid_in_escrow"]
         /\ timers' = IF orders[o].merchant \in NeverPrepares THEN timers
                      ELSE timers \cup {o}
         /\ UNCHANGED <<stock, runs>>
    ELSE UNCHANGED merchant

ReportFunded ==
    /\ saga.at = "report"
    /\ LearnFunded(saga.order)
    /\ NextShop
    /\ UNCHANGED <<status, dropped, books, receipts, releasing, chain, world>>

\* Mutant of CancelOrder: the stock goes back and the order stays.
RestockOnly(o) ==
    IF orders[o].state = "awaiting_funding"
    THEN /\ stock' = [stock EXCEPT ![orders[o].merchant] = @ + 1]
         /\ UNCHANGED <<orders, timers, runs>>
    ELSE UNCHANGED merchant

\* The merchant's /internal/cancel-order: only an order still to be funded.
CancelOrder(o) ==
    IF orders[o].state = "awaiting_funding"
    THEN /\ orders' = [orders EXCEPT ![o].state = "cancelled"]
         /\ stock' = [stock EXCEPT ![orders[o].merchant] = @ + 1]
         /\ UNCHANGED <<timers, runs>>
    ELSE UNCHANGED merchant

UndoOrder ==
    /\ saga.at = "undo"
    /\ CancelOrder(saga.order)
    /\ Goes("failed")
    /\ UNCHANGED <<status, dropped, books, receipts, releasing, chain, world>>

\* findAlternativeShop: another merchant's quote that covers the shop and has not
\* expired; the bridge never hears that a quote was consumed.
TryAlternative ==
    /\ saga.at = "failed" /\ ~saga.alt
    /\ \E m \in Covers[saga.shop] \ {saga.merchant} : Tries(m, TRUE)
    /\ UNCHANGED <<status, dropped, books, receipts, releasing, chain, merchant, world>>

\* No alternative, its quote has expired, or it failed too.
GivesUp == saga.at = "failed"

\* Mutant of DropShop: the dropped shop is tried once more.
RetryDropped ==
    /\ GivesUp
    /\ saga.shop \notin Essential
    /\ dropped' = dropped \cup {saga.shop}
    /\ Goes("order")
    /\ UNCHANGED <<status, books, receipts, releasing, chain, merchant, world>>

DropShop ==
    /\ GivesUp
    /\ saga.shop \notin Essential
    /\ dropped' = dropped \cup {saga.shop}
    /\ NextShop
    /\ UNCHANGED <<status, books, receipts, releasing, chain, merchant, world>>

SagaCancel ==
    /\ GivesUp
    /\ saga.shop \in Essential
    /\ Cancel
    /\ saga' = NoSaga
    /\ UNCHANGED <<dropped, receipts, releasing, merchant, world>>

\* The end of approvePayment: the task starts, whatever its status by now.
CountFunded ==
    /\ saga.at = "count"
    /\ saga' = NoSaga
    /\ IF \A o \in OrderIds : books[o] \in {"none", "refunded"}
       THEN status' = "failed" /\ UNCHANGED receipts
       ELSE MaybeFinalize("in_progress", books)
    /\ UNCHANGED <<dropped, books, releasing, chain, merchant, world>>

-----------------------------------------------------------------------------
(***************************************************************************)
(* The buyer: cancel and the manual release, offered at any time.          *)
(***************************************************************************)
CancelTask ==
    /\ Cancel
    /\ UNCHANGED <<saga, dropped, receipts, releasing, merchant, world>>

UserRelease(o) ==
    /\ books[o] # "none" /\ Holds(o)
    /\ Moves(o, "Released")
    /\ books' = [books EXCEPT ![o] = "completed"]
    /\ releasing' = releasing \cup {o}
    /\ UNCHANGED <<status, saga, dropped, receipts, balance, merchant, world>>

\* The merchant's /internal/escrow-released walks the order to completed; the
\* transition table refuses an order that is not on the way there.
LearnReleased(o) ==
    IF orders[o].state \in {"paid_in_escrow", "preparing", "ready"}
    THEN orders' = [orders EXCEPT ![o].state = "completed"]
    ELSE UNCHANGED orders

ReportReleased(o) ==
    /\ o \in releasing
    /\ LearnReleased(o)
    /\ releasing' = releasing \ {o}
    /\ MaybeFinalize(status, books)
    /\ UNCHANGED <<saga, dropped, books, chain, stock, timers, runs, world>>

-----------------------------------------------------------------------------
(***************************************************************************)
(* The merchant's jobs: a timer, a console call or the worker's tick.  A   *)
(* job does its chain call, then the order's transition, then tells the    *)
(* bridge; at most one of each kind runs for an order.                     *)
(***************************************************************************)
Does(j, o, stage) == runs' = [runs EXCEPT ![<<j, o>>] = stage]
Stage(j, o) == runs[<<j, o>>]

\* The bridge's /chain/* endpoints on behalf of job j: the escrow, being in one
\* of the states from, goes to state to; otherwise the call answers an error.
Chained(j, o, from, to, stage) ==
    IF escrow[o] \in from
    THEN Moves(o, to) /\ Does(j, o, stage)
    ELSE Does(j, o, "idle") /\ UNCHANGED escrow

AutoPrepare(o) ==
    /\ o \in timers /\ Stage("prepare", o) = "idle"
    /\ timers' = timers \ {o}
    /\ IF orders[o].state = "paid_in_escrow"
       THEN Chained("prepare", o, {"Funded"}, "Preparing", "preparing")
       ELSE UNCHANGED <<escrow, runs>>
    /\ UNCHANGED <<bridge, balance, orders, stock, world>>

\* The auto-ready timer, or the merchant's own POST /ready.
MarkReady(o) ==
    /\ Stage("ready", o) = "idle"
    /\ orders[o].state = "preparing"
    /\ Chained("ready", o, {"Preparing"}, "Ready", "ready")
    /\ UNCHANGED <<bridge, balance, orders, stock, timers, world>>

\* verify-pickup with the right code: an order still in preparation is first
\* marked ready on the way.
VerifyPickup(o) ==
    /\ Stage("pickup", o) = "idle"
    /\ \/ /\ orders[o].state = "preparing"
          /\ Chained("pickup", o, {"Preparing"}, "Ready", "ready")
       \/ /\ orders[o].state = "ready"
          /\ Chained("pickup", o, {"Preparing", "Ready"}, "Released", "completed")
    /\ UNCHANGED <<bridge, balance, orders, stock, timers, world>>

ConfirmPickup(o) ==
    /\ Stage("pickup", o) = "confirm"
    /\ Chained("pickup", o, {"Preparing", "Ready"}, "Released", "completed")
    /\ UNCHANGED <<bridge, balance, orders, stock, timers, world>>

\* Mutant of ListOverdue: the query forgets the orders in preparation.
ListUnprepared(o) ==
    /\ Stage("refund", o) = "idle"
    /\ orders[o].state = "paid_in_escrow" /\ o \in overdue
    /\ Does("refund", o, "listed")
    /\ UNCHANGED <<bridge, chain, orders, stock, timers, world>>

\* tick lists the overdue orders, then refunds them one after the other: the
\* list is not read again.
ListOverdue(o) ==
    /\ Stage("refund", o) = "idle"
    /\ orders[o].state \in {"paid_in_escrow", "preparing"} /\ o \in overdue
    /\ Does("refund", o, "listed")
    /\ UNCHANGED <<bridge, chain, orders, stock, timers, world>>

RefundOverdue(o) ==
    /\ Stage("refund", o) = "listed"
    /\ IF MayRefund(o)
       THEN RefundAll({o}) /\ Does("refund", o, "refunded")
       ELSE Does("refund", o, "idle") /\ UNCHANGED chain
    /\ UNCHANGED <<bridge, orders, stock, timers, world>>

Transitions ==
    [none |-> {}, awaiting_funding |-> {"paid_in_escrow", "cancelled"},
     paid_in_escrow |-> {"preparing", "refunded"}, preparing |-> {"ready", "refunded"},
     ready |-> {"completed", "refunded"}, completed |-> {}, refunded |-> {},
     cancelled |-> {}]

\* The order's transition after the chain call; an illegal one ends the job.
Record(j, o) ==
    /\ Stage(j, o) \in {"preparing", "ready", "completed", "refunded"}
    /\ IF Stage(j, o) \in Transitions[orders[o].state]
       THEN /\ orders' = [orders EXCEPT ![o].state = Stage(j, o)]
            /\ Does(j, o, CASE Stage(j, o) = "preparing" -> "tell_preparing"
                            [] Stage(j, o) = "ready" -> "tell_ready"
                            [] Stage(j, o) = "completed" -> "tell_completed"
                            [] Stage(j, o) = "refunded" -> "tell_refunded")
       ELSE Does(j, o, "idle") /\ UNCHANGED orders
    /\ UNCHANGED <<bridge, chain, stock, timers, world>>

Event == [s \in {"tell_preparing", "tell_ready", "tell_completed", "tell_refunded"} |->
            CASE s = "tell_preparing" -> "preparing"
              [] s = "tell_ready" -> "ready"
              [] s = "tell_completed" -> "completed"
              [] s = "tell_refunded" -> "refunded"]

\* After the bridge answered, or failed to: a pickup that had to mark the order
\* ready goes on to confirm.
Told(j, o) ==
    Does(j, o, IF j = "pickup" /\ Stage(j, o) = "tell_ready" THEN "confirm" ELSE "idle")

\* handleOrderEvent: the state told is written over whatever the books say.
Tell(j, o) ==
    /\ Stage(j, o) \in DOMAIN Event
    /\ LET b == IF books[o] = "none" THEN books
                ELSE [books EXCEPT ![o] = Event[Stage(j, o)]]
       IN  books' = b /\ MaybeFinalize(status, b)
    /\ Told(j, o)
    /\ UNCHANGED <<saga, dropped, releasing, chain, orders, stock, timers, world>>

-----------------------------------------------------------------------------
(***************************************************************************)
(* Time and failures.                                                      *)
(***************************************************************************)
\* A deadline only matters while its escrow holds money.
DeadlinePasses(o) ==
    /\ Holds(o) /\ o \notin overdue
    /\ overdue' = overdue \cup {o}
    /\ UNCHANGED <<bridge, chain, merchant, failures>>

Fails ==
    /\ failures < MaxFailures
    /\ failures' = failures + 1
    /\ UNCHANGED overdue

\* A POST /order that fails on the wire throws out of approvePayment, whose
\* promise nobody awaits: the bridge process ends.
BridgeStops ==
    /\ saga' = NoSaga
    /\ releasing' = {}
    /\ UNCHANGED <<status, dropped, books, receipts>>

OrderLost ==
    /\ Fails
    /\ saga.at = "order"
    /\ CreateOrder(saga.merchant) \/ UNCHANGED merchant
    /\ BridgeStops
    /\ UNCHANGED chain

\* The webhook or its answer is lost: the catch undoes a funded order.
ReportLost ==
    /\ Fails
    /\ saga.at = "report"
    /\ LearnFunded(saga.order) \/ UNCHANGED merchant
    /\ Goes("undo")
    /\ UNCHANGED <<status, dropped, books, receipts, releasing, chain>>

UndoLost ==
    /\ Fails
    /\ saga.at = "undo"
    /\ Goes("failed")
    /\ UNCHANGED <<status, dropped, books, receipts, releasing, chain, merchant>>

ReleaseLost(o) ==
    /\ Fails
    /\ o \in releasing
    /\ releasing' = releasing \ {o}
    /\ MaybeFinalize(status, books)
    /\ UNCHANGED <<saga, dropped, books, chain, merchant>>

TellLost(j, o) ==
    /\ Fails
    /\ Stage(j, o) \in DOMAIN Event
    /\ Told(j, o)
    /\ UNCHANGED <<bridge, chain, orders, stock, timers>>

\* A restart that finds nothing under way changes nothing.
CrashBridge ==
    /\ Fails
    /\ saga.at # "idle" \/ releasing # {}
    /\ BridgeStops
    /\ UNCHANGED <<chain, merchant>>

\* The merchant service restarts: timers and jobs live in memory only.
CrashMerchant ==
    /\ Fails
    /\ timers # {} \/ \E j \in DOMAIN runs : runs[j] # "idle"
    /\ timers' = {}
    /\ runs' = [j \in Jobs \X OrderIds |-> "idle"]
    /\ UNCHANGED <<bridge, chain, orders, stock>>

-----------------------------------------------------------------------------
Saga == PlaceOrder \/ FundShop \/ ReportFunded \/ UndoOrder \/ TryAlternative
        \/ DropShop \/ SagaCancel \/ CountFunded

Buyer == ApprovePayment \/ CancelTask \/ \E o \in OrderIds : UserRelease(o)

Works(o) ==
    \/ AutoPrepare(o) \/ MarkReady(o) \/ VerifyPickup(o) \/ ConfirmPickup(o)
    \/ ListOverdue(o) \/ RefundOverdue(o) \/ ReportReleased(o)
    \/ \E j \in Jobs : Record(j, o) \/ Tell(j, o)

Faults ==
    \/ OrderLost \/ ReportLost \/ UndoLost \/ CrashBridge \/ CrashMerchant
    \/ \E o \in OrderIds : ReleaseLost(o) \/ \E j \in Jobs : TellLost(j, o)

Next ==
    \/ Saga \/ Buyer \/ Faults
    \/ \E o \in OrderIds : Works(o) \/ DeadlinePasses(o)

Spec == Init /\ [][Next]_vars

\* HTTP calls return, the worker ticks every two seconds.
Fairness ==
    /\ WF_vars(Saga)
    /\ \A o \in OrderIds : WF_vars(ListOverdue(o) \/ RefundOverdue(o))

FairSpec == Spec /\ Fairness

-----------------------------------------------------------------------------
(***************************************************************************)
(* Properties.                                                             *)
(***************************************************************************)
Spent == {"Funded", "Preparing", "Ready", "Released"}

TypeOK ==
    /\ status \in {"awaiting_approval", "funding", "in_progress", "failed",
                   "cancelled", "settled"}
    /\ saga.at \in {"idle", "order", "fund", "report", "undo", "failed", "count"}
    /\ escrow \in [OrderIds -> Spent \cup {"None", "Refunded"}]
    /\ balance \in 0 .. Balance
    /\ orders \in [OrderIds -> [state : DOMAIN Transitions, shop : Shops,
                                merchant : Merchants]]
    /\ stock \in [Merchants -> Nat]

\* Neither database runs ahead of the chain: an order that either side calls
\* completed has its escrow released, one that either side calls refunded has
\* its money back, and no merchant prepares goods whose escrow was never funded.
BooksFollowChain ==
    \A o \in OrderIds :
        /\ "completed" \in {books[o], orders[o].state} => escrow[o] = "Released"
        /\ "refunded" \in {books[o], orders[o].state} => escrow[o] = "Refunded"
        /\ orders[o].state \in {"paid_in_escrow", "preparing", "ready"} =>
               escrow[o] # "None"

\* At most one receipt is ever created, and it tells the truth for good: its
\* completed orders are the escrows released, its refunded ones those refunded,
\* no money is left in escrow, and every shop of the plan has a line.
ReceiptIsTrue ==
    /\ Len(receipts) <= 1
    /\ \A i \in DOMAIN receipts : LET r == receipts[i] IN
         /\ r.completed = {o \in OrderIds : escrow[o] = "Released"}
         /\ r.refunded = {o \in OrderIds : escrow[o] = "Refunded"}
         /\ \A o \in OrderIds : ~Holds(o)
         /\ Shops = r.dropped \cup {orders[o].shop : o \in r.completed \cup r.refunded}
         /\ Essential \cap r.dropped = {}

\* The wallet and the shelves add up: a price is away exactly while its escrow
\* is held or released, and a unit exactly while its order is not cancelled,
\* however cancels, refunds and lost webhooks race.
MoneyAndStockAddUp ==
    /\ TypeOK
    /\ balance = Balance - Cardinality({o \in OrderIds : escrow[o] \in Spent})
    /\ \A m \in Merchants :
         stock[m] = Stock[m] - Cardinality({o \in OrderIds :
             orders[o].merchant = m /\ orders[o].state \notin {"none", "cancelled"}})

\* The worker alone gets an overdue order's money settled, across crashes of the
\* merchant service, unless the order reaches ready first.
OverdueIsSettled ==
    \A o \in OrderIds :
        (o \in overdue /\ orders[o].state \in {"paid_in_escrow", "preparing"})
            ~> (~Holds(o) \/ orders[o].state = "ready")

\* Funding comes to an end: a saga under way leaves its loop with the task
\* started, failed or cancelled, unless the process went down.
FundingEnds == (saga.at # "idle") ~> (saga.at = "idle" /\ (status # "funding" \/ failures > 0))
=============================================================================
