--------------------------- MODULE AcceptanceSaga ---------------------------
(***************************************************************************)
(* The merchant acceptance window of one task (the Postgres path of the    *)
(* bridge): from the buyer's approval to the opening of the funding step.  *)
(* Two programs share the database.  The merchant agent answers an         *)
(* acceptance (accept commits stock first) and posts the decision to the   *)
(* bridge; the bridge writes the order's state and runs the saga: another  *)
(* merchant, else drop the shop, else cancel the task.  A five second      *)
(* timer expires unanswered windows.  Every await is an interleaving       *)
(* point: a request in flight is a frame in calls, and what a request read *)
(* before an await may be stale when it acts.                              *)
(*                                                                         *)
(* A shop's basket is a "need": the items one merchant supplies.  Merged   *)
(* into one step, as no property tells them apart: the reads that open a   *)
(* handler with its first write; the two inserts of one shop's window.     *)
(* Where funding opens and where the task is cancelled each awaited write  *)
(* is a step of its own: a restart may fall between any two of them.       *)
(***************************************************************************)
EXTENDS Integers, Sequences, FiniteSets

CONSTANTS
    Merchants,      \* the merchants whose quotes the bridge holds
    Needs,          \* the baskets of the selected option
    Essential,      \* the needs the task is worthless without
    OptionShops,    \* the option: a sequence of [merchant, need], essential first
    Preference,     \* the order in which quotes_seen returns the merchants
    Covers,         \* which needs each merchant's verified quote covers
    Provisioned,    \* merchants that have an organisation in Postgres
    StockAtStart,   \* units a merchant can commit for each need
    Calls,          \* requests and timer runs that may be in flight at once
    MaxOrders,      \* bound: no quote is usable once this many orders exist
    FailureKinds,   \* what may fail: "offline" (a post is lost), "restart"
    MaxFailures     \* bound: lost posts and restarts together

Shops == [merchant : Merchants, need : Needs]

ASSUME SagaAssumption ==
    /\ Essential \subseteq Needs
    /\ OptionShops \in Seq(Shops) \ {<<>>}
    \* one shop supplies each basket of the option
    /\ \A i, j \in DOMAIN OptionShops : OptionShops[i].need = OptionShops[j].need => i = j
    /\ Preference \in Seq(Merchants)
    /\ Covers \in [Merchants -> SUBSET Needs]
    /\ Provisioned \subseteq Merchants
    /\ StockAtStart \in [Merchants \X Needs -> Nat]
    /\ IsFiniteSet(Calls)
    /\ MaxOrders \in Nat
    /\ FailureKinds \subseteq {"offline", "restart"}
    /\ MaxFailures \in Nat

VARIABLES
    orders,         \* task_orders, oldest first: [merchant, need, state, hash]
    acceptances,    \* status of the acceptance row created with each order
    escrows,        \* pickup code hash in each order's escrow row, 0 for no row
    stock,          \* units still uncommitted, by merchant and need
    dropped,        \* needs recorded in dropped_shops
    live,           \* merchants whose quote has not passed validUntil
    wallet,         \* the account has a connected wallet on file
    status,         \* tasks.status
    calls,          \* where each request in flight stands
    failures,       \* lost posts and restarts so far
    orphans,        \* history: orders whose escrow row a restart cut off
    surplus         \* history: units given back for orders a restart left open

vars == <<orders, acceptances, escrows, stock, dropped, live, wallet, status,
          calls, failures, orphans, surplus>>

OrderStates == {"merchant_pending", "merchant_confirmed", "merchant_rejected",
                "expired", "cancelled", "awaiting_funding"}

Orders == [merchant : Merchants, need : Needs, state : OrderStates, hash : Nat]

Frames == [at : {"idle", "window", "resolve", "notify", "saga", "funding",
                 "opening", "escrow", "cancel", "restocked", "expire"},
           order : Nat, decision : {"none", "accepted", "rejected"},
           acceptance : Nat, shops : Seq(Shops), code : Nat,
           todo : SUBSET Nat, back : SUBSET Nat, rows : SUBSET Nat]

Idle == [at |-> "idle", order |-> 0, decision |-> "none", acceptance |-> 0,
         shops |-> <<>>, code |-> 0, todo |-> {}, back |-> {}, rows |-> {}]

TypeOK ==
    /\ orders \in Seq(Orders)
    /\ acceptances \in Seq({"pending", "accepted", "rejected", "expired"})
    /\ escrows \in Seq(Nat)
    /\ Len(acceptances) = Len(orders) /\ Len(escrows) = Len(orders)
    /\ stock \in [Merchants \X Needs -> Nat]
    /\ dropped \subseteq Needs
    /\ live \subseteq Merchants
    /\ wallet \in BOOLEAN
    /\ status \in {"awaiting_approval", "awaiting_merchant",
                   "awaiting_funding", "cancelled", "failed"}
    /\ calls \in [Calls -> Frames]
    /\ failures \in 0 .. MaxFailures
    /\ orphans \subseteq Nat
    /\ surplus \in [Merchants \X Needs -> Nat]

Init ==
    /\ orders = <<>> /\ acceptances = <<>> /\ escrows = <<>>
    /\ stock = StockAtStart
    /\ dropped = {}
    /\ live = Merchants
    /\ wallet \in BOOLEAN
    /\ status = "awaiting_approval"
    /\ calls = [c \in Calls |-> Idle]
    /\ failures = 0
    /\ orphans = {}
    /\ surplus = [key \in Merchants \X Needs |-> 0]

-----------------------------------------------------------------------------
(***************************************************************************)
(* Reading the tables.                                                     *)
(***************************************************************************)
InState(states) == {o \in DOMAIN orders : orders[o].state \in states}

\* The stock key of an order's lines.
Line(o) == <<orders[o].merchant, orders[o].need>>

\* Mutant of PendingOrderOf: the query without its condition on the state.
NewestOrderOf(m) ==
    {o \in DOMAIN orders :
        /\ orders[o].merchant = m
        /\ \A p \in DOMAIN orders : orders[p].merchant = m => p <= o}

\* The newest pending order of a merchant in this task, as a set of at most one.
PendingOrderOf(m) ==
    {o \in InState({"merchant_pending"}) :
        /\ orders[o].merchant = m
        /\ \A p \in InState({"merchant_pending"}) :
              orders[p].merchant = m => p <= o}

\* The rows of quotes_seen that cover the failed order's basket.
UsableQuotes(failed) ==
    {i \in DOMAIN Preference :
        /\ Len(orders) < MaxOrders
        /\ Preference[i] # orders[failed].merchant
        /\ Preference[i] \in live
        /\ orders[failed].need \in Covers[Preference[i]]}

\* The shop made of the first of them, as a set of at most one.
FindAlternativeShop(failed) ==
    {[merchant |-> Preference[i], need |-> orders[failed].need] :
        i \in {j \in UsableQuotes(failed) :
                 \A k \in UsableQuotes(failed) : j <= k}}

-----------------------------------------------------------------------------
(***************************************************************************)
(* Frames.  A handler that ends leaves its slot idle, except in the loop   *)
(* of the timer, which goes on with the next expired row.                  *)
(***************************************************************************)
Become(c, frame) == calls' = [calls EXCEPT ![c] = frame]

\* The next stage of a handler; a loop of the timer keeps its remaining rows.
Stage(c, at) == [Idle EXCEPT !.at = at, !.rows = calls[c].rows]

Resume(c) == IF calls[c].rows = {} THEN Idle ELSE Stage(c, "expire")

Return(c) == Become(c, Resume(c))

Throw(c) == Become(c, Idle)

Fail(kind) ==
    /\ kind \in FailureKinds
    /\ failures < MaxFailures
    /\ failures' = failures + 1

SetOrderState(o, state) == orders' = [orders EXCEPT ![o].state = state]

tables == <<orders, acceptances, escrows>>
outcome == <<dropped, status>>
cuts == <<orphans, surplus>>
world == <<live, wallet, failures, cuts>>

-----------------------------------------------------------------------------
(***************************************************************************)
(* The bridge.                                                             *)
(***************************************************************************)
ApprovePayment(c) ==
    /\ calls[c] = Idle
    /\ status = "awaiting_approval"
    /\ status' = "awaiting_merchant"
    /\ Become(c, [Idle EXCEPT !.at = "window", !.shops = OptionShops])
    /\ UNCHANGED <<tables, stock, dropped, world>>

\* One shop of openAcceptanceWindow; a shop without an organisation is skipped.
OpenAcceptanceWindow(c) ==
    LET shop == Head(calls[c].shops)
        rest == Tail(calls[c].shops)
    IN  /\ calls[c].at = "window"
        /\ IF shop.merchant \in Provisioned
           THEN /\ orders' = Append(orders,
                     [merchant |-> shop.merchant, need |-> shop.need,
                      state |-> "merchant_pending", hash |-> 0])
                /\ acceptances' = Append(acceptances, "pending")
                /\ escrows' = Append(escrows, 0)
           ELSE UNCHANGED tables
        /\ IF rest = <<>> THEN Return(c)
                          ELSE Become(c, [calls[c] EXCEPT !.shops = rest])
        /\ UNCHANGED <<stock, outcome, world>>

StateFor(decision) ==
    IF decision = "accepted" THEN "merchant_confirmed" ELSE "merchant_rejected"

\* The notification arrives: the bridge writes the order's state unconditionally.
ResolveMerchantAcceptance(c) ==
    LET o == calls[c].order
    IN  /\ calls[c].at = "notify"
        /\ SetOrderState(o, StateFor(calls[c].decision))
        /\ Become(c, IF calls[c].decision = "accepted"
                     THEN Stage(c, "funding")
                     ELSE [Stage(c, "saga") EXCEPT !.order = o])
        /\ UNCHANGED <<acceptances, escrows, stock, outcome, world>>

\* The bridge is offline: the merchant agent swallows the error.
NotificationLost(c) ==
    /\ calls[c].at = "notify"
    /\ Fail("offline")
    /\ Throw(c)
    /\ UNCHANGED <<tables, stock, outcome, live, wallet, cuts>>

\* The five second timer: every pending window up to some age has run out.
AcceptanceTimeoutTick(c) ==
    /\ calls[c] = Idle
    /\ \E youngest \in {a \in DOMAIN acceptances : acceptances[a] = "pending"} :
          LET stale == {a \in 1 .. youngest : acceptances[a] = "pending"}
          IN  /\ acceptances' = [a \in DOMAIN acceptances |->
                    IF a \in stale THEN "expired" ELSE acceptances[a]]
              /\ Become(c, [Idle EXCEPT !.at = "expire", !.rows = stale])
    /\ UNCHANGED <<orders, escrows, stock, outcome, world>>

\* One expired row: its merchant's pending order expires, if there is one.
ExpireOrder(c) ==
    /\ calls[c].at = "expire"
    /\ \E row \in calls[c].rows :
          LET rest == calls[c].rows \ {row}
              pending == PendingOrderOf(orders[row].merchant)
          IN  \/ /\ pending = {}
                 /\ Become(c, IF rest = {} THEN Idle
                              ELSE [calls[c] EXCEPT !.rows = rest])
                 /\ UNCHANGED orders
              \/ \E o \in pending :
                    /\ SetOrderState(o, "expired")
                    /\ Become(c, [calls[c] EXCEPT
                                    !.at = "saga", !.order = o, !.rows = rest])
    /\ UNCHANGED <<acceptances, escrows, stock, outcome, world>>

\* handlePgRejection, first choice: the same basket from another merchant.
TryAlternative(c) ==
    /\ calls[c].at = "saga"
    /\ \E shop \in FindAlternativeShop(calls[c].order) :
          Become(c, [Stage(c, "window") EXCEPT !.shops = <<shop>>])
    /\ UNCHANGED <<tables, stock, outcome, world>>

\* Mutant of DropShop: the dropped shop was the last one waited for.
DropAndForget(c) ==
    LET need == orders[calls[c].order].need
    IN  /\ calls[c].at = "saga"
        /\ UsableQuotes(calls[c].order) = {}
        /\ need \notin Essential
        /\ dropped' = dropped \cup {need}
        /\ Return(c)
        /\ UNCHANGED <<tables, stock, status, world>>

\* Second choice: an optional basket is dropped and funding may open.
DropShop(c) ==
    LET need == orders[calls[c].order].need
    IN  /\ calls[c].at = "saga"
        /\ UsableQuotes(calls[c].order) = {}
        /\ need \notin Essential
        /\ dropped' = dropped \cup {need}
        /\ Become(c, Stage(c, "funding"))
        /\ UNCHANGED <<tables, stock, status, world>>

Cancellable == {"merchant_pending", "merchant_confirmed", "awaiting_funding"}

\* Mutant of Restocked: orders that committed nothing are restocked too.
RestockEverything == Cancellable

\* The cancelled orders whose stock goes back.
Restocked == {"merchant_confirmed", "awaiting_funding"}

\* Last choice, cancelPgTask: the open orders, as they stand now, are to go.
CancelPgTask(c) ==
    /\ calls[c].at = "saga"
    /\ UsableQuotes(calls[c].order) = {}
    /\ orders[calls[c].order].need \in Essential
    /\ Become(c, [Stage(c, "cancel") EXCEPT !.todo = InState(Cancellable),
                                           !.back = InState(Restocked)])
    /\ UNCHANGED <<tables, stock, outcome, world>>

\* An order that had committed stock gives it back, in a transaction of its own.
RestockAfterCancel(c) ==
    /\ calls[c].at = "cancel"
    /\ \E o \in calls[c].todo \cap calls[c].back :
          /\ stock' = [stock EXCEPT ![Line(o)] = @ + 1]
          /\ Become(c, [calls[c] EXCEPT !.at = "restocked", !.order = o])
    /\ UNCHANGED <<tables, outcome, world>>

\* The order is cancelled, whatever became of it since the list was read.
CancelListedOrder(c) ==
    /\ \E o \in calls[c].todo :
          /\ \/ calls[c].at = "cancel" /\ o \notin calls[c].back
             \/ calls[c].at = "restocked" /\ o = calls[c].order
          /\ SetOrderState(o, "cancelled")
          /\ Become(c, [calls[c] EXCEPT !.at = "cancel", !.order = 0,
                                        !.todo = @ \ {o}])
    /\ UNCHANGED <<acceptances, escrows, stock, outcome, world>>

EndCancel(c) ==
    /\ calls[c].at = "cancel"
    /\ calls[c].todo = {}
    /\ status' = "cancelled"
    /\ Return(c)
    /\ UNCHANGED <<tables, stock, dropped, world>>

\* Mutant of StillWaiting: funding opens as soon as one merchant confirmed.
NobodyWaits == FALSE

\* Some merchant has not answered yet.
StillWaiting == InState({"merchant_pending"}) # {}

\* No order to fund, or no wallet to name as the buyer.
NothingToFund == InState({"merchant_confirmed"}) = {} \/ ~wallet

\* maybeOpenFunding up to its loop: wait, fail, or take the confirmed orders.
MaybeOpenFunding(c) ==
    /\ calls[c].at = "funding"
    /\ \/ /\ StillWaiting
          /\ Return(c)
          /\ UNCHANGED status
       \/ /\ ~StillWaiting /\ NothingToFund
          /\ status' = "failed"
          /\ Return(c)
       \/ /\ ~StillWaiting /\ ~NothingToFund
          /\ Become(c, [Stage(c, "opening") EXCEPT
                          !.todo = InState({"merchant_confirmed"})])
          /\ UNCHANGED status
    /\ UNCHANGED <<tables, stock, dropped, world>>

\* Mutant of EscrowRowExists: the UNIQUE constraint is on the task.
TaskHasRow(o) == \E p \in DOMAIN escrows : escrows[p] # 0

\* A second escrow row for the order violates the UNIQUE constraint.
EscrowRowExists(o) == escrows[o] # 0

\* Mutant of WithCode: the update drops its extra column.
WithoutCode(order, code) == [order EXCEPT !.state = "awaiting_funding"]

WithCode(order, code) ==
    [order EXCEPT !.state = "awaiting_funding", !.hash = code]

\* One order of the loop: it waits for funds, under a fresh pickup code.
OpenEscrow(c) ==
    /\ calls[c].at = "opening"
    /\ \E o \in calls[c].todo :
          LET code == orders[o].hash + 1
          IN  /\ orders' = [orders EXCEPT ![o] = WithCode(@, code)]
              /\ Become(c, [calls[c] EXCEPT !.at = "escrow", !.order = o,
                                            !.code = code])
    /\ UNCHANGED <<acceptances, escrows, stock, outcome, world>>

\* Its escrow row, with the same code; a second row for the order is refused.
WriteEscrowRow(c) ==
    LET o == calls[c].order
    IN  /\ calls[c].at = "escrow"
        /\ \/ /\ EscrowRowExists(o)
              /\ Throw(c)
              /\ UNCHANGED escrows
           \/ /\ ~EscrowRowExists(o)
              /\ escrows' = [escrows EXCEPT ![o] = calls[c].code]
              /\ Become(c, [calls[c] EXCEPT !.at = "opening", !.order = 0,
                                            !.code = 0, !.todo = @ \ {o}])
        /\ UNCHANGED <<orders, acceptances, stock, outcome, world>>

\* After the loop the task waits for funds.
FundingReady(c) ==
    /\ calls[c].at = "opening"
    /\ calls[c].todo = {}
    /\ status' = "awaiting_funding"
    /\ Return(c)
    /\ UNCHANGED <<tables, stock, dropped, world>>

\* The buyer's cancel button: in this path it finds no SQLite order to refund.
CancelTask ==
    /\ status # "cancelled"
    /\ status' = "cancelled"
    /\ UNCHANGED <<tables, stock, dropped, world, calls>>

\* Orders that wait for funds and whose escrow row is still to be written.
RowsDue == {calls[c].order : c \in {d \in Calls : calls[d].at = "escrow"}}

\* Handlers that have given an order's unit back and not yet cancelled it.
Restocking(key) ==
    {c \in Calls : calls[c].at = "restocked" /\ Line(calls[c].order) = key}

\* The bridge restarts: whatever it was doing for this task is forgotten.
BridgeRestart ==
    /\ Fail("restart")
    /\ calls' = [c \in Calls |-> IF calls[c].at \in {"resolve", "notify"}
                                 THEN calls[c] ELSE Idle]
    /\ calls' # calls
    /\ orphans' = orphans \cup RowsDue
    /\ surplus' = [key \in DOMAIN surplus |->
                     surplus[key] + Cardinality(Restocking(key))]
    /\ UNCHANGED <<tables, stock, outcome, live, wallet>>

QuoteExpires(m) ==
    /\ m \in live
    /\ live' = live \ {m}
    /\ UNCHANGED <<tables, stock, outcome, wallet, calls, failures, cuts>>

-----------------------------------------------------------------------------
(***************************************************************************)
(* The merchant agent.                                                     *)
(***************************************************************************)
\* The acceptance is pending and its merchant has a pending order.
Answerable(a, o) ==
    /\ acceptances[a] = "pending"
    /\ o \in PendingOrderOf(orders[a].merchant)

InStock(o) == stock[Line(o)] > 0

\* commitStockForOrder comes first; out of stock turns the accept into a rejection.
Accept(c) ==
    /\ calls[c] = Idle
    /\ \E a \in DOMAIN acceptances, o \in DOMAIN orders :
          /\ Answerable(a, o)
          /\ stock' = IF InStock(o) THEN [stock EXCEPT ![Line(o)] = @ - 1]
                                    ELSE stock
          /\ Become(c, [Idle EXCEPT
               !.at = "resolve", !.acceptance = a, !.order = o,
               !.decision = IF InStock(o) THEN "accepted" ELSE "rejected"])
    /\ UNCHANGED <<tables, outcome, world>>

Reject(c) ==
    /\ calls[c] = Idle
    /\ \E a \in DOMAIN acceptances, o \in DOMAIN orders :
          /\ Answerable(a, o)
          /\ Become(c, [Idle EXCEPT !.at = "resolve", !.acceptance = a,
                          !.order = o, !.decision = "rejected"])
    /\ UNCHANGED <<tables, stock, outcome, world>>

\* Mutant of MayDecide: the update without its condition on the status.
AlwaysDecide(a) == TRUE

\* resolveAcceptance writes only a row that is still pending.
MayDecide(a) == acceptances[a] = "pending"

ResolveAcceptance(c) ==
    LET a == calls[c].acceptance
    IN  /\ calls[c].at = "resolve"
        /\ acceptances' = IF MayDecide(a)
                          THEN [acceptances EXCEPT ![a] = calls[c].decision]
                          ELSE acceptances
        /\ Become(c, [calls[c] EXCEPT !.at = "notify", !.acceptance = 0])
        /\ UNCHANGED <<orders, escrows, stock, outcome, world>>

-----------------------------------------------------------------------------
\* What a request in flight does next.
Step(c) ==
    \/ OpenAcceptanceWindow(c)
    \/ ResolveAcceptance(c)
    \/ ResolveMerchantAcceptance(c)
    \/ ExpireOrder(c)
    \/ TryAlternative(c)
    \/ DropShop(c)
    \/ CancelPgTask(c)
    \/ RestockAfterCancel(c)
    \/ CancelListedOrder(c)
    \/ EndCancel(c)
    \/ MaybeOpenFunding(c)
    \/ OpenEscrow(c)
    \/ WriteEscrowRow(c)
    \/ FundingReady(c)

Next ==
    \/ \E c \in Calls : \/ ApprovePayment(c)
                        \/ Accept(c)
                        \/ Reject(c)
                        \/ AcceptanceTimeoutTick(c)
                        \/ NotificationLost(c)
                        \/ Step(c)
    \/ CancelTask
    \/ BridgeRestart
    \/ \E m \in Merchants : QuoteExpires(m)

Spec == Init /\ [][Next]_vars

\* A request in flight goes on, and the timer of the bridge keeps firing.
FairSpec ==
    /\ Spec
    /\ \A c \in Calls : WF_vars(Step(c))
    /\ WF_vars(\E c \in Calls : AcceptanceTimeoutTick(c))

-----------------------------------------------------------------------------
(***************************************************************************)
(* Safety of one request at a time.                                        *)
(***************************************************************************)
\* An order waiting for funds carries the pickup code its escrow row carries, so
\* that the code shown to the buyer opens the escrow; the row may be missing only
\* while it is about to be written, or for good if a restart fell before it
\* (maybeOpenFunding updates the order and inserts the row in two awaited writes).
HashesAgree ==
    \A o \in InState({"awaiting_funding"}) :
        \/ escrows[o] = orders[o].hash
        \/ escrows[o] = 0 /\ o \in RowsDue \cup orphans

\* Every unit a merchant gave up is held by an order that is confirmed or
\* waiting for funds, or by an accept still on its way to the bridge. A unit is
\* counted twice only between cancelPgTask's restock and its write of the order,
\* and for good if a restart falls there: the order stays open without its unit.
Holding == {"merchant_confirmed", "awaiting_funding"}

Holders(key) == {o \in InState(Holding) : Line(o) = key}

InFlight(key) ==
    {c \in Calls : /\ calls[c].at \in {"resolve", "notify"}
                   /\ calls[c].decision = "accepted"
                   /\ Line(calls[c].order) = key}

StockAccounted ==
    \A key \in DOMAIN stock :
        stock[key] + Cardinality(Holders(key)) + Cardinality(InFlight(key))
            = StockAtStart[key] + Cardinality(Restocking(key)) + surplus[key]

\* No basket is on order at two merchants at once, or on order after it was
\* dropped: an alternative is opened only after the first order is dead.
NoDoubleSupply ==
    \A o, p \in InState(Cancellable) :
        /\ orders[o].need \notin dropped
        /\ orders[o].need = orders[p].need => o = p

\* Baskets and stock are accounted for: every unit given up by a merchant is
\* held by one order or one answer on its way, but for the units of a cancelled
\* task's restock that a restart cut off, and no basket is ordered twice
\* (commitStockForOrder, restockAfterCancel, handlePgRejection).
BasketsAreAccounted == TypeOK /\ StockAccounted /\ NoDoubleSupply

\* The baskets nobody is asked for any more: the merchant next in turn has no
\* organisation in Postgres, its window is skipped and no rejection follows.
Skipped ==
    {n \in Needs \ dropped :
        LET asked == {o \in DOMAIN orders : orders[o].need = n}
        IN  /\ asked \cap InState(Cancellable) = {}
            /\ \E m \in Merchants \ Provisioned :
                  IF asked = {} THEN [merchant |-> m, need |-> n] \in
                                        {OptionShops[i] : i \in DOMAIN OptionShops}
                                ELSE n \in Covers[m]}

\* When funding opens and nothing failed, each basket of the option is ready to
\* be funded, was dropped, though no essential one, or was skipped.
FundingIsComplete ==
    status = "awaiting_funding" /\ failures = 0 =>
        /\ \A i \in DOMAIN OptionShops :
              \/ OptionShops[i].need \in (dropped \ Essential) \cup Skipped
              \/ \E o \in InState({"awaiting_funding"}) :
                    orders[o].need = OptionShops[i].need
        /\ InState({"merchant_pending", "merchant_confirmed"}) = {}

\* A failed task has no order that could still be funded. It may hold stock, but
\* only for want of a wallet: that failure comes after the merchants confirmed
\* and gives nothing back.
FailedHoldsOnlyUnowned ==
    status = "failed" =>
        /\ InState({"awaiting_funding"}) = {}
        /\ InState(Holding) # {} => ~wallet

\* The window ends in funding for every basket that was not dropped, unless a
\* restart cut it short or a basket's next merchant has no organisation, or in a
\* failure with nothing to fund; only the failure for want of a wallet leaves
\* confirmed orders and their stock behind (openAcceptanceWindow,
\* maybeOpenFunding, orchestrator.ts:635-638 and 776-793).
WindowEndsWhole == FundingIsComplete /\ FailedHoldsOnlyUnowned

\* A rejected, expired or cancelled order never comes back: the saga has
\* already replaced, dropped or cancelled it.
Dead == {"merchant_rejected", "expired", "cancelled"}

DeadOrdersStayDead ==
    [][\A o \in InState(Dead) : orders'[o] = orders[o]]_vars

\* A task that waits for its merchants does not wait for ever: the windows
\* expire and the saga ends in funding, failure or cancellation. Two things stop
\* it: a restart in its midst, and a basket that was skipped for good.
SagaResolves ==
    status = "awaiting_merchant" ~>
        \/ status # "awaiting_merchant"
        \/ failures > 0
        \/ \E n \in Needs : [](n \in Skipped)

-----------------------------------------------------------------------------
(***************************************************************************)
(* What holds however requests interleave, are lost or forgotten.          *)
(***************************************************************************)
\* The first decision on an acceptance, or its expiry, is never overwritten.
DecisionIsFinal ==
    [][\A a \in DOMAIN acceptances :
          acceptances[a] # "pending" => acceptances'[a] = acceptances[a]]_vars

\* An order that waits for funds can be funded: its escrow row is there, or its
\* handler is about to write it, or a restart stopped that handler. A request
\* that lost the race for the row throws and leaves the winner's row in place.
FundableHasRow ==
    \A o \in InState({"awaiting_funding"}) :
        escrows[o] # 0 \/ o \in RowsDue \cup orphans

=============================================================================
