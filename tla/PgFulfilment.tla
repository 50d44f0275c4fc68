---------------------------- MODULE PgFulfilment ----------------------------
(***************************************************************************)
(* From the opening of the funding step to the pickup of every order of    *)
(* one task (the Postgres path).  Four programs act: the buyer's browser   *)
(* funds escrows on the chain and reports them; the bridge verifies each   *)
(* report against the chain and writes it to the shared database; the      *)
(* merchant agent prepares orders on timers and pays itself with the       *)
(* pickup code; the escrow program accepts or refuses every transaction.   *)
(* The database is written blindly, so the order of the writes and the     *)
(* answers of the chain decide what the records say.                       *)
(*                                                                         *)
(* A request or a timer run in flight is a frame in calls; every await is  *)
(* an interleaving point.  The wizard is the page the buyer has open.      *)
(* Merged: the reads that open a handler (the order, its escrow row, the   *)
(* escrow on chain); an order's write with the event the merchant posts    *)
(* right after it.                                                         *)
(***************************************************************************)
EXTENDS Integers, Sequences

CONSTANTS
    OrderIds,       \* the task's orders
    Calls,          \* requests and timer runs that may be in flight at once
    MaxEscrows,     \* bound: escrows created on the chain
    FailureKinds,   \* what may fail: "offline", "abort", "restart"
    MaxFailures     \* bound: failures of all kinds together

ASSUME FulfilmentAssumption ==
    /\ 0 \notin OrderIds           \* 0 stands for no order
    /\ MaxEscrows \in Nat
    /\ FailureKinds \subseteq {"offline", "abort", "restart"}
    /\ MaxFailures \in Nat

VARIABLES
    orders,     \* task_orders.state
    rows,       \* the escrows row of each order: [state, id], id 0 for NULL
    chain,      \* the escrow program's orders by id: [order, state]
    late,       \* the release deadline has passed
    timers,     \* setTimeout callbacks that are due, by kind and order
    status,     \* tasks.status
    settled,    \* the event task_orders_settled has been emitted
    wizard,     \* where the buyer's funding page stands
    calls,      \* where each request or timer run in flight stands
    failures    \* failures so far

vars == <<orders, rows, chain, late, timers, status, settled, wizard, calls,
          failures>>

ChainStates == {"Funded", "Preparing", "Ready", "Disputed", "Released", "Refunded"}

\* An escrow holds the pickup code hash of one order, or is somebody else's.
Foreign == 0
Escrows == [order : OrderIds \cup {Foreign}, state : ChainStates]

Closed == [at |-> "closed", order |-> Foreign, id |-> 0, todo |-> {}]

Wizards == {Closed} \cup
           [at : {"sign", "report", "wait"},
            order : OrderIds,
            id : Nat,                   \* the escrow id the order will get
            todo : SUBSET OrderIds]     \* orders still to fund

Frames == [at : {"idle", "link", "pay", "tell", "start", "prepare", "prepared",
                 "ready", "readied", "pickup", "close", "complete"},
           order : OrderIds \cup {Foreign},
           id : Nat,                    \* the escrow id the call works with
           by : {"other", "wizard", "pickup"}]  \* who waits for the call

Idle == [at |-> "idle", order |-> Foreign, id |-> 0, by |-> "other"]

TypeOK ==
    /\ orders \in [OrderIds -> {"awaiting_funding", "merchant_rejected",
                     "paid_in_escrow", "preparing", "ready", "completed"}]
    /\ rows \in [OrderIds -> [state : {"none", "awaiting_funding", "Funded", "Released"},
                              id : Nat]]
    /\ chain \in Seq(Escrows)
    /\ late \in BOOLEAN
    /\ timers \in [{"prepare", "ready"} \X OrderIds -> Nat]
    /\ status \in {"awaiting_funding", "in_progress", "cancelled"}
    /\ settled \in BOOLEAN
    /\ wizard \in Wizards
    /\ calls \in [Calls -> Frames]
    /\ failures \in 0 .. MaxFailures

\* The acceptance window left orders to fund and orders it replaced or dropped.
Init ==
    /\ orders \in [OrderIds -> {"awaiting_funding", "merchant_rejected"}]
    /\ \E o \in OrderIds : orders[o] = "awaiting_funding"
    /\ rows = [o \in OrderIds |->
                 [state |-> IF orders[o] = "awaiting_funding"
                            THEN "awaiting_funding" ELSE "none", id |-> 0]]
    /\ chain = <<>>
    /\ late = FALSE
    /\ timers = [t \in {"prepare", "ready"} \X OrderIds |-> 0]
    /\ status = "awaiting_funding"
    /\ settled = FALSE
    /\ wizard = Closed
    /\ calls = [c \in Calls |-> Idle]
    /\ failures = 0

-----------------------------------------------------------------------------
(***************************************************************************)
(* Frames and failures.                                                    *)
(***************************************************************************)
Become(c, frame) == calls' = [calls EXCEPT ![c] = frame]

At(c, stage) == calls[c].at = stage

GoTo(c, stage) == Become(c, [calls[c] EXCEPT !.at = stage])

Return(c) == Become(c, Idle)

Fail(kind) ==
    /\ kind \in FailureKinds
    /\ failures < MaxFailures
    /\ failures' = failures + 1

records == <<orders, rows>>
outside == <<chain, late>>
outcome == <<status, settled>>

-----------------------------------------------------------------------------
(***************************************************************************)
(* The escrow program: what buyers, other users and the arbiter do on the  *)
(* chain without telling anybody, and the clock.                           *)
(***************************************************************************)
SetChain(e, state) == chain' = [chain EXCEPT ![e].state = state]

\* Mutant of BuyerReleases: the program does not look at the state.
ReleaseAnyway(e) == SetChain(e, "Released")

BuyerReleases(e) ==
    /\ chain[e].state \notin {"Released", "Refunded"}
    /\ SetChain(e, "Released")

Refund(e) ==
    /\ chain[e].state \in {"Funded"} \cup (IF late THEN {"Preparing", "Ready"} ELSE {})
    /\ SetChain(e, "Refunded")

Dispute(e) ==
    /\ chain[e].state \in {"Funded", "Preparing", "Ready"}
    /\ SetChain(e, "Disputed")

Resolve(e) ==
    /\ chain[e].state = "Disputed"
    /\ \E state \in {"Released", "Refunded"} : SetChain(e, state)

OthersFund ==
    /\ Len(chain) < MaxEscrows
    /\ chain' = Append(chain, [order |-> Foreign, state |-> "Funded"])

OnChain ==
    /\ \/ \E e \in DOMAIN chain :
             /\ chain[e].order # Foreign
             /\ BuyerReleases(e) \/ Refund(e) \/ Dispute(e) \/ Resolve(e)
       \/ OthersFund
    /\ UNCHANGED <<records, late, timers, outcome, calls, wizard, failures>>

DeadlinePasses ==
    /\ ~late
    /\ late' = TRUE
    /\ UNCHANGED <<records, chain, timers, outcome, calls, wizard, failures>>

-----------------------------------------------------------------------------
(***************************************************************************)
(* The buyer's browser: the batch wizard funds every order of its list,    *)
(* the retry wizard one; each escrow is reported before the next is sent.  *)
(***************************************************************************)
\* The order of the list is the database's own.
Sign(todo, id) ==
    \E o \in todo :
        wizard' = [at |-> "sign", order |-> o, id |-> id, todo |-> todo \ {o}]

Fundable == {o \in OrderIds : orders[o] = "awaiting_funding"}

\* The wizard reads next_order_id once; the orders get consecutive ids.
StartFunding ==
    /\ wizard = Closed
    /\ Len(chain) < MaxEscrows
    /\ \E todo \in {Fundable} \cup {{o} : o \in Fundable} :
          Sign(todo, Len(chain) + 1)
    /\ UNCHANGED <<records, outside, timers, outcome, calls, failures>>

\* The program refuses an id that is not the counter's, and a deadline that
\* has passed: the wizard stops.
Fund ==
    /\ wizard.at = "sign"
    /\ \/ /\ wizard.id = Len(chain) + 1 /\ ~late
          /\ Len(chain) < MaxEscrows
          /\ chain' = Append(chain, [order |-> wizard.order, state |-> "Funded"])
          /\ wizard' = [wizard EXCEPT !.at = "report"]
       \/ /\ wizard.id <= Len(chain) \/ late
          /\ wizard' = Closed
          /\ UNCHANGED chain
    /\ UNCHANGED <<records, late, timers, outcome, calls, failures>>

\* The buyer declines in the wallet, loses the connection or leaves the page.
CloseWizard ==
    /\ wizard # Closed
    /\ wizard' = Closed
    /\ UNCHANGED <<records, outside, timers, outcome, calls, failures>>

\* The answer to a report: the wizard goes on with the next order, or stops.
WaitsFor(c) ==
    calls[c].by = "wizard" /\ wizard.at = "wait" /\ wizard.id = calls[c].id

Answer(c, ok) ==
    IF ~WaitsFor(c) THEN UNCHANGED wizard
    ELSE IF ok /\ wizard.todo # {} THEN Sign(wizard.todo, wizard.id + 1)
    ELSE wizard' = Closed

-----------------------------------------------------------------------------
(***************************************************************************)
(* The bridge: verifyFunding.                                              *)
(***************************************************************************)
\* Mutant of IsEscrowOf: the hashes are not compared.
AnyEscrow(e, o) == e \in DOMAIN chain

\* The escrow on chain carries the hashes, the buyer and the amount of the row.
IsEscrowOf(e, o) == e \in DOMAIN chain /\ chain[e].order = o

\* Mutant of Verifiable: an order already paid may be linked again.
VerifiableAgain(o, e) == IsEscrowOf(e, o) /\ chain[e].state = "Funded"

Verifiable(o, e) ==
    orders[o] = "awaiting_funding" /\ IsEscrowOf(e, o) /\ chain[e].state = "Funded"

Verify(c, o, e, by) ==
    Become(c, [at |-> "link", order |-> o, id |-> e, by |-> by])

\* The wizard's report arrives.
VerifyFunding(c) ==
    /\ At(c, "idle")
    /\ wizard.at = "report"
    /\ IF Verifiable(wizard.order, wizard.id)
       THEN /\ Verify(c, wizard.order, wizard.id, "wizard")
            /\ wizard' = [wizard EXCEPT !.at = "wait"]
       ELSE wizard' = Closed /\ UNCHANGED calls
    /\ UNCHANGED <<records, outside, timers, outcome, failures>>

\* A report repeated by other means, for any order and any escrow.
ReportAgain(c) ==
    /\ At(c, "idle")
    /\ \E o \in OrderIds, e \in DOMAIN chain :
          Verifiable(o, e) /\ Verify(c, o, e, "other")
    /\ UNCHANGED <<records, outside, timers, outcome, wizard, failures>>

LinkEscrow(c) ==
    /\ At(c, "link")
    /\ rows' = [rows EXCEPT ![calls[c].order] = [state |-> "Funded", id |-> calls[c].id]]
    /\ GoTo(c, "pay")
    /\ UNCHANGED <<orders, outside, timers, outcome, wizard, failures>>

PaidInEscrow(c) ==
    /\ At(c, "pay")
    /\ orders' = [orders EXCEPT ![calls[c].order] = "paid_in_escrow"]
    /\ GoTo(c, "tell")
    /\ UNCHANGED <<rows, outside, timers, outcome, wizard, failures>>

\* The webhook order-funded: the merchant agent sets a timer.
TellMerchant(c) ==
    /\ At(c, "tell")
    /\ timers' = [timers EXCEPT ![<<"prepare", calls[c].order>>] = @ + 1]
    /\ GoTo(c, "start")
    /\ UNCHANGED <<records, outside, outcome, wizard, failures>>

\* The webhook fails: the bridge logs it and goes on.
WebhookLost(c) ==
    /\ At(c, "tell")
    /\ Fail("offline")
    /\ GoTo(c, "start")
    /\ UNCHANGED <<records, outside, timers, outcome, wizard>>

\* Mutant of AllFunded: one funded order is enough.
SomeFunded == \E o \in OrderIds : orders[o] \in {"paid_in_escrow", "cancelled"}

AllFunded == \A o \in OrderIds : orders[o] \in {"paid_in_escrow", "cancelled"}

StartTask(c) ==
    /\ At(c, "start")
    /\ status' = IF AllFunded THEN "in_progress" ELSE status
    /\ Answer(c, TRUE)
    /\ Return(c)
    /\ UNCHANGED <<records, outside, timers, settled, failures>>

-----------------------------------------------------------------------------
(***************************************************************************)
(* The bridge: verifyUserRelease, order events, cancellation.              *)
(***************************************************************************)
Releasable == {"paid_in_escrow", "preparing", "ready"}

\* Mutant of ReleasedOnChain: the report of the release is believed.
BelieveRelease(e) == e \in DOMAIN chain

ReleasedOnChain(e) == e \in DOMAIN chain /\ chain[e].state = "Released"

VerifyUserRelease(c) ==
    /\ At(c, "idle")
    /\ \E o \in OrderIds :
          /\ orders[o] \in Releasable
          /\ ReleasedOnChain(rows[o].id)
          /\ Become(c, [Idle EXCEPT !.at = "close", !.order = o])
    /\ UNCHANGED <<records, outside, timers, outcome, wizard, failures>>

\* The row, then the order; verify-pickup ends with the same two writes.
CloseRow(c) ==
    /\ At(c, "close")
    /\ rows' = [rows EXCEPT ![calls[c].order].state = "Released"]
    /\ GoTo(c, "complete")
    /\ UNCHANGED <<orders, outside, timers, outcome, wizard, failures>>

\* Mutant of AllSettled: ready orders count as settled.
AllReady(states) == \A o \in OrderIds : states[o] \in {"ready", "completed"}

AllSettled(states) ==
    \A o \in OrderIds : states[o] \in {"completed", "refunded", "cancelled"}

\* An order's new state and the event about it: handlePgOrderEvent.
Announce(o, state) ==
    /\ orders' = [orders EXCEPT ![o] = state]
    /\ settled' = (settled \/ AllSettled(orders'))

CompleteOrder(c) ==
    /\ At(c, "complete")
    /\ Announce(calls[c].order, "completed")
    /\ Return(c)
    /\ UNCHANGED <<rows, outside, timers, status, wizard, failures>>

\* The buyer's cancel button finds no SQLite order; only the status changes.
CancelTask ==
    /\ status # "cancelled"
    /\ status' = "cancelled"
    /\ UNCHANGED <<records, outside, timers, settled, calls, wizard, failures>>

-----------------------------------------------------------------------------
(***************************************************************************)
(* The merchant agent.                                                     *)
(***************************************************************************)
Linked(o) == rows[o].id # 0

Work(stage, o, by) == [at |-> stage, order |-> o, id |-> rows[o].id, by |-> by]

Fires(kind, o) ==
    /\ timers[<<kind, o>>] > 0
    /\ timers' = [timers EXCEPT ![<<kind, o>>] = @ - 1]

\* Mutant of PrepareDue: the callback skips the transaction.
PrepareOffChain(c, o) ==
    /\ At(c, "idle")
    /\ Fires("prepare", o)
    /\ IF orders[o] = "paid_in_escrow" /\ Linked(o)
       THEN Become(c, Work("prepared", o, "other"))
       ELSE UNCHANGED calls
    /\ UNCHANGED <<records, outside, outcome, wizard, failures>>

PrepareDue(c, o) ==
    /\ At(c, "idle")
    /\ Fires("prepare", o)
    /\ IF orders[o] = "paid_in_escrow" /\ Linked(o)
       THEN Become(c, Work("prepare", o, "other"))
       ELSE UNCHANGED calls
    /\ UNCHANGED <<records, outside, outcome, wizard, failures>>

ReadyDue(c, o) ==
    /\ At(c, "idle")
    /\ Fires("ready", o)
    /\ IF orders[o] = "preparing" /\ Linked(o)
       THEN Become(c, Work("ready", o, "other"))
       ELSE UNCHANGED calls
    /\ UNCHANGED <<records, outside, outcome, wizard, failures>>

\* The merchant's own button does what the timer does.
MerchantReady(c) ==
    /\ At(c, "idle")
    /\ \E o \in OrderIds :
          /\ orders[o] = "preparing" /\ Linked(o)
          /\ Become(c, Work("ready", o, "other"))
    /\ UNCHANGED <<records, outside, timers, outcome, wizard, failures>>

\* The buyer shows the pickup code; an order still preparing is made ready first.
VerifyPickup(c) ==
    /\ At(c, "idle")
    /\ \E o \in OrderIds :
          /\ orders[o] \in {"ready", "preparing"} /\ Linked(o)
          /\ Become(c, Work(IF orders[o] = "preparing" THEN "ready" ELSE "pickup", o, "pickup"))
    /\ UNCHANGED <<records, outside, timers, outcome, wizard, failures>>

\* A transaction the program refuses makes the call throw.
Transact(c, from, to, next) ==
    IF chain[calls[c].id].state \in from
    THEN SetChain(calls[c].id, to) /\ GoTo(c, next)
    ELSE Return(c) /\ UNCHANGED chain

MarkPreparing(c) ==
    /\ At(c, "prepare")
    /\ Transact(c, {"Funded"}, "Preparing", "prepared")
    /\ UNCHANGED <<records, late, timers, outcome, wizard, failures>>

\* Mutant of OrderPreparing: the timer that makes the order ready is not set.
PreparingForGood(c) ==
    /\ At(c, "prepared")
    /\ Announce(calls[c].order, "preparing")
    /\ Return(c)
    /\ UNCHANGED <<rows, outside, timers, status, wizard, failures>>

OrderPreparing(c) ==
    /\ At(c, "prepared")
    /\ Announce(calls[c].order, "preparing")
    /\ timers' = [timers EXCEPT ![<<"ready", calls[c].order>>] = @ + 1]
    /\ Return(c)
    /\ UNCHANGED <<rows, outside, status, wizard, failures>>

MarkReady(c) ==
    /\ At(c, "ready")
    /\ Transact(c, {"Preparing"}, "Ready", "readied")
    /\ UNCHANGED <<records, late, timers, outcome, wizard, failures>>

OrderReady(c) ==
    /\ At(c, "readied")
    /\ Announce(calls[c].order, "ready")
    /\ IF calls[c].by = "pickup" THEN GoTo(c, "pickup") ELSE Return(c)
    /\ UNCHANGED <<rows, outside, timers, status, wizard, failures>>

\* confirm_pickup pays the merchant; only then are the records closed.
ConfirmPickup(c) ==
    /\ At(c, "pickup")
    /\ Transact(c, {"Preparing", "Ready"}, "Released", "close")
    /\ UNCHANGED <<records, late, timers, outcome, wizard, failures>>

-----------------------------------------------------------------------------
(***************************************************************************)
(* Failures between two steps.                                             *)
(***************************************************************************)
\* A database or network call in the middle of a handler throws.
Abort(c) ==
    /\ ~At(c, "idle")
    /\ Fail("abort")
    /\ Answer(c, FALSE)
    /\ Return(c)
    /\ UNCHANGED <<records, outside, timers, outcome>>

MerchantCall(frame) ==
    frame.by = "pickup" \/ frame.at \in {"prepare", "prepared", "ready", "readied"}

\* The merchant agent restarts: its timers live in memory only.
MerchantRestart ==
    /\ Fail("restart")
    /\ timers' = [t \in DOMAIN timers |-> 0]
    /\ calls' = [c \in Calls |-> IF MerchantCall(calls[c]) THEN Idle ELSE calls[c]]
    /\ UNCHANGED <<records, outside, outcome, wizard>>

-----------------------------------------------------------------------------
\* What a request or timer run in flight does next.
Step(c) ==
    \/ VerifyFunding(c)
    \/ LinkEscrow(c)
    \/ PaidInEscrow(c)
    \/ TellMerchant(c)
    \/ StartTask(c)
    \/ CloseRow(c)
    \/ CompleteOrder(c)
    \/ MarkPreparing(c)
    \/ OrderPreparing(c)
    \/ MarkReady(c)
    \/ OrderReady(c)
    \/ ConfirmPickup(c)

TimerFires(o) == \E c \in Calls : PrepareDue(c, o) \/ ReadyDue(c, o)

Next ==
    \/ \E c \in Calls :
          \/ Step(c)
          \/ ReportAgain(c)
          \/ WebhookLost(c)
          \/ VerifyUserRelease(c)
          \/ MerchantReady(c)
          \/ VerifyPickup(c)
          \/ Abort(c)
    \/ \E o \in OrderIds : TimerFires(o)
    \/ StartFunding
    \/ Fund
    \/ CloseWizard
    \/ OnChain
    \/ DeadlinePasses
    \/ CancelTask
    \/ MerchantRestart

Spec == Init /\ [][Next]_vars

\* A call in flight goes on, and a due timer fires however busy the slots are.
FairSpec ==
    /\ Spec
    /\ \A c \in Calls : WF_vars(Step(c))
    /\ \A o \in OrderIds : SF_vars(TimerFires(o))

-----------------------------------------------------------------------------
(***************************************************************************)
(* What holds however requests, timers and failures interleave.            *)
(***************************************************************************)
\* Some escrow of the order is, on the chain, in one of the states.
Evidence(o, states) ==
    \E e \in DOMAIN chain : chain[e].order = o /\ chain[e].state \in states

\* What the chain must have done before a record may say so.
Grounds ==
    [paid_in_escrow |-> ChainStates,
     preparing      |-> ChainStates \ {"Funded"},
     ready          |-> ChainStates \ {"Funded", "Preparing"},
     completed      |-> {"Released"}]

\* The records never run ahead of the chain: an order is paid, preparing, ready
\* or completed, and its row Released, only after an escrow of that order was.
RecordsFollowChain ==
    \A o \in OrderIds :
        /\ orders[o] \in DOMAIN Grounds => Evidence(o, Grounds[orders[o]])
        /\ rows[o].state = "Released" => Evidence(o, {"Released"})

\* The escrow linked to an order carries that order's own pickup code: no report
\* makes a merchant prepare, or a buyer pay, on the escrow of another order.
LinkedEscrowIsOwn ==
    \A o \in OrderIds :
        Linked(o) => rows[o].id \in DOMAIN chain /\ chain[rows[o].id].order = o

\* The records are well formed and never ahead of the chain, whatever calls
\* overlap, abort or are forgotten by a restart.
RecordsAreTrue == TypeOK /\ RecordsFollowChain

\* A task in progress has an escrow on the chain for each of its orders.
StartedIsFunded ==
    status = "in_progress" => \A o \in OrderIds : Evidence(o, ChainStates)

\* Once the task is reported settled, every order of it has had an escrow with
\* its own pickup code released on the chain: no order is reported settled while
\* its money can still go back to the buyer. To which merchant it went is not
\* said: verifyFunding compares buyer, amount and hashes, not the merchant.
SettledMeansReleased ==
    settled => \A o \in OrderIds : Evidence(o, {"Released"})

Lives ==
    [e \in 1 .. MaxEscrows |-> IF e <= Len(chain) THEN chain[e].state ELSE "None"]

Life == INSTANCE EscrowLife WITH Ids <- 1 .. MaxEscrows, life <- Lives

\* The chain the bridge and the merchants observe lives as EscrowLife says.
ChainFollowsLife == Life!Spec

-----------------------------------------------------------------------------
(***************************************************************************)
(* What holds when one call runs at a time.                                *)
(***************************************************************************)
Quiet(o) == \A c \in Calls : At(c, "idle") \/ calls[c].order # o

\* Somebody settled or disputed the linked escrow on the chain directly.
TakenOver(o) ==
    Linked(o) /\ chain[rows[o].id].state \in {"Disputed", "Released", "Refunded"}

RecordOf == [Funded |-> "paid_in_escrow", Preparing |-> "preparing", Ready |-> "ready"]

\* When nothing is in flight for an order, the record says what the chain says,
\* unless somebody settled or disputed the escrow on the chain directly: so the
\* next transaction a merchant or buyer is offered is one the program accepts.
RecordsAgree ==
    \A o \in OrderIds :
        Quiet(o) /\ Linked(o) =>
            TakenOver(o) \/ orders[o] = RecordOf[chain[rows[o].id].state]

Rank ==
    [awaiting_funding |-> 0, merchant_rejected |-> 0, paid_in_escrow |-> 1,
     preparing |-> 2, ready |-> 3, completed |-> 4]

\* An order never falls back to an earlier state and keeps its linked escrow.
NeverRegresses ==
    [][\A o \in OrderIds :
          /\ Rank[orders'[o]] >= Rank[orders[o]]
          /\ Linked(o) => rows'[o].id = rows[o].id]_vars

\* A paid order does not wait for ever: it is made ready by the timers alone,
\* unless the webhook was lost or the escrow is no longer the merchant's to use.
PaidIsPrepared ==
    \A o \in OrderIds :
        orders[o] = "paid_in_escrow" ~>
            \/ orders[o] \in {"ready", "completed"}
            \/ TakenOver(o)
            \/ failures > 0

=============================================================================
