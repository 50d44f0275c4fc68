--------------------------- MODULE ResearchPayments ---------------------------
(***************************************************************************)
(* Paid research: the bridge asks merchants for quotes, reservations and   *)
(* discounts, and pays for each request with an x402 handshake (402, pay,  *)
(* ask again with the proof).  Two payment providers are modelled.  The    *)
(* mock provider checks the task's budget and books the payment in one     *)
(* synchronous step.  The Solana provider transfers tokens from the        *)
(* account's session wallet: it checks first, and books what it spent      *)
(* after several awaits.                                                   *)
(*                                                                         *)
(* A research run is a frame in calls and every await is an interleaving   *)
(* point; a plan may be refined and approved again while an earlier run is *)
(* still at work.  All tasks belong to one account and one day.  Which     *)
(* merchants are worth asking is a choice; plans, prices of goods and      *)
(* quotes are left out.  An answer of a merchant and what its gate books   *)
(* are one step.                                                           *)
(***************************************************************************)
EXTENDS Integers, Sequences, FiniteSets, Functions

CONSTANTS
    Tasks,          \* tasks of one account
    Merchants,      \* merchants the discovery returns
    Runs,           \* research runs that may be in flight at once
    Providers,      \* payment providers to start with: "mock", "solana"
    Parallel,       \* how many of the runs each provider is given
    Price,          \* the fee of a request, by phase of the research
    Requests,       \* whom to ask, in order, by phase: discovery, scarce goods, leaders
    Budget,         \* RESEARCH_BUDGET_TOTAL_MICRO
    PerRequest,     \* RESEARCH_BUDGET_PER_REQUEST_MICRO
    PerDay,         \* SESSION_WALLET_PER_DAY_MICRO
    MaxPayments,    \* MAX_PAYMENTS_PER_TASK
    MaxMerchants,   \* MAX_PAID_MERCHANTS
    MaxRefines,     \* bound: plan revisions asked for
    FailureKinds,   \* what may fail
    MaxFailures     \* bound: failures of each kind

Phases == {"quoting", "reserving", "negotiating"}

\* A request or its answer is lost, an answer breaks off after its headers, a
\* gate answers without taking the payment (an error other than 402), a transfer
\* is not confirmed in time, a merchant's node does not know it yet.
Kinds == {"network", "body", "refusal", "unconfirmed", "lag"}

ASSUME PaymentAssumption ==
    /\ Providers \subseteq {"mock", "solana"}
    /\ IsFiniteSet(Runs)
    /\ Parallel \in [Providers -> Nat]
    /\ Tasks # {} /\ Merchants # {}
    /\ Price \in [Phases -> Nat]
    /\ Requests \in [Phases -> Seq(Merchants)]
    /\ {Budget, PerRequest, PerDay, MaxPayments, MaxMerchants,
        MaxRefines, MaxFailures} \subseteq Nat
    /\ FailureKinds \subseteq Kinds

VARIABLES
    provider,   \* the configured payment provider
    status,     \* tasks.status
    refining,   \* plan revisions the language model is working on, by task
    payments,   \* every payment issued, oldest first
    daily,      \* session_wallets.daily_spent_micro
    calls,      \* where each research run stands
    refines,    \* plan revisions so far
    failures    \* failures so far, by kind

vars == <<provider, status, refining, payments, daily, calls, refines, failures>>

\* A payment as the bridge's spend row, the ledger's event, the chain and the
\* merchant's gate know it.
Payments ==
    [task : Tasks, merchant : Merchants, price : Nat,
     row : {"none", "pending", "settled", "refunded"},
     event : {"none", "pending", "confirmed", "failed"},
     landed : BOOLEAN,          \* the transfer is on the chain
     taken : BOOLEAN,           \* the merchant's gate accepted the proof
     refund : BOOLEAN]          \* the merchant marked the fee as refunded

Answers == {"none", "ok", "declined", "refund", "rejected", "refused"}

Frames ==
    [at : {"idle", "discover", "visit", "pay", "daily", "transfer", "confirm", "count",
           "send", "answer"},
     task : Tasks, phase : Phases,
     left : Seq(Merchants),         \* requests still to make in this phase
     got : SUBSET Merchants,        \* merchants with a verified quote
     merchant : Merchants, payment : Nat, base : Nat, answer : Answers]

Idle == [at |-> "idle", task |-> CHOOSE t \in Tasks : TRUE, phase |-> "quoting",
         left |-> <<>>, got |-> {},
         merchant |-> CHOOSE m \in Merchants : TRUE,
         payment |-> 0, base |-> 0, answer |-> "none"]

Statuses == {"awaiting_list_approval", "researching", "options_ready", "failed"}

TypeOK ==
    /\ provider \in Providers
    /\ status \in [Tasks -> Statuses]
    /\ refining \in [Tasks -> Nat]
    /\ payments \in Seq(Payments)
    /\ daily \in Nat
    /\ calls \in [Runs -> Frames]
    /\ \A r \in Runs : calls[r].payment \in 0 .. Len(payments)
    /\ refines \in 0 .. MaxRefines
    /\ failures \in [FailureKinds -> 0 .. MaxFailures]

Init ==
    /\ provider \in Providers
    /\ status = [t \in Tasks |-> "awaiting_list_approval"]
    /\ refining = [t \in Tasks |-> 0]
    /\ payments = <<>>
    /\ daily = 0
    /\ calls = [r \in Runs |-> Idle]
    /\ refines = 0
    /\ failures = [kind \in FailureKinds |-> 0]

-----------------------------------------------------------------------------
Become(r, frame) == calls' = [calls EXCEPT ![r] = frame]

At(r, stage) == calls[r].at = stage

GoTo(r, stage) == Become(r, [calls[r] EXCEPT !.at = stage])

Fail(kind) ==
    /\ kind \in FailureKinds
    /\ failures[kind] < MaxFailures
    /\ failures' = [failures EXCEPT ![kind] = @ + 1]

plan == <<provider, refining, refines>>
books == <<payments, daily>>

SetStatus(t, s) == status' = [status EXCEPT ![t] = s]

\* The exception ends the run, and fail() marks the task.
Throw(r) ==
    /\ SetStatus(calls[r].task, "failed")
    /\ Become(r, Idle)

\* The run's own payment.
Mine(r) == payments[calls[r].payment]

Book(r, payment) == payments' = [payments EXCEPT ![calls[r].payment] = payment]

-----------------------------------------------------------------------------
(***************************************************************************)
(* The plan.                                                               *)
(***************************************************************************)
\* refine-plan: the check, then the model works on its own time.
RefinePlan(t) ==
    /\ status[t] = "awaiting_list_approval"
    /\ refines < MaxRefines
    /\ refines' = refines + 1
    /\ refining' = [refining EXCEPT ![t] = @ + 1]
    /\ UNCHANGED <<provider, status, books, calls, failures>>

\* The model answers: the status is written without looking at it again.
PlanReady(t) ==
    /\ refining[t] > 0
    /\ refining' = [refining EXCEPT ![t] = @ - 1]
    /\ SetStatus(t, "awaiting_list_approval")
    /\ UNCHANGED <<provider, books, calls, refines, failures>>

\* The model fails: so does the task, whatever it is doing by now.
RefineFails(t) ==
    /\ refining[t] > 0
    /\ Fail("network")
    /\ refining' = [refining EXCEPT ![t] = @ - 1]
    /\ SetStatus(t, "failed")
    /\ UNCHANGED <<provider, books, calls, refines>>

ApprovePlan(r, t) ==
    /\ At(r, "idle")
    /\ Cardinality({o \in Runs : ~At(o, "idle")}) < Parallel[provider]
    /\ status[t] = "awaiting_list_approval"
    /\ SetStatus(t, "researching")
    /\ Become(r, [Idle EXCEPT !.at = "discover", !.task = t])
    /\ UNCHANGED <<plan, books, failures>>

-----------------------------------------------------------------------------
(***************************************************************************)
(* The research run: quotes, then reservations, then negotiations.         *)
(***************************************************************************)
\* The merchants nearby; the status is written again, whatever it is by now.
Discover(r) ==
    /\ At(r, "discover")
    /\ SetStatus(calls[r].task, "researching")
    /\ Become(r, [calls[r] EXCEPT !.at = "visit", !.left = Requests["quoting"]])
    /\ UNCHANGED <<plan, books, failures>>

Visits(r) == At(r, "visit") /\ calls[r].left # <<>>

\* Mutant of Rest: the request stays on the list.
Again(r) == calls[r].left

Rest(r) == Tail(calls[r].left)

\* The merchant sells none of it, or has enough of it, or never bargains; or it
\* answers the first request without asking for a fee, and not with a quote.
Skip(r) ==
    /\ Visits(r)
    /\ Become(r, [calls[r] EXCEPT !.left = Rest(r)])
    /\ UNCHANGED <<status, plan, books, failures>>

\* The first request is answered 402: the fee has to be paid.  After the quotes
\* only merchants whose quote was verified are asked.
Ask(r) ==
    /\ Visits(r)
    /\ calls[r].phase # "quoting" => Head(calls[r].left) \in calls[r].got
    /\ Become(r, [calls[r] EXCEPT !.at = "pay", !.merchant = Head(calls[r].left),
                                   !.left = Rest(r)])
    /\ UNCHANGED <<status, plan, books, failures>>

Fee(r) == Price[calls[r].phase]

Done(r, phase) ==
    /\ At(r, "visit") /\ calls[r].left = <<>>
    /\ calls[r].phase = phase
    /\ UNCHANGED <<plan, books, failures>>

Begin(r, phase) ==
    Become(r, [calls[r] EXCEPT !.phase = phase, !.left = Requests[phase]])

EndQuoting(r) ==
    /\ Done(r, "quoting")
    /\ IF calls[r].got = {}
       THEN Throw(r)
       ELSE Begin(r, "reserving") /\ SetStatus(calls[r].task, "researching")

EndReserving(r) ==
    Done(r, "reserving") /\ Begin(r, "negotiating") /\ UNCHANGED status

\* The options are built from the candidates' quotes.
EndNegotiating(r) ==
    /\ Done(r, "negotiating")
    /\ SetStatus(calls[r].task, "options_ready")
    /\ Become(r, Idle)

\* Discovery or a first request fails, which no handler catches.
NetworkFails(r) ==
    /\ calls[r].at \in {"discover", "visit"}
    /\ Fail("network")
    /\ Throw(r)
    /\ UNCHANGED <<plan, books>>

-----------------------------------------------------------------------------
(***************************************************************************)
(* The checks of pay().                                                    *)
(***************************************************************************)
\* Mutant of Counts: payments still pending are not counted.
CountsSettled(row) == row = "settled"

Counts(row) == row \in {"pending", "settled"}

\* The task's payments in the bridge's spend table that were not refunded.
Counted(t) == {p \in DOMAIN payments : payments[p].task = t /\ Counts(payments[p].row)}

Cost(ps) == SumFunctionOnSet([p \in DOMAIN payments |-> payments[p].price], ps)

WithinBudget(r) ==
    /\ Fee(r) <= PerRequest
    /\ Cost(Counted(calls[r].task)) + Fee(r) <= Budget

\* Merchants with a spend row of this task, refunded rows included.
Known(t) == {payments[p].merchant : p \in {q \in DOMAIN payments :
                payments[q].task = t /\ payments[q].row # "none"}}

FewEnough(r) ==
    LET t == calls[r].task
        paid == {payments[p].merchant : p \in Counted(t)}
    IN  /\ Cardinality(Counted(t)) < MaxPayments
        /\ Cardinality(paid) < MaxMerchants \/ calls[r].merchant \in Known(t)

\* BudgetExceededError is caught: the run goes on with its next request.
Blocked(r) == GoTo(r, "visit") /\ UNCHANGED books

Issue(r, row, event, stage) ==
    /\ payments' = Append(payments,
          [task |-> calls[r].task, merchant |-> calls[r].merchant,
           price |-> Fee(r), row |-> row, event |-> event,
           landed |-> FALSE, taken |-> FALSE, refund |-> FALSE])
    /\ Become(r, [calls[r] EXCEPT !.at = stage, !.payment = Len(payments) + 1])
    /\ UNCHANGED daily

-----------------------------------------------------------------------------
(***************************************************************************)
(* MockPaymentProvider: check and booking are one synchronous step.        *)
(***************************************************************************)
PayMock(r) ==
    /\ At(r, "pay") /\ provider = "mock"
    /\ IF WithinBudget(r) THEN Issue(r, "pending", "none", "send") ELSE Blocked(r)
    /\ UNCHANGED <<status, plan, failures>>

-----------------------------------------------------------------------------
(***************************************************************************)
(* SolanaPaymentProvider.                                                  *)
(***************************************************************************)
PayOnChain(r) ==
    /\ At(r, "pay") /\ provider = "solana"
    /\ IF WithinBudget(r) /\ FewEnough(r)
       THEN GoTo(r, "daily") /\ UNCHANGED books
       ELSE Blocked(r)
    /\ UNCHANGED <<status, plan, failures>>

\* The wallet's counter, then the ledger's event, pending.
CheckDaily(r) ==
    /\ At(r, "daily")
    /\ IF daily + Fee(r) <= PerDay
       THEN Issue(r, "none", "pending", "transfer")
       ELSE Blocked(r)
    /\ UNCHANGED <<status, plan, failures>>

\* Under the wallet's lock: sent and confirmed.
Transfer(r) ==
    /\ At(r, "transfer")
    /\ Book(r, [Mine(r) EXCEPT !.landed = TRUE])
    /\ GoTo(r, "confirm")
    /\ UNCHANGED <<status, plan, daily, failures>>

\* Mutant of TransferUnconfirmed: the error is noted and not thrown again.
CarryOn(r) ==
    /\ At(r, "transfer")
    /\ Fail("unconfirmed")
    /\ \E landed \in BOOLEAN :
          Book(r, [Mine(r) EXCEPT !.event = "failed", !.landed = landed])
    /\ GoTo(r, "send")
    /\ UNCHANGED <<status, plan, daily>>

\* No confirmation within the time limit: the transfer landed or it did not,
\* the event is marked failed and the run throws.
TransferUnconfirmed(r) ==
    /\ At(r, "transfer")
    /\ Fail("unconfirmed")
    /\ \E landed \in BOOLEAN :
          Book(r, [Mine(r) EXCEPT !.event = "failed", !.landed = landed])
    /\ Throw(r)
    /\ UNCHANGED <<plan, daily>>

\* The event is confirmed, then recordSessionWalletSpend reads the counter.
ConfirmEvent(r) ==
    /\ At(r, "confirm")
    /\ Book(r, [Mine(r) EXCEPT !.event = "confirmed"])
    /\ Become(r, [calls[r] EXCEPT !.at = "count", !.base = daily])
    /\ UNCHANGED <<status, plan, daily, failures>>

AddDaily(r) == daily' = calls[r].base + Fee(r)

\* It writes the sum, and only now the payment is booked in the spend table.
CountSpend(r) ==
    /\ At(r, "count")
    /\ AddDaily(r)
    /\ Book(r, [Mine(r) EXCEPT !.row = "pending"])
    /\ Become(r, [calls[r] EXCEPT !.at = "send", !.base = 0])
    /\ UNCHANGED <<status, plan, failures>>

-----------------------------------------------------------------------------
(***************************************************************************)
(* The second request, with the proof.                                     *)
(***************************************************************************)
\* The gate accepts the proof and the handler answers, with a result or an
\* error; a negotiation that fails is answered with the fee marked as refunded.
Serve(r) ==
    /\ At(r, "send")
    /\ \E answer \in {"ok", "declined", "refund"} :
          /\ answer = "refund" => calls[r].phase = "negotiating"
          /\ Book(r, [Mine(r) EXCEPT !.taken = TRUE, !.refund = (answer = "refund")])
          /\ Become(r, [calls[r] EXCEPT !.at = "answer", !.answer = answer])
    /\ UNCHANGED <<status, plan, daily, failures>>

\* The merchant's node does not know the transaction yet: 402 again.
RejectProof(r) ==
    /\ At(r, "send") /\ provider = "solana"
    /\ Fail("lag")
    /\ Become(r, [calls[r] EXCEPT !.at = "answer", !.answer = "rejected"])
    /\ UNCHANGED <<status, plan, books>>

\* The gate answers with an error before it looks at the proof: the merchant was
\* deactivated meanwhile (404), its chain is not configured (501), its store fails.
Refuse(r) ==
    /\ At(r, "send")
    /\ Fail("refusal")
    /\ Become(r, [calls[r] EXCEPT !.at = "answer", !.answer = "refused"])
    /\ UNCHANGED <<status, plan, books>>

\* The request or its answer is lost: the bridge takes the payment back.
AnswerLost(r) ==
    /\ calls[r].at \in {"send", "answer"}
    /\ Fail("network")
    /\ Book(r, [Mine(r) EXCEPT !.row = "refunded"])
    /\ Throw(r)
    /\ UNCHANGED <<plan, daily>>

\* The answer breaks off after its headers, and reading its body throws: the row
\* stays as it is.
BodyBroken(r) ==
    /\ At(r, "answer")
    /\ Fail("body")
    /\ Throw(r)
    /\ UNCHANGED <<plan, books>>

\* Any answer that neither refunds the fee nor asks for one again settles it.
Outcome(answer) == IF answer \in {"refund", "rejected"} THEN "refunded" ELSE "settled"

\* The row is closed; a quote that was answered makes its merchant a candidate.
Settle(r) ==
    LET quoted == calls[r].phase = "quoting" /\ calls[r].answer = "ok"
    IN  /\ At(r, "answer")
        /\ Book(r, [Mine(r) EXCEPT !.row = Outcome(calls[r].answer)])
        /\ Become(r, [calls[r] EXCEPT !.at = "visit", !.payment = 0, !.answer = "none",
                        !.got = IF quoted THEN @ \cup {calls[r].merchant} ELSE @])
        /\ UNCHANGED <<status, plan, daily, failures>>

-----------------------------------------------------------------------------
\* What a run does next.
Step(r) ==
    \/ Discover(r)
    \/ Skip(r)
    \/ Ask(r)
    \/ EndQuoting(r)
    \/ EndReserving(r)
    \/ EndNegotiating(r)
    \/ PayMock(r)
    \/ PayOnChain(r)
    \/ CheckDaily(r)
    \/ Transfer(r)
    \/ ConfirmEvent(r)
    \/ CountSpend(r)
    \/ Serve(r)
    \/ Settle(r)

Next ==
    \/ \E t \in Tasks : RefinePlan(t) \/ PlanReady(t) \/ RefineFails(t)
    \/ \E r \in Runs :
          \/ \E t \in Tasks : ApprovePlan(r, t)
          \/ Step(r)
          \/ NetworkFails(r)
          \/ TransferUnconfirmed(r)
          \/ RejectProof(r)
          \/ Refuse(r)
          \/ AnswerLost(r)
          \/ BodyBroken(r)

Spec == Init /\ [][Next]_vars

\* A run goes on until it ends: nothing it waits for is without a time limit.
FairSpec == Spec /\ \A r \in Runs : WF_vars(Step(r))

-----------------------------------------------------------------------------
(***************************************************************************)
(* Properties.                                                             *)
(***************************************************************************)
Quiet == \A r \in Runs : At(r, "idle")

\* The payments of a task that count against its budget never exceed it, those
\* still pending included, even while two runs of the task pay at once.
BudgetHolds == \A t \in Tasks : Cost(Counted(t)) <= Budget

\* With the Solana provider a task makes no more payments than it may.
CountHolds ==
    provider = "solana" =>
        \A t \in Tasks : Cardinality(Counted(t)) <= MaxPayments

\* How often something of a kind failed.
Failures(kind) == IF kind \in FailureKinds THEN failures[kind] ELSE 0

AtMost(ps, kind) == Cardinality(ps) <= Failures(kind)

\* The rows at rest are closed, and a settled one was taken by its merchant --
\* but for one pending row per broken answer and one settled row per refusal.  A
\* fee that the merchant marked as refunded is never settled.
BooksClosed ==
    /\ \A p \in DOMAIN payments : payments[p].row = "settled" => ~payments[p].refund
    /\ Quiet =>
          /\ AtMost({p \in DOMAIN payments : payments[p].row = "pending"}, "body")
          /\ AtMost({p \in DOMAIN payments :
                        payments[p].row = "settled" /\ ~payments[p].taken}, "refusal")

\* The bridge's books and the merchants' agree: besides, when no run is at work,
\* a payment a merchant took and kept is in a row that counts -- but for one per
\* lost answer, whose fee the bridge takes back from its books.
BooksMatch ==
    /\ BooksClosed
    /\ Quiet => AtMost({p \in DOMAIN payments :
                  /\ payments[p].taken /\ ~payments[p].refund
                  /\ ~Counts(payments[p].row)}, "network")

\* A confirmed event has its transfer, and a merchant only ever takes a payment
\* that the ledger has confirmed.
TakenIsPaid ==
    provider = "solana" =>
        \A p \in DOMAIN payments :
            /\ payments[p].event = "confirmed" => payments[p].landed
            /\ payments[p].taken => payments[p].event = "confirmed"

\* The ledger and the chain agree: whatever merchants took is paid and confirmed,
\* and when no run is at work no other transfer landed -- but for one per missing
\* confirmation.
LedgerMatches ==
    /\ TakenIsPaid
    /\ provider = "solana" /\ Quiet =>
          AtMost({p \in DOMAIN payments :
              payments[p].landed /\ payments[p].event # "confirmed"}, "unconfirmed")

\* With one run at a time the wallet's daily counter is what the ledger says.
DailyMatches ==
    provider = "solana" /\ Quiet =>
        daily = Cost({p \in DOMAIN payments : payments[p].event = "confirmed"})

\* The limits of a task hold: what counts against its budget, and with the
\* Solana provider the number of its payments (paymentClient.ts).
LimitsHold == BudgetHolds /\ CountHolds

\* Bridge, ledger, chain, daily counter and merchants tell one story about
\* every payment, but for one payment per lost or broken answer, refusal or
\* missing confirmation.
BooksAgree == TypeOK /\ BooksMatch /\ LedgerMatches /\ DailyMatches

\* Research ends: a task under research gets its options or fails, whatever
\* merchants decline and however many requests the budget blocks.
ResearchEnds ==
    \A t \in Tasks :
        status[t] = "researching" ~>
            status[t] \in {"options_ready", "failed", "awaiting_list_approval"}

=============================================================================
