# MerchantMesh: TLA+ models, checks and proofs

MerchantMesh lets a buyer's agent ask several merchants for quotes, pays each for
its answers, places orders with the best of them and holds the money in an escrow
until pickup. This directory models its control flow in TLA+, checks it with TLC
on small instances and proves the main safety results with TLAPS.

    tlc -config MCResearch.cfg MCResearchPayments.tla     # one run
    tlapm ResearchPayments_proofs.tla                      # one module of proofs

`PROJECT.json` lists the runs, a mutant of the model for each property (a plausible
bug that TLC must find), the source lines behind every definition, the findings,
the hazards and the theorems.

## 1. The system

| Part | State | Operations | Talks to |
|---|---|---|---|
| **Escrow program** `src/solana/programs/order_escrow` | config (counter, arbiter, mint), merchant wallets, orders, one token vault per live order | initialize, set_merchant_wallet, set_usdc_mint, fund, mark_preparing, mark_ready, dispute, confirm_pickup, refund, user_release, resolve | signed transactions of buyers, merchants, arbiter |
| **Bridge** `src/apps/local-agent-bridge` | tasks, plans, quotes seen, spend rows, its own SQLite orders; task orders, acceptances and escrow rows in Postgres | plan, research, build options, approve, acceptance window, funding, verification of funding and release, cancel, settle | HTTP to merchants, webhooks from them, the chain, the browser |
| **Merchant agent** `src/apps/merchant-agents` | quotes, reservations, stock, SQLite orders, timers, used payment proofs | quote, reserve, negotiate (each behind the payment gate), accept / reject, prepare, ready, verify pickup, worker tick | HTTP to the bridge, the chain |
| **Shared database** `src/packages/db` | Postgres tables | one function per query, almost none in a transaction | both programs |
| **Research wallet** `paymentClient.ts`, `sessionWallet.ts` | spend rows, payment events, daily counter, token account | pay, settle, refund, budget | merchants' payment gate, the chain |
| **Web client** `src/apps/web` | the open page | funding wizard, release | bridge, the buyer's wallet |
| **Platform API** `src/apps/platform-api` | accounts, sessions, organizations, disputes, rate limit | login, merchant drafts and publication, dispute review, resolution, closing | Postgres, Redis, directory and escrow programs |
| **Solana client layer** `src/packages/shared/src/solana` and the providers of each application | none | derived addresses, IDL codec, one wrapper per instruction, sending and confirming | the three programs |
| **Receipt and directory programs** | receipts, merchant entries, the counter of ids | initialize, list_merchant, set_active, create_receipt, record_refund | relayer |
| **Scripts** `src/scripts` | none | bootstrap of the programs, seeds | programs, Postgres |
| **LLM planner, event bus** | none that others rely on | text, pub/sub | |

There are two saga paths. With Postgres and the real chain, approval opens an
acceptance window, merchants confirm, the buyer funds from the browser and merchants
advance orders on timers. With the mock chain the bridge funds everything itself in
one loop (`approvePayment`, `fundShop`) and settles from merchants' webhooks.

What is hard:

* **Awaits.** Both TypeScript programs run handlers, timers and background loops on
  one event loop each and read the database, await, and write it blindly. What was
  read may be stale when it is used.
* **Two programs, one database.** A merchant's accept is written by one program and
  acted upon by the other after an HTTP post that may be lost.
* **Transactions at READ COMMITTED.** Stock is guarded by conditional updates and
  CHECKs; what is read by a plain SELECT before them is not.
* **A third party on the chain.** The buyer may release, refund or dispute with no
  program's help; the records have to follow.
* **A database and a chain.** Publishing a merchant or resolving a dispute writes
  both, in several steps, and a transaction that was not confirmed may still land.
* **Timers in memory** (auto-prepare, auto-ready, acceptance timer, worker tick) that
  a restart forgets or repeats.
* **Money that cannot come back.** A transfer that times out may have landed; a fee
  that is "refunded" is refunded on paper only.
* **Integer arithmetic.** Discounts are spread over lines with a floor each and
  clipped at minimum prices; account lists and arguments are matched by position.

The properties that make each part correct: the escrow pays each deposit once and
whole, to the buyer or to the wallet of a registered merchant (the program does not
compare that merchant's id with the order's: `user_release.rs:17`,
`confirm_pickup.rs:10`); the acceptance saga serves or drops every basket, gives back
exactly the stock that was committed and ends; fulfilment never lets a record run
ahead of the chain and never regresses; the demo saga's books, receipt, money and
stock agree with its chain and overdue money is settled; research stays inside its
budgets, keeps the books of bridge, ledger, chain and merchant in agreement and ends;
stock is never sold twice, lost or locked for good; prices stay between what was
authorised and the floor, and one payment buys one answer; the options serve the
approved list and the cheapest is the cheapest; a published merchant's id is its own
and pays its wallet, or the seed's if the bootstrap script set that over it; a settled
dispute says what the chain did. Where the code keeps less than one would like, the
property names the exception and is exact about it: it fails for every other reason.

## 2. Modules

| Module | Models | Proofs |
|---|---|---|
| `OrderEscrow` | every instruction of the escrow program | `Custody_proofs`, first part |
| `EscrowPromise` | abstract: money enters a pot once, leaves it once and whole, unless a stranger jams the pot | refined by `OrderEscrow` |
| `EscrowLife` | abstract: the life of an escrow seen from outside | refined by `OrderEscrow`, `PgFulfilment` and each escrow of `MockSaga` |
| `AcceptanceSaga` | approval to the opening of funding (Postgres path) | `AcceptanceSaga_proofs` |
| `PgFulfilment` | funding to pickup, release or cancellation (Postgres path) | `PgFulfilment_proofs` |
| `ResearchPayments` | plan approval, research loop, x402 payments, both providers | `ResearchPayments_proofs` |
| `MockSaga` | the saga without Postgres: funding loop, mock chain, merchant's orders, worker, finalize | `MockSaga_proofs` |
| `PgStock` | stock and reservations in Postgres, transaction by transaction | `Custody_proofs`, second part |
| `Pricing` | price arithmetic, pure operators | in `Quotes_proofs` |
| `QuoteDesk` | payment gate, quote, basket quote, negotiation and order routes (uses `Pricing`) | `Quotes_proofs`, first part |
| `Options` | the options builder, pure operators (uses `Pricing`) | `Quotes_proofs`, second part |
| `ShoppingTask` | list approval, gathering of quotes, negotiation, choice of options (uses `Options`) | `Quotes_proofs`, second part |
| `ProgramIdls` | the interfaces of the three programs as tables | |
| `IdlCodec` | encoding and decoding by those tables, and what a program accepts | `PlatformDesk_proofs` |
| `ChainCalls` | addresses, wrappers, the providers' calls | `PlatformDesk_proofs` |
| `PlatformDesk` | merchant publication, disputes, the bootstrap script; all its chain calls go through `ChainCalls` | `PlatformDesk_proofs` |
| `SumTheorems` | lemmas about sums over finite sets, shared by the proofs | |
| `MC*` | the instances TLC checks | |

`AcceptanceSaga` and `PgFulfilment` meet at the opening of the funding step: the
first ends in the state the second starts from. `PgFulfilment` contains the escrow
program as a list of escrows, and `EscrowLife` ties the two levels together: the
program is proved to obey it, and so is the chain as the off-chain programs move it.
`ShoppingTask` takes a call as answered or not; how it is paid is `ResearchPayments`,
how it is worked for at the merchant's is `QuoteDesk`, and what the chosen option
becomes is `AcceptanceSaga` or `MockSaga`. `PlatformDesk` composes the chain client
layer with the database: an instruction has its effect only if the accounts and
arguments that the client sends are those the program expects.

### State and actions

* **OrderEscrow.** Accounts become functions (`orders`, `vaults`, `tokens`,
  `merchantWallet`, `config`), an instruction is an action whose guard is its
  `require!`s and account constraints. Ids below a bound, a clock that ticks. The
  mint of the configuration may change while orders are live. The merchant's wallet
  in `fund` is the caller's argument. Strangers may send tokens to a vault
  (`SendToVault`; `strays` remembers how many): the payouts transfer `order.amount`
  and close the vault, which the token program refuses while something is left, so
  they are then disabled. Left out: `quote_hash`, rent, bumps, events.
* **AcceptanceSaga.** Tables become sequences and functions (`orders`, `acceptances`,
  `escrows`, `stock`, `dropped`). A handler in flight is a record in `calls` with the
  place where it stands and what it has read; each await ends an action. So `Accept`
  commits stock and decides, `ResolveMerchantAcceptance` writes the order when the
  post arrives, and the saga (`TryAlternative`, `DropShop`, `CancelPgTask`,
  `MaybeOpenFunding`) continues from what it read. Opening funding takes two steps an
  order, its update and the insert of its escrow row (`OpenEscrow`, `WriteEscrowRow`);
  cancelling takes two as well, the restock and the write of the order's state
  (`RestockAfterCancel`, `CancelListedOrder`); a restart may fall between any two.
  `orphans` and `surplus` remember the orders it left without a row and the units it
  left counted twice. A shop's basket is one unit of stock, and each basket of the
  option is supplied by one shop. Merged: reads that open a handler with its first
  write; the two inserts of a shop's window; the expiry's read and update.
* **PgFulfilment.** `orders` and `rows` are the database, `chain` is what the escrow
  program holds, `timers` the callbacks that are due, `wizard` the buyer's page.
  Every merchant handler is read, transaction, write (`MerchantReady`, `MarkReady`,
  `OrderReady`), each a step of its own; the chain refuses a transaction whose state
  does not fit and the call ends. An order's write is merged with the event posted
  right after it. `OthersFund` lets a stranger take the next id. Left out: the switch
  `DEMO_PREP_TIMEOUT`, texts, the SSE stream.
* **ResearchPayments.** A research run is a frame in `calls`; a payment is one record
  as the four parties know it: the bridge's spend `row`, the ledger's `event`, `landed`
  on the chain, `taken` and `refund` at the merchant's gate. The mock provider checks
  and books in one synchronous step (`PayMock`); the Solana provider checks
  (`PayOnChain`, `CheckDaily`), transfers, confirms the event, reads the daily counter,
  writes it and only then books the row (`CountSpend`). `PlanReady` writes the task's
  status without looking at it, so a revision that finishes late puts a task under
  research back to approval and a second run may start. Five things may fail, and
  `failures` counts each kind: the request or its answer is lost and the bridge takes
  the payment back (`NetworkFails`, `AnswerLost`); the answer breaks off after its
  headers, which throws outside the try and leaves the row pending (`BodyBroken`,
  `paymentClient.ts:358`); the gate answers with an error other than 402 without taking
  the payment, which the bridge settles all the same (`Refuse`,
  `paymentClient.ts:363`); a transfer is not confirmed in time, landed or not
  (`TransferUnconfirmed`); the merchant's node does not know it yet (`RejectProof`).
  Which merchants are worth asking is a choice (`Skip`). Merged: the gate with the
  handler behind it; the confirmed event with the read of the counter; the counter's
  write with the spend row. Left out: prices of goods, the gate's replay cache,
  withdrawals, the freezing of a wallet (nothing calls it). One account, one day.
* **MockSaga.** The bridge's loop is one record `saga` with the place where it
  stands; `escrow` and `balance` are the mock chain, `books` the bridge's table of
  orders and `orders` the merchants' own. The mock chain answers in the bridge's
  process, so a chain call and the table writes up to the next await are one action.
  `timers` and `runs` are the merchant's timers and jobs (prepare, ready, pickup, the
  worker's list of overdue orders), which a crash forgets; a webhook under way is the
  "tell" stage of its job. An order is one unit at price one; a lapsed quote is a
  choice; a deadline passes only while the escrow holds; a plan has at least one shop;
  an order has at most one job
  of a kind. Left out: a restart with nothing under way, reasons and texts.
* **PgStock.** An open transaction `tx` keeps its writes (`done`) to itself until it
  commits (`Written`); an update waits for rows that another transaction has locked
  (`SkuFree`, `HoldFree`) and works on the row as it then is; a failed guard or CHECK
  undoes everything (`Rollback`). The two updates of one item are one step: two
  functions lock them in opposite orders, which Postgres ends by aborting one side
  (`AbortTx`).
* **Pricing, QuoteDesk.** A request is a record in `desk` with its place and what it
  has read: the gate (`LookUp`, `TakeProof`), then `ReadPrices`, `ApplyCampaign`,
  `Propose`, `Sign`, or `StartNegotiation`, `Counter`, `Sign`, or `LoadOrder`,
  `PlaceOrder`. `LastLook` is the check of the minimum total; two awaits follow it
  before `Sign` writes. `Sign` and `PlaceOrder` each run two statements of a
  synchronous database, with no await between them: no other request comes between, but
  each commits by itself, so the process may end there (`CrashBetweenWrites`,
  `quotes.ts:97` and `:99`, `app.ts:579` and `:582`), and `stranded` remembers the
  quote that ended for nothing. `Send` may put a call on the wire again with its key
  while the first request is at the desk. The minimum prices of one spread are read
  together; stock is "no stock" or not; a lapsed quote is a status; a proof is always
  valid, as `ResearchPayments` has rejected ones. Campaigns have one rule each. Left
  out: malformed bodies, the merchant-active check.
* **Options, ShoppingTask.** The builder's three routes as operators over items and
  offers. A sort whose first element is all that is used is that element (`Foremost`:
  two keys, then the order of discovery, as the sort is stable); the loop of the
  pickup route is a recursive function over its rounds (`AfterStop`); the order of
  stops that tie in both keys is left open. The task asks the shops in turn
  (answered, failed, out of stock), negotiates with leading candidates, and builds.
  Left out: average quality and labels, budget detail, the verification of a
  negotiated quote (it is checked again at `orchestrator.ts:983` and by the merchant).
* **ProgramIdls, IdlCodec, ChainCalls.** `src/solana/idl/*.json` and
  `src/packages/shared/src/solana/idl/*.json` are equal, and `types/*.ts` has the same
  entries in camel case. Encoding is byte by byte for integers, symbolic for keys,
  hashes and discriminators. What arrives is decoded by position against the same
  tables, with the writable and signer flags and seeds checked.
* **PlatformDesk.** A request is a frame of a publication, a review, a resolution or
  a closing; any step may be its last (`Fail`), and a transaction may land although
  its confirmation was not seen (`AfterSending`). The bootstrap lists seeds one at a
  time and runs beside the publications: it looks for a seed's wallet account
  (`LookForWallet`) and, at any later time, sets it over whatever has come meanwhile
  (`SetSeedWallet`; `overwritten` remembers where). A buyer's report of a funding or a
  release is verified against the chain (`Verify`) and written at any later time, twice
  if two reports or a retry overlap (`WriteReport`), the order's own state after it
  (`MarkPaid`). A resolution reads the row, the organization and the wallet account in
  three steps; `settledOn` remembers on which escrow a dispute was settled. Merged: a
  row's write with the read of `setDisputeStatus`. Left out: an organization's status
  (suspend, activate), which nothing here reads; the bootstrap's `set_usdc_mint` for a
  configuration with another mint (`init-devnet.ts:146-156`); a transaction of the
  bootstrap that lands after the script gave up on it.

## 3. What the runs show

Passing runs:

| Run | Instance | Shows |
|---|---|---|
| `escrow` | 2 merchants, 2 wallets, 2 mints, 3 ids, amounts 0..1, 2 deadlines | Ids are dense and vaults back orders (`AccountsAreSound`), tokens are conserved per mint and a live order can be paid out exactly as long as no stranger has sent tokens to its vault (`MoneyStaysMoney`), money returns only by early cancellation, deadline or arbiter, both abstract specifications are implemented. |
| `acceptance_serial` | 3 merchants, one of them without an organization; 2 baskets (one essential); one request at a time; up to 5 orders and 2 restarts between any two writes | Whatever merchants answer or leave, quotes lapse, or the buyer cancels: an order's code is that of its row, which is missing only while it is due or where a restart cut it off (`HashesAgree`); no basket is doubled and stock is accounted for, but for a unit that a restart left given back and still on order (`BasketsAreAccounted`); a dead order stays dead; funding opens with every basket served, dropped or skipped for want of an organization unless a restart interfered, and a failed task has nothing to fund, though without a wallet it keeps its confirmed orders and their stock (`WindowEndsWhole`); the saga ends unless restarted or a basket is skipped. |
| `acceptance_concurrent` | 2 merchants, one shop, up to 2 orders, 2 requests at every await, 2 lost posts or restarts | An acceptance is decided once; an order that waits for funds has its escrow row, or a handler about to write it, or lost that handler to a restart (`FundableHasRow`): two handlers may both open funding, and the one that finds the row taken throws. |
| `fulfil_serial` | 2 orders, 2 escrows, one call, a lost webhook | Records equal the chain between calls, a task is reported settled only when an escrow with each order's code was released (`SettledMeansReleased`; to which merchant is compared nowhere), nothing regresses, a paid order is made ready. |
| `fulfil_concurrent` | 1 order, 2 escrows, 2 calls at every await, one abort or restart | Records never run ahead of the chain; links are own; the chain follows `EscrowLife`. |
| `mock_saga` | essential shop whose funding reverts, an alternative, an optional shop that never prepares; 3 orders; one lost message or crash; the buyer cancels or releases at any time | Bridge and merchant records follow the mock chain, the receipt lists what was settled, wallet and shelves add up, an overdue order gets settled, funding ends. |
| `stock` | 2 skus of 2 units, 2 overlapping transactions, 2 reservations, orders of one and of two skus, a manual adjustment | No unit is sold twice or lost, an order takes all its items or none, no unit stays locked after its reservation. |
| `quote_desk` | 4 calls (a quote, two negotiations, an order), 2 at a time, a resend, a catalogue edit, a crash anywhere, 3 campaigns; no basket quote, which is a quote without campaigns and proposal | Unit prices stay at or above the floor the handler read and the total at or above what campaigns, proposal and cap authorise; one payment is worked for once; a quote ends by its successor or its order, or was left between the two writes by a crash (`QuotesAreAccounted`). |
| `shopping` | lists of up to 3 rows (one with a sku twice), 3 answering shops of 4, every choice of shelves, failures, negotiation | Options serve the approved rows that can be served from quotes as they stand; the cheapest option is the minimum over all assignments (the reference definition); negotiation takes no row out of reach. |
| `platform` | a seed and a self-service organization, 2 requests, 2 disputes about one order, 2 listings, 2 escrows; the bootstrap at any time, reports written late or twice | A stamped id is its organization's own and pays its wallet, or the seed's where the bootstrap set that over it; a settled dispute says what the chain did on an escrow of its order that settles no other, and a row claims no settlement that no escrow of its order had; every instruction of every client decodes to what was meant. |
| `research` | 1 task, 2 merchants, 3 phases; mock with two runs at once, Solana with one; one failure of each of five kinds | Budget and payment count hold (`LimitsHold`); the books of bridge, ledger, chain, counter and merchants agree up to one payment per failure of the kind that explains it (`BooksAgree`); research ends. |

One run refutes what the repository says of itself: `reservation_race`, on the
instance of `stock`. `src/apps/merchant-agents/src/orders.ts:84` calls reservations a
stock lock with an "atomicity guarantee"; `releaseHeldReservation` reads the status
without a lock, and the worker starts a tick every two seconds whether or not the
last has ended. Two ticks release one reservation twice and `reserved` falls below
what is still held (`HoldsAreBacked`). What the guarded updates still keep is
`NeverOversold`.

### Observations

Disagreements of code and text that were met while modelling. Those with an instance
can be reproduced by changing the constants named.

*Sagas and fulfilment*

* `orchestrator.ts:659` "open the funding step exactly once": with
  `Calls = {r1, r2}` in `acceptance_serial`, two accepts both see nothing pending;
  the second opening gives the order a new code and fails on the escrow row
  (`HashesAgree` fails; `DeadOrdersStayDead` and others fail there too, as every
  blind write after an await may land late). What is left is `FundableHasRow`.
* `merchant-agents/src/app.ts:746` "the acceptance timeout worker will eventually
  re-drive the saga": the worker selects pending acceptances only, and this one is
  decided, so the task waits for ever (`SagaResolves` excuses failures). With
  `FailureKinds = {"offline"}`, `MaxFailures = 1`, `BasketsAreAccounted` fails: the
  accepted unit is taken while its order still waits.
* `orchestrator.ts:632` "like an immediate rejection so the saga still resolves": a
  merchant without an organization is skipped, with no alternative, drop or
  cancellation. `acceptance_serial` has one: `Skipped` in `WindowEndsWhole` and
  `SagaResolves` is what becomes of its baskets.
* A task that fails because the account has no wallet (`orchestrator.ts:790`) fails
  after the merchants confirmed: the orders stay confirmed and their stock is not
  given back (`FailedHoldsOnlyUnowned`).
* A restart between `orchestrator.ts:799` and `:800` leaves an order that waits for
  funds without an escrow row, so it can never be funded (`orphans`); one between
  `:959` and `:960` gives an order's stock back and leaves the order open, and a later
  cancellation gives it back again (`surplus`).
* `schemas.ts:257`, `orchestrator.ts:602` on `awaiting_funding`: the last report
  (`orchestrator.ts:876`) wants every order exactly `paid_in_escrow`, while the first
  may be preparing already; the task then never starts although it is funded.
* `schemas.ts:183` `completed: []`: the timer's write (`app.ts:240`) follows its
  transaction by an await, and a release in between is overwritten. With two calls in
  `fulfil_serial`, `NeverRegresses` fails; `orchestrator.ts:1178` does the same on the
  mock path.
* An order the acceptance window rejected never becomes completed, refunded or
  cancelled, so `orchestrator.ts:1195` never reports its task settled.
* When the report after a funding is lost, a second escrow can be funded for the same
  order (`web/lib/solanaWeb3Bridge.ts:96`); the first is only recovered by its
  deadline. `PgFulfilment` has the step; nothing in the code prevents it.
* `README.md:145` promises a refund of overdue orders: the worker reads the SQLite
  orders only, and only those paid or preparing, so an order that stands at ready or
  lives in Postgres waits for the buyer.
* The undo after a failed funding (`orchestrator.ts:1049`) is sent once and its
  failure ignored; the unit stays with the order until the buyer cancels.

*Money and stock*

* `README.md:285` budget enforced before broadcasting: a refunded fee frees budget
  although no token comes back (`paymentClient.ts:295`), so transfers on chain can
  exceed it. `LimitsHold` is about what is booked.
* Tokens that anybody sends to an order's vault stop every payout of it, the arbiter's
  included: `confirm_pickup.rs:60`, `refund.rs:59`, `user_release.rs:55` and
  `resolve.rs:78` transfer `order.amount` and close the vault, which still holds the
  rest. `MoneyStaysMoney` says so in both directions, and the abstract
  `EscrowPromise` has the state `jammed` for it.
* `paymentClient.ts:358` reads the answer's body outside the try: when it breaks off,
  the spend row stays pending for ever and counts against the budget.
  `paymentClient.ts:365` settles any answer but 402, so a fee is booked as spent
  although the gate refused the request without taking it (`payments.ts:62`, `:109`).
* A restart of a merchant between `quotes.ts:97` and `:99` leaves a superseded quote
  without its successor, one between `app.ts:579` and `:582` a consumed quote and
  committed stock without an order (`stranded`).
* With two Solana runs of one task, the check before the awaits (`paymentClient.ts:207`)
  is stale and the daily counter (`sessionWallet.ts:50`) loses an addition; the run
  has one.
* `README.md:153` "Failed negotiations auto-refund": an answer of 500 keeps the fee.
  A replayed answer has no `x-fee-refunded` header (`payments.ts:84`).
* `README.md:336` describes campaigns and discounts for quotes; the basket route
  (`app.ts:415`) applies neither, and a per-sku `max_discount_bps` is never passed.
* Two overlapping orders of one quote both find it usable and both take stock
  (`app.ts:546`).
* The SQLite store takes an order's items one by one (`store.ts:103`): when a later
  sku is refused, the earlier units stay taken. Postgres rolls back.
* The pickup route (`options.ts:130`) is greedy and need not find the fewest
  shops, and what is left of its cover is a set of skus: of two rows with one sku and
  different quantities, one may be lost. `OptionsServeTheList` asks for every servable
  row only of lists without a sku twice.
* A quote is searched for a row by its sku and the first line wins (`options.ts:22`).
  With a sku on rows of three, one and two pieces, a shop that has two quotes the last
  two rows; its first line is too small for the row of two, so a dearer shop that has
  three gets that row and `cheapest` is not the cheapest way to buy such a list:
  `OptionsAreBest` compares prices only for lists without a sku twice.

*Platform and chain*

* Opening a dispute raises nothing on chain; resolving it works only if somebody
  called the program's `dispute` with other tools. A dispute that is still `open`
  settles on chain, and then `setDisputeStatus` throws. A resolution whose
  transaction is not confirmed in time leaves the dispute in review for ever.
* A review decided on a status read earlier can overwrite a later one
  (`disputes.ts:77`), as far as refunded to reviewing or closed to refunded.
* A stop between listing and stamping leaves a listing nobody carries; two
  publications of one organization can stamp it twice with different ids.
* `init-devnet.ts:186` counts a seed as listed when its number exists: an
  organization published before takes the number, and escrows for the seed pay that
  organization's wallet. The run lets the bootstrap come late, but no property
  states otherwise because the code does not keep it.
* `init-devnet.ts:7` "every step first checks whether the target account already
  exists and skips it if so": the check and the transaction are apart
  (`init-devnet.ts:213` and `:222`) and `set_merchant_wallet` is `init_if_needed`, so a
  publication that takes the number and sets its wallet in between is overwritten with
  the seed's wallet, and escrows of the published merchant pay the seed's key
  (`overwritten` in `RegistryIsSound`).
* `orchestrator.ts:850` writes `Funded` and the escrow's number over whatever the row
  says by then: a second report that was verified earlier, or a retry with another
  escrow after a stop between `:850` and `:851`, puts `Funded` over `Released` or
  `Refunded`. `DisputesFollowChain` therefore asks of a row only that no settlement it
  claims is made up, and of a dispute that the escrow it was settled on agrees.
* Seed organizations have no chain id until they are published, so their disputes
  answer `merchant_not_published`; the web client's wizards look merchants up among
  the seeds and throw for self-service ones; activating a draft makes it active
  without publication.
* `chain.ts:459` `createReceipt` decodes the receipt program's configuration with the
  escrow program's IDL, which has no such account, and always throws; `ChainCalls`
  has it as the call that is never sent.
* `verifyFunding` does not compare merchant ids; `confirm_pickup`, `user_release` and
  `resolve` take any registered merchant's wallet account, as none compares its
  `merchant_id` with the order's; `user_release` works from `Disputed`.
* Not modelled, read only: `ensureDefaultWarehouse` selects, then inserts;
  `findOrCreateAccountForWallet` is not in a transaction; `consumeAuthNonce` selects,
  then updates; the rate limit's INCR and EXPIRE are two calls.

**Bounds.** `MaxId`, `MaxTime`, `MaxOrders`, `MaxEscrows`, `MaxRefines`, `MaxFailures`,
`MaxQty`, `MaxHolds`, `MaxAdjusts`, `MaxQuotes`, `MaxRequests`, `MaxResends`,
`MaxEdits`, `MaxCrashes` and `MaxListings` cap what could grow; every one is a guard
named in its module. The instances are the smallest where each case occurs: two wallets
and two mints so that money could go to the wrong one; one essential and one optional
basket with an alternative merchant; two calls or transactions, as every race found
takes two; two restarts or lost posts of the acceptance window, so that one may follow
another's damage, and one failure (of each kind, in `research`) elsewhere; a research
budget that runs out before the research does, and more requests than the payment count
allows; two units of two skus so that a reservation, an order and a release can meet;
minima that clip one line of a basket and not the other; as many quotes as paid calls,
so that `MaxQuotes` never stops a handler. Deadlock is not checked: every one of these
systems may come to rest.

`fulfil_concurrent` and `acceptance_concurrent` state only what holds under races.
The stronger invariants of the serial runs are false when calls overlap (see
Observations). Likewise `DailyMatches` and `CountHolds` are checked with one Solana
run at a time. `platform` checks publications and disputes in turn, as its instance
(`OneAtATime`) looks at a second organization only before there is an escrow, and at a
second escrow and a second dispute not together; the proofs have no such bound.

**Fairness.** Weak fairness of each call's next step: a handler that runs is
continued by the event loop, and every request and confirmation has a time limit.
Weak fairness of the acceptance timer and, in `MockSaga`, of the worker's tick for
each order: `setInterval` keeps firing. Strong fairness of a due timer in
`PgFulfilment`: the bound on calls in flight can make the timer wait for a slot,
which the event loop does not. No fairness is assumed of buyers, merchants, failures
or the chain's other users.

**Symmetry** is used in safety runs only, over values nothing orders or names.

## 4. What is proved

Everything below holds for every value of the constants, under the named assumption of
each module (`ASSUME` on the constants, checked by TLC too). Every safety property that
a run checks is the statement of a theorem. Each argument is an inductive invariant,
checked by TLC on the module's instance before it was proved; a step that keeps it has
one lemma per action. Where a theorem has a hypothesis (one request at a time, a kind
of failure excluded), it stands in its statement and the entry below says what it
excludes.

* **OrderEscrow.** `IInv == TypeOK /\ IdsDense /\ VaultBacksOrder` is inductive: a
  live order's vault holds its amount plus what strangers sent there, a payout is
  only enabled where it holds exactly the amount, and the vault is then gone; ids are
  dense because `fund` demands the counter.
  `AccountsFit` is that invariant as the run states it. From it follow
  `SettlementFinality`, `RefundsAreEarned`, `Refinement` (of `EscrowPromise`) and
  `LifeRefinement` (of `EscrowLife`). `MoneyIsSafe`: the tokens of a mint, in wallets
  and vaults, add up to what there was, and a live order can be released by its buyer
  if and only if no stranger has sent tokens to its vault. The first is a sum over
  accounts of which an instruction changes two; the second says that the guard of
  `user_release` and the preconditions of its transfer and closing hold (`MayRelease`,
  `Payable`), so it needs no ENABLED; it rests on every order's merchant keeping a
  wallet account (`MerchantsKeepWallets`).
* **AcceptanceSaga**, *any number of requests.* Typing needs that no call in flight
  points outside the tables (`FrameFits`), as the saga appends orders while others
  hold indices. Then `DecisionsAreFinal` and `FundableOrdersHaveRows`: an order
  waits for funds with its row, or with a handler about to write it, or because a
  restart cut that handler off; the handler that throws on the row finds it written.
* **AcceptanceSaga**, *one request at a time* (`OneAtATime`; the timer and its loop
  count as a request). `SerialInv` says that what a request has read is still so when
  it acts (`FrameRight`), that rows and orders agree (`RowsRight`), that no basket has
  two open orders, and that funding opens after the last answer (`PhaseRight`). It is
  inductive whatever fails, so `CodesAgree` and `DeadOrdersAreFinal` allow every
  failure; the row of `CodesAgree` may be missing while it is due or where a restart
  cut it off. `BasketsAddUp` also counts stock: the units a merchant gave up are those
  of its confirmed orders and of answers on their way, but for the units between a
  restock and its order's state, and those a restart left there (`surplus`). A lost
  post falsifies it, so "offline" is excluded. `WindowsEndWhole` needs
  `NothingForgotten` (every basket of the option is seen to by an order, by a request
  or by having been dropped) as long as nothing failed, and every merchant in Postgres
  (`Provisioned = Merchants`); that a failed task has nothing to fund, and holds stock
  only for want of a wallet, it says after failures too.
* **PgFulfilment**, *any number of calls.* A record may say `preparing` only if some
  escrow of that order has left `Funded` on the chain. This is inductive only together
  with what each call in flight knows: a call that is about to write holds the evidence
  (`FrameHolds`), and evidence is never lost because the chain only moves forward
  (`ChainKept`, `EvidenceStays`). Hence `RecordsAreGrounded`, `LinksAreOwn`,
  `SettledIsReleased`, `StartIsFunded` and `ChainRefinesLife`, however calls interleave.
* **PgFulfilment**, *one call at a time* (`OneCall`). `OrdersNeverRegress`: a call
  finds the order as it has read it (`RowsFit`); an error between the two writes of
  `verifyFunding` leaves an order linked and unpaid, which may be linked again, so
  "abort" is excluded; restarts and lost webhooks are not. `RecordsAgreeAtRest`:
  between a transaction and its write the chain is one step ahead of the record and
  nobody but the buyer, the arbiter and strangers can move it (`ChainFit`); there a
  restart would leave it ahead for good, so only "offline" may happen.
* **MockSaga**, unconditionally. `IInv` says what every job, message and saga stage
  knows of its escrow (`Evidence`, `SagaKnows`), that a task is funded once (`OneWay`)
  and that the saga leaves no shop behind it unhandled (`NoneSkipped`). Hence
  `BooksNeverRunAhead`, `ReceiptTellsTheTruth`, `WalletAndShelvesAddUp` and
  `EachEscrowLives`: each escrow of the mock chain, taken alone, obeys `EscrowLife`.
  Together they do not, as a cancelled task refunds several in one step and an id may
  be passed over; TLC checked the step form of this before the proof.
* **PgStock**, unconditionally. What makes `NeverOversold` inductive is that the
  uncommitted writes of a transaction stay true of the committed rows (`WriteHolds`):
  nobody else changes a row it has locked (`Apart`), so committing takes exactly the
  units of its order. `NoUnitIsSoldTwice` is that; `NoUnitIsLockedAway` says the
  reserved column never exceeds what reservations hold, in spite of the
  unlocked read in their release, which only ever frees too much (`reservation_race`).
* **QuoteDesk and Pricing**, unconditionally. `Control` ties each desk to the step it
  is at and each quote to its lines; `PaidOnce` says that a payment is at one desk at
  most and that all its buyer heard is what the cache holds; `Accounted` how a quote
  ends, and that the only one that ends for nothing is one a crash stranded;
  `PriceIsRight` and `QuoteIsRight` carry `Fair` from the list price through campaigns,
  proposal and signature: no line below its minimum or above its price, the total at or
  above what the applied discounts leave. That rests on lemmas about the spread of a
  discount over lines (floors lose at most what was asked, clipping never adds). Hence
  `FloorsAreKept`, `DiscountsStayAuthorized`, `PaymentsAreAnsweredOnce` and
  `QuotesStayAccounted`.
* **Options and ShoppingTask**, unconditionally. `TaskInv` says that no shop is asked
  twice, that each quote has lines for rows of the approved list (`Honest`: the row's
  product and quantity, no price below its minimum, one price for a product), and that
  the options are those built from the list and the quotes as they stand; a negotiated
  quote keeps this because a discount spread by share lowers equal prices equally
  (`QuantityCancels`: the quantity of a line cancels from its share per unit). Then
  the builder: a sort by two keys has a first element (`ForemostFacts`) and exists for
  any finite set (`SortingExists`); each of the three assignments is a route, that is,
  it buys rows from offers that supply them (`CheapestIs`, `QualityIs`, `PickupIs`);
  and the option of any route serves the list (`OptionServes`). The greedy cover needs
  an argument of its own, round by round (`Underway`): while a product is left some
  offer supplies it, each stop takes one product off at least, so as many rounds as
  the list has rows are enough. Hence `OptionsAlwaysServe`. A total summed stop by
  stop is the sum over the rows (`SumOfParts`), and the cheapest route's is least term
  by term: `OptionsAreTheBest`. `NegotiationIsFree` follows from each new quote
  undercutting the one before (`Undercuts`), for all lists.
* **ResearchPayments.** A run knows how far its own payment got (`Holds`) and no two
  runs share one (`OwnPayments`). Hence `TakenPaymentsArePaid`. A payment may go
  astray in four ways (`Lost`): taken and kept but taken back by the bridge, left
  pending, settled but not taken, landed but not confirmed. Each way belongs to one
  kind of failure, and every payment gone astray is paid for by a failure of that kind
  of its own (`EachAstrayFailed`). Hence `BooksAreClosed`, `BooksMatchMerchants` and
  `LedgerMatchesChain`, all for any number of runs: where nothing of a kind fails,
  nothing is astray in its way.
  `LimitsAreKept` and `BooksAlwaysAgree` add the budget, the payment count and the
  daily counter: between the check and the booking of a Solana run there is room for
  its payment, if one such run goes at a time (`Parallel["solana"] <= 1`).
* **The client layer.** `CodecIsFaithful`: what a client encodes by the tables of any
  structure, a reader by the same tables finds again. A field is written in as many
  bytes as it is read from and its value survives the division into bytes
  (`FieldSurvives` and the lemmas on numbers); the structure follows by the smallest
  prefix of fields that would go wrong, as encoder and decoder are recursive
  functions. `EveryCallArrives` and `AllCallsArrive` (`CallsArrive` for every set of
  orders and organizations) compare the programs' tables with what each wrapper
  gives: each account is at its place, with the role and the address the program
  asks for, and each argument is the one that was meant, for every order, merchant
  and receipt id below 2^31. A wrapper that passed its accounts or arguments in another
  order, or derived an address from another field, would fail here.
* **PlatformDesk**, any number of requests. `DeskInv` is the invariant: a number's
  wallet account has the wallet of its listing or the seed's (`Walleted`), a stamped
  organization's number is its own and pays its wallet, or the seed's where the
  bootstrap set that over it (`Registered`), and a publication that has listed its
  merchant holds a number that no organization and no other publication has
  (`Published`), because `list_merchant` takes the directory's next number and only one
  of two racing transactions can. Escrows, rows and verified reports speak of escrows
  of their own order, and a settlement a row claims was had by one of them
  (`Escrowed`), whenever a report is written. A resolution that has landed settled the
  escrow it had read the way it was asked to (`Resolving`), and of all resolutions of
  one escrow, done or under way, one at most got that far (`SettledOnce`), because the
  program settles once. Hence `RegistrySound` and `DisputesFollowTheChain`. Every
  transaction goes through the codec here: what it does is first derived from the bytes
  sent (one lemma for each call), then the invariant from what it does.
* **SumTheorems.** Sums over finite sets (the folds of the community modules): they
  exist, unfold by one element, depend only on the values, and grow with them. Facts
  about all finite sets are proved by a smallest counterexample (`LeastSet`,
  `LeastNumber`), which needs no induction theorem with an operator parameter.

Only model-checked:

* liveness: `SagaResolves`, `PaidIsPrepared`, `OverdueIsSettled`, `FundingEnds`,
  `ResearchEnds`;
* `WindowEndsWhole` with a merchant outside Postgres. What the other hypotheses above
  leave out is not checked either: the serial invariants with overlapping calls are
  false (Observations).

## 5. Not modelled, and the plan

Left out for good: the user interface beyond the funding wizards, language-model
prompts, the event bus (display only), the schema's migrations and the demo seeds,
which keep no state the other parts rely on; the simulated merchant registry
(identity flags, feedback), which keeps none either; `set_active`, `create_receipt`
and `record_refund` of the programs, as no caller reaches them.

Left out so far, in the order in which they would be added:

1. Sign-in and sessions (nonces, refresh, roles) and the rate limit's window.
2. The editing of products, campaigns and settings while quotes are open, beyond the
   one catalogue edit of `QuoteDesk`; creating and deleting products in `PgStock`.
3. The SQLite stock store with baskets of several skus.
4. The freezing of the research wallet and withdrawals (no caller today).

Every safety property of the runs is proved; what is left to prove is liveness, which
stays with TLC, and the joint between `AcceptanceSaga` and `PgFulfilment`, which are
separate specifications that share no run.
