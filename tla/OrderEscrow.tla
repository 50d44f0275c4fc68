---------------------------- MODULE OrderEscrow ----------------------------
(***************************************************************************)
(* The on-chain escrow program, solana/programs/order_escrow: one action   *)
(* per instruction.  A transaction is atomic, so an instruction whose      *)
(* accounts, require! or token transfer fails leaves everything as it was: *)
(* a failing instruction is a disabled action.                             *)
(*                                                                         *)
(* A wallet stands for a key: it signs, and owns one token account per     *)
(* mint.  keccak256 has no collisions here, so the stored hash of a pickup *)
(* code is the code itself.  quote_hash, rent and PDA bumps are left out:  *)
(* the program only stores or emits them.                                  *)
(***************************************************************************)
EXTENDS Naturals, FiniteSets, Functions

CONSTANTS Merchants,   \* merchant_id values
          Wallets,     \* keys of buyers, merchants, authority and arbiter
          Mints,       \* SPL mints
          Codes,       \* one-time pickup codes
          Amounts,     \* amounts a buyer may ask to escrow, zero included
          Deadlines,   \* release deadlines a buyer may ask for
          NoWallet, NoMint,
          Supply,      \* tokens of each mint in each wallet at the start
          MaxId,       \* the largest value of the order id counter (u64::MAX)
          MaxTime      \* bound on the clock

ASSUME EscrowAssumption ==
  /\ IsFiniteSet(Wallets)
  /\ NoWallet \notin Wallets
  /\ NoMint \notin Mints
  /\ Amounts \subseteq Nat
  /\ Deadlines \subseteq Nat
  /\ Supply \in Nat
  /\ MaxId \in Nat \ {0}
  /\ MaxTime \in Nat

OrderIds == 1 .. MaxId
Times == 0 .. MaxTime

VARIABLES
  config,           \* EscrowConfig: authority, arbiter, usdc_mint, next_order_id
  merchant_wallets, \* MerchantWallet accounts: merchant_id -> payout wallet
  orders,           \* Order accounts
  vaults,           \* the vault token account of each order
  strays,           \* what strangers have sent to each vault (history)
  tokens,           \* the balance of each wallet's token account per mint
  now               \* Clock::get().unix_timestamp

vars == <<config, merchant_wallets, orders, vaults, strays, tokens, now>>

Live == {"Funded", "Preparing", "Ready", "Disputed"}
Settled == {"Released", "Refunded"}

Order == [state : Live \cup Settled, merchant_id : Merchants,
          buyer : Wallets, amount : Nat \ {0}, pickup_code_hash : Codes,
          release_deadline : Nat]

\* An account that does not exist yet.
NoOrder == [state |-> "None"]
NoVault == [mint |-> NoMint, balance |-> 0]
NoConfig == [authority |-> NoWallet, arbiter |-> NoWallet,
             usdc_mint |-> NoMint, next_order_id |-> 0]

Config == [authority : Wallets, arbiter : Wallets, usdc_mint : Mints,
           next_order_id : 1 .. MaxId]

TypeOK ==
  /\ config \in Config \cup {NoConfig}
  /\ merchant_wallets \in [Merchants -> Wallets \cup {NoWallet}]
  /\ orders \in [OrderIds -> Order \cup {NoOrder}]
  /\ vaults \in [OrderIds -> [mint : Mints \cup {NoMint}, balance : Nat]]
  /\ strays \in [OrderIds -> Nat]
  /\ tokens \in [Wallets -> [Mints -> Nat]]
  /\ now \in Times

Exists(o) == orders[o].state # "None"

Init ==
  /\ config = NoConfig
  /\ merchant_wallets = [m \in Merchants |-> NoWallet]
  /\ orders = [o \in OrderIds |-> NoOrder]
  /\ vaults = [o \in OrderIds |-> NoVault]
  /\ strays = [o \in OrderIds |-> 0]
  /\ tokens = [w \in Wallets |-> [t \in Mints |-> Supply]]
  /\ now = 0
-----------------------------------------------------------------------------
(* Administration *)

Initialize(signer, arbiter, mint) ==
  /\ config = NoConfig
  /\ config' = [authority |-> signer, arbiter |-> arbiter,
                usdc_mint |-> mint, next_order_id |-> 1]
  /\ UNCHANGED <<merchant_wallets, orders, vaults, strays, tokens, now>>

SetMerchantWallet(signer, m, wallet) ==
  /\ config.authority = signer
  /\ merchant_wallets' = [merchant_wallets EXCEPT ![m] = wallet]
  /\ UNCHANGED <<config, orders, vaults, strays, tokens, now>>

SetUsdcMint(signer, mint) ==
  /\ config.authority = signer
  /\ config' = [config EXCEPT !.usdc_mint = mint]
  /\ UNCHANGED <<merchant_wallets, orders, vaults, strays, tokens, now>>
-----------------------------------------------------------------------------
(* Funding.  order_id names the accounts to create, so it is an argument;  *)
(* the counter's checked_add makes the id MaxId itself unusable.           *)

IdFits(o) ==
  /\ o = config.next_order_id
  /\ config.next_order_id + 1 =< MaxId

Affordable(buyer, amount) == tokens[buyer][config.usdc_mint] >= amount

Fund(buyer, m, o, amount, code, deadline) ==
  /\ amount > 0
  /\ deadline > now
  /\ IdFits(o)
  /\ ~Exists(o)
  /\ merchant_wallets[m] # NoWallet
  /\ Affordable(buyer, amount)
  /\ config' = [config EXCEPT !.next_order_id = @ + 1]
  /\ orders' = [orders EXCEPT ![o] =
       [state |-> "Funded", merchant_id |-> m, buyer |-> buyer,
        amount |-> amount, pickup_code_hash |-> code,
        release_deadline |-> deadline]]
  /\ tokens' = [tokens EXCEPT ![buyer][config.usdc_mint] = @ - amount]
  /\ vaults' = [vaults EXCEPT ![o] =
       [mint |-> config.usdc_mint, balance |-> amount]]
  /\ UNCHANGED <<merchant_wallets, strays, now>>

\* A vault is a token account like any other, and its address is no secret:
\* whoever holds its mint can send to it with the token program alone.
SendToVault(w, o) ==
  /\ vaults[o].mint # NoMint
  /\ \E n \in 1 .. tokens[w][vaults[o].mint] :
       /\ tokens' = [tokens EXCEPT ![w][vaults[o].mint] = @ - n]
       /\ vaults' = [vaults EXCEPT ![o].balance = @ + n]
       /\ strays' = [strays EXCEPT ![o] = @ + n]
  /\ UNCHANGED <<config, merchant_wallets, orders, now>>
-----------------------------------------------------------------------------
(* The life of an order.  merchant_wallet is an account the caller passes: *)
(* the program checks that the signer owns it and never compares its       *)
(* merchant_id with the order's, so m is an argument of the action.        *)

SetState(o, state) == orders' = [orders EXCEPT ![o].state = state]

\* Mutant: preparation may start over once the order was ready.
MarkPreparingAgain(merchant, m, o) ==
  /\ merchant_wallets[m] = merchant
  /\ orders[o].state \in {"Funded", "Ready"}
  /\ SetState(o, "Preparing")
  /\ UNCHANGED <<config, merchant_wallets, vaults, strays, tokens, now>>

MarkPreparing(merchant, m, o) ==
  /\ merchant_wallets[m] = merchant
  /\ orders[o].state = "Funded"
  /\ SetState(o, "Preparing")
  /\ UNCHANGED <<config, merchant_wallets, vaults, strays, tokens, now>>

MarkReady(merchant, m, o) ==
  /\ merchant_wallets[m] = merchant
  /\ orders[o].state = "Preparing"
  /\ SetState(o, "Ready")
  /\ UNCHANGED <<config, merchant_wallets, vaults, strays, tokens, now>>

Dispute(caller, m, o) ==
  /\ orders[o].state \in {"Funded", "Preparing", "Ready"}
  /\ merchant_wallets[m] # NoWallet
  /\ caller \in {orders[o].buyer, merchant_wallets[m]}
  /\ SetState(o, "Disputed")
  /\ UNCHANGED <<config, merchant_wallets, vaults, strays, tokens, now>>

\* The token program's conditions for emptying and closing the vault.
Payable(o) == vaults[o].mint # NoMint /\ vaults[o].balance = orders[o].amount

\* Mutants: the vault is not debited; the tokens are paid in the mint of the
\* config.
PayWithoutDebit(o, wallet) ==
  /\ vaults[o].mint # NoMint
  /\ tokens' = [tokens EXCEPT ![wallet][vaults[o].mint] = @ + orders[o].amount]
  /\ UNCHANGED <<config, merchant_wallets, vaults, strays, now>>

PayInConfigMint(o, wallet) ==
  /\ vaults[o].mint # NoMint
  /\ tokens' = [tokens EXCEPT ![wallet][config.usdc_mint] = @ + orders[o].amount]
  /\ vaults' = [vaults EXCEPT ![o] = NoVault]
  /\ UNCHANGED <<config, merchant_wallets, strays, now>>

\* transfer(vault -> wallet, order.amount), then close_account(vault), which
\* the token program refuses while the vault holds anything -- then the whole
\* instruction fails.  The token account paid must be of the vault's own mint.
PayFromVault(o, wallet) ==
  /\ Payable(o)
  /\ tokens' = [tokens EXCEPT ![wallet][vaults[o].mint] = @ + orders[o].amount]
  /\ vaults' = [vaults EXCEPT ![o] = NoVault]
  /\ UNCHANGED <<config, merchant_wallets, strays, now>>

ConfirmPickup(merchant, m, o, code) ==
  /\ merchant_wallets[m] = merchant
  /\ orders[o].state \in {"Ready", "Preparing"}
  /\ orders[o].pickup_code_hash = code
  /\ PayFromVault(o, merchant)
  /\ SetState(o, "Released")

\* Mutant: the buyer may cancel in any state.
BuyerAlwaysRefunds(caller, o) ==
  caller = orders[o].buyer \/ now >= orders[o].release_deadline

RefundAllowed(caller, o) ==
  \/ caller = orders[o].buyer /\ orders[o].state = "Funded"
  \/ now >= orders[o].release_deadline

\* Mutant: whoever calls refund after the deadline is paid.
RefundToCaller(caller, o) ==
  /\ orders[o].state \in {"Funded", "Preparing", "Ready"}
  /\ RefundAllowed(caller, o)
  /\ PayFromVault(o, caller)
  /\ SetState(o, "Refunded")

Refund(caller, o) ==
  /\ orders[o].state \in {"Funded", "Preparing", "Ready"}
  /\ RefundAllowed(caller, o)
  /\ PayFromVault(o, orders[o].buyer)
  /\ SetState(o, "Refunded")

\* All that user_release asks for.
MayRelease(buyer, m, o) ==
  /\ orders[o].state \in Live
  /\ buyer = orders[o].buyer
  /\ merchant_wallets[m] # NoWallet
  /\ Payable(o)

UserRelease(buyer, m, o) ==
  /\ MayRelease(buyer, m, o)
  /\ PayFromVault(o, merchant_wallets[m])
  /\ SetState(o, "Released")

Resolve(arbiter, m, o, release_to_merchant) ==
  /\ arbiter = config.arbiter
  /\ orders[o].state = "Disputed"
  /\ merchant_wallets[m] # NoWallet
  /\ PayFromVault(o, IF release_to_merchant THEN merchant_wallets[m]
                     ELSE orders[o].buyer)
  /\ SetState(o, IF release_to_merchant THEN "Released" ELSE "Refunded")
-----------------------------------------------------------------------------
Tick ==
  /\ now < MaxTime
  /\ now' = now + 1
  /\ UNCHANGED <<config, merchant_wallets, orders, vaults, strays, tokens>>

Admin(w) ==
  \/ \E a \in Wallets, t \in Mints : Initialize(w, a, t)
  \/ \E m \in Merchants, v \in Wallets : SetMerchantWallet(w, m, v)
  \/ \E t \in Mints : SetUsdcMint(w, t)

Funding(w) ==
  \E m \in Merchants, o \in OrderIds, c \in Codes,
     a \in Amounts, d \in Deadlines : Fund(w, m, o, a, c, d)

Settle(w, o) ==
  \/ \E m \in Merchants, c \in Codes : ConfirmPickup(w, m, o, c)
  \/ Refund(w, o)
  \/ \E m \in Merchants : UserRelease(w, m, o)
  \/ \E m \in Merchants, b \in BOOLEAN : Resolve(w, m, o, b)

Progress(w, o) ==
  \E m \in Merchants :
    MarkPreparing(w, m, o) \/ MarkReady(w, m, o) \/ Dispute(w, m, o)

Next ==
  \/ Tick
  \/ \E w \in Wallets : Admin(w) \/ Funding(w)
  \/ \E w \in Wallets, o \in OrderIds :
       Settle(w, o) \/ Progress(w, o) \/ SendToVault(w, o)

Spec == Init /\ [][Next]_vars
-----------------------------------------------------------------------------
(* Properties *)

\* Order accounts exist exactly for the ids below the counter: no id is
\* skipped or handed out twice, across overflow of the counter included.
IdsDense ==
  \A o \in OrderIds : Exists(o) <=> o < config.next_order_id

\* The vault of an order holds its amount and what strangers added to it, in
\* one mint, for as long as the order is live, and is gone otherwise --
\* whatever the admin does to the mint and the merchant wallets in between.
VaultBacksOrder ==
  \A o \in OrderIds :
    IF orders[o].state \in Live
    THEN vaults[o].mint \in Mints /\ vaults[o].balance = orders[o].amount + strays[o]
    ELSE vaults[o] = NoVault /\ strays[o] = 0

\* The accounts fit together: well typed, one order per id given out, and a
\* vault with the whole amount behind each live order and behind no other.
AccountsAreSound == TypeOK /\ IdsDense /\ VaultBacksOrder

\* How much of mint t the accounts and the vaults hold together.
InCirculation(t) ==
  SumFunction([w \in Wallets |-> tokens[w][t]])
    + SumFunction([o \in OrderIds |-> IF vaults[o].mint = t THEN vaults[o].balance ELSE 0])

\* No instruction, in any order and across mint changes, creates or loses
\* tokens.
Conservation ==
  \A t \in Mints : InCirculation(t) = Supply * Cardinality(Wallets)

\* One thing strands a deposit and nothing else does: the buyer of a live
\* order can settle it now -- after a change of mint or wallet, before and
\* after the deadline, in a dispute -- if and only if nobody has sent tokens
\* to its vault.
OnlyStraysStrand ==
  \A o \in OrderIds :
    orders[o].state \in Live =>
      ((\E w \in Wallets, m \in Merchants : MayRelease(w, m, o)) <=> strays[o] = 0)

\* Money neither comes from nowhere nor vanishes, and what the authority does
\* to the mint and the merchants' wallets strands none of it: the tokens are
\* conserved, and a live order can be settled now unless a stranger has sent
\* tokens to its vault (then it cannot: the payouts transfer order.amount and
\* close the vault, which still holds the rest).
MoneyStaysMoney == Conservation /\ OnlyStraysStrand

\* Settlement is final and funded terms are frozen: an order never leaves
\* Released or Refunded, and amount, parties, code and deadline of an order
\* never change after fund.
SettlementIsFinal ==
  [][\A o \in OrderIds : Exists(o) =>
       /\ orders[o].state \in Settled => orders'[o] = orders[o]
       /\ orders'[o] = [orders[o] EXCEPT !.state = orders'[o].state]]_vars

\* A buyer who let preparation start cannot get the money back alone before
\* the deadline: a refund is the buyer's own cancellation of a Funded order,
\* one past the deadline, or the arbiter's decision of a dispute.
RefundIsEarned ==
  [][\A o \in OrderIds :
       orders[o].state \in Live /\ orders'[o].state = "Refunded" =>
         \/ orders[o].state = "Funded" /\ Refund(orders[o].buyer, o)
         \/ orders[o].state # "Disputed" /\ now >= orders[o].release_deadline
         \/ \E m \in Merchants : Resolve(config.arbiter, m, o, FALSE)]_vars
-----------------------------------------------------------------------------
(* What the program implements: the promise of module EscrowPromise, seen  *)
(* through the program's accounts.                                         *)

Deal(o) ==
  CASE orders[o].state = "None" -> "open"
    [] orders[o].state \in Live -> IF strays[o] = 0 THEN "held" ELSE "jammed"
    [] orders[o].state = "Released" -> "paid"
    [] orders[o].state = "Refunded" -> "returned"

Payer(o) == IF Exists(o) THEN orders[o].buyer ELSE NoWallet

Promise == INSTANCE EscrowPromise WITH
  Deals <- OrderIds,
  deal <- [o \in OrderIds |-> Deal(o)],
  payer <- [o \in OrderIds |-> Payer(o)],
  pot <- vaults,
  purse <- tokens

\* The program implements EscrowPromise: every instruction either leaves all
\* the money where it is or moves one whole deposit along the promise, and a
\* deposit jammed by a stranger's tokens stays where it is.
ImplementsPromise == Promise!Spec

Life == INSTANCE EscrowLife WITH
  Ids <- OrderIds,
  life <- [o \in OrderIds |-> orders[o].state]

\* The states of the orders follow EscrowLife, the life cycle that the bridge
\* and the merchant agents reckon with: preparation only moves forward, a
\* dispute stops it, settled orders stay settled, ids come in order.
FollowsLife == Life!Spec
=============================================================================
