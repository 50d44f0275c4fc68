--------------------------- MODULE Custody_proofs ---------------------------
(***************************************************************************)
(* Proofs about the two places where something is kept for somebody: the   *)
(* buyer's money in the escrow program (OrderEscrow) and the shop's goods  *)
(* in Postgres (PgStock).  For the first, every set of merchants, wallets, *)
(* mints and amounts and every size of the id counter; for the second, any *)
(* skus, orders and baskets, and any number of transactions at once, of    *)
(* reservations and of adjustments.  What they share are sums: tokens over *)
(* accounts, units over orders and reservations.                           *)
(***************************************************************************)
EXTENDS OrderEscrow, PgStock, SumTheorems, SequenceTheorems

(***************************************************************************)
(* The escrow program.                                                     *)
(***************************************************************************)
\* The inductive invariant: types, ids and custody only hold together.  A
\* settlement pays order.amount from a vault, so it needs VaultBacksOrder for
\* its types; fund needs IdsDense to know that the vault it creates is new.
IInv == TypeOK /\ IdsDense /\ VaultBacksOrder

-----------------------------------------------------------------------------
(* The shape of the steps *)

\* Whatever settles an order finds it live, empties its vault and changes
\* nothing of the order but its state.
LEMMA SettleStep ==
  ASSUME IInv, NEW w \in Wallets, NEW o \in OrderIds, Settle(w, o)
  PROVE  \E to \in Wallets, s \in Settled :
           /\ orders[o].state \in Live
           /\ s = "Refunded" => to = orders[o].buyer
           /\ PayFromVault(o, to)
           /\ SetState(o, s)
<1>1. ASSUME NEW m \in Merchants, NEW c \in Codes, ConfirmPickup(w, m, o, c)
      PROVE  PayFromVault(o, w) /\ SetState(o, "Released") /\ orders[o].state \in Live
  BY <1>1 DEF ConfirmPickup, Live
<1>2. ASSUME Refund(w, o)
      PROVE  /\ PayFromVault(o, orders[o].buyer)
             /\ SetState(o, "Refunded")
             /\ orders[o].state \in Live
  BY <1>2 DEF Refund, Live
<1>3. ASSUME NEW m \in Merchants, UserRelease(w, m, o)
      PROVE  /\ PayFromVault(o, merchant_wallets[m])
             /\ SetState(o, "Released")
             /\ orders[o].state \in Live
             /\ merchant_wallets[m] \in Wallets
  BY <1>3 DEF UserRelease, MayRelease, IInv, TypeOK
<1>4. ASSUME NEW m \in Merchants, NEW b \in BOOLEAN, Resolve(w, m, o, b)
      PROVE  /\ orders[o].state \in Live
             /\ merchant_wallets[m] \in Wallets
             /\ b => PayFromVault(o, merchant_wallets[m]) /\ SetState(o, "Released")
             /\ ~b => PayFromVault(o, orders[o].buyer) /\ SetState(o, "Refunded")
  BY <1>4 DEF Resolve, IInv, TypeOK, Live
<1>5. orders[o].state \in Live => orders[o].buyer \in Wallets
  BY DEF IInv, TypeOK, Order, NoOrder, Live
<1>6. "Released" \in Settled /\ "Refunded" \in Settled
  BY DEF Settled
<1> QED
  BY <1>1, <1>2, <1>3, <1>4, <1>5, <1>6 DEF Settle

\* A progress instruction moves a live order to another live state and
\* touches no money.
LEMMA ProgressStep ==
  ASSUME NEW w \in Wallets, NEW o \in OrderIds, Progress(w, o)
  PROVE  \E s \in Live :
           /\ orders[o].state \in Live
           /\ SetState(o, s)
           /\ UNCHANGED <<config, merchant_wallets, vaults, strays, tokens, now>>
BY DEF Progress, MarkPreparing, MarkReady, Dispute, Live
\* Tokens from outside move from one wallet into one vault, a live order's.
LEMMA StrayStep ==
  ASSUME IInv, NEW w \in Wallets, NEW o \in OrderIds, SendToVault(w, o)
  PROVE  \E n \in Nat \ {0}, t \in Mints :
           /\ orders[o].state \in Live
           /\ t = vaults[o].mint /\ t # NoMint
           /\ n \in 1 .. tokens[w][t]
           /\ tokens' = [tokens EXCEPT ![w][t] = tokens[w][t] - n]
           /\ vaults' = [vaults EXCEPT ![o].balance = vaults[o].balance + n]
           /\ strays' = [strays EXCEPT ![o] = strays[o] + n]
           /\ UNCHANGED <<config, merchant_wallets, orders, now>>
<1>1. vaults[o].mint \in Mints /\ vaults[o].mint # NoMint /\ orders[o].state \in Live
  BY EscrowAssumption DEF SendToVault, IInv, TypeOK, VaultBacksOrder, NoVault
<1>2. tokens[w][vaults[o].mint] \in Nat
  BY <1>1 DEF IInv, TypeOK
<1> DEFINE t == vaults[o].mint
<1>3. PICK n \in 1 .. tokens[w][t] :
        /\ tokens' = [tokens EXCEPT ![w][t] = tokens[w][t] - n]
        /\ vaults' = [vaults EXCEPT ![o].balance = vaults[o].balance + n]
        /\ strays' = [strays EXCEPT ![o] = strays[o] + n]
        /\ UNCHANGED <<config, merchant_wallets, orders, now>>
  BY DEF SendToVault
<1>4. n \in Nat \ {0}
  BY <1>2
<1> HIDE DEF t
<1> QED
  BY <1>1, <1>3, <1>4 DEF t
-----------------------------------------------------------------------------
LEMMA InitIInv == Init => IInv
BY EscrowAssumption
   DEF Init, IInv, TypeOK, IdsDense, VaultBacksOrder, NoConfig, NoOrder, NoVault,
       Exists, Live, OrderIds, Times

LEMMA AdminIInv ==
  ASSUME IInv, NEW w \in Wallets, Admin(w)
  PROVE  IInv'
<1>1. ASSUME NEW a \in Wallets, NEW t \in Mints, Initialize(w, a, t)
      PROVE  IInv'
  BY <1>1, EscrowAssumption
     DEF Initialize, IInv, TypeOK, IdsDense, VaultBacksOrder, Config, NoConfig,
         OrderIds, Exists
<1>2. ASSUME NEW m \in Merchants, NEW v \in Wallets, SetMerchantWallet(w, m, v)
      PROVE  IInv'
  BY <1>2 DEF SetMerchantWallet, IInv, TypeOK, IdsDense, VaultBacksOrder, Exists
<1>3. ASSUME NEW t \in Mints, SetUsdcMint(w, t)
      PROVE  IInv'
  <2>1. config \in Config
    BY <1>3, EscrowAssumption DEF SetUsdcMint, IInv, TypeOK, NoConfig
  <2>2. config' \in Config /\ config'.next_order_id = config.next_order_id
    BY <1>3, <2>1 DEF SetUsdcMint, Config
  <2> QED
    BY <1>3, <2>2 DEF SetUsdcMint, IInv, TypeOK, IdsDense, VaultBacksOrder, Exists
<1> QED
  BY <1>1, <1>2, <1>3 DEF Admin

LEMMA FundIInv ==
  ASSUME IInv, NEW w \in Wallets, Funding(w)
  PROVE  IInv'
<1> PICK m \in Merchants, o \in OrderIds, c \in Codes, a \in Amounts, d \in Deadlines :
           Fund(w, m, o, a, c, d)
  BY DEF Funding
<1> USE DEF IInv
<1>1. /\ config \in Config
      /\ a \in Nat \ {0}
      /\ d \in Nat
      /\ config.usdc_mint \in Mints
  BY EscrowAssumption DEF Fund, IdFits, Affordable, TypeOK, Config, NoConfig, OrderIds
<1>2. config' \in Config /\ config'.next_order_id = config.next_order_id + 1
  BY <1>1, EscrowAssumption DEF Fund, IdFits, Config
<1>3. orders' \in [OrderIds -> Order \cup {NoOrder}]
  BY <1>1 DEF Fund, TypeOK, Order, Live
<1>4. vaults' \in [OrderIds -> [mint : Mints \cup {NoMint}, balance : Nat]]
  BY <1>1 DEF Fund, Affordable, TypeOK
<1>5. tokens' \in [Wallets -> [Mints -> Nat]]
  BY <1>1 DEF Fund, Affordable, TypeOK
<1>6. TypeOK'
  BY <1>2, <1>3, <1>4, <1>5 DEF Fund, TypeOK
<1>7. /\ orders'[o].state = "Funded"
      /\ orders'[o].amount = a
      /\ vaults'[o] = [mint |-> config.usdc_mint, balance |-> a]
      /\ \A p \in OrderIds \ {o} : orders'[p] = orders[p] /\ vaults'[p] = vaults[p]
      /\ strays' = strays /\ strays[o] = 0
  BY DEF Fund, TypeOK, VaultBacksOrder, Exists, Live
<1>8. IdsDense'
  BY <1>1, <1>2, <1>7 DEF Fund, IdFits, IdsDense, Exists, OrderIds, Config
<1>9. VaultBacksOrder'
  BY <1>1, <1>7 DEF VaultBacksOrder, Live
<1> QED
  BY <1>6, <1>8, <1>9

\* A state change to another existing state keeps the types and the ids.
LEMMA SetStateOK ==
  ASSUME IInv, NEW o \in OrderIds, NEW s \in Live \cup Settled,
         orders[o].state \in Live, SetState(o, s), UNCHANGED config
  PROVE  /\ orders' \in [OrderIds -> Order \cup {NoOrder}]
         /\ orders'[o].state = s
         /\ orders'[o].amount = orders[o].amount
         /\ \A p \in OrderIds \ {o} : orders'[p] = orders[p]
         /\ IdsDense'
<1>1. orders[o] \in Order
  BY DEF IInv, TypeOK, NoOrder, Live
<1>2. orders' = [orders EXCEPT ![o] = [orders[o] EXCEPT !.state = s]]
  BY DEF SetState, IInv, TypeOK
<1>3. [orders[o] EXCEPT !.state = s] \in Order
  BY <1>1 DEF Order
<1>4. /\ orders' \in [OrderIds -> Order \cup {NoOrder}]
      /\ orders'[o] = [orders[o] EXCEPT !.state = s]
      /\ \A p \in OrderIds \ {o} : orders'[p] = orders[p]
  BY <1>2, <1>3 DEF IInv, TypeOK
<1>5. orders'[o].state = s /\ orders'[o].amount = orders[o].amount
  BY <1>1, <1>4 DEF Order
<1>6. IdsDense'
  BY <1>4, <1>5 DEF IInv, IdsDense, Exists, Live, Settled
<1> QED
  BY <1>4, <1>5, <1>6

LEMMA SettleIInv ==
  ASSUME IInv, NEW w \in Wallets, NEW o \in OrderIds, Settle(w, o)
  PROVE  IInv'
<1> PICK to \in Wallets, s \in Settled :
           orders[o].state \in Live /\ PayFromVault(o, to) /\ SetState(o, s)
  BY SettleStep
<1>1. /\ orders' \in [OrderIds -> Order \cup {NoOrder}]
      /\ orders'[o].state = s
      /\ \A p \in OrderIds \ {o} : orders'[p] = orders[p]
      /\ IdsDense'
  BY SetStateOK DEF PayFromVault
<1>2. orders[o].amount \in Nat /\ vaults[o].mint \in Mints
  BY DEF IInv, TypeOK, Order, NoOrder, Live, PayFromVault, Payable
<1>3. tokens' \in [Wallets -> [Mints -> Nat]]
  BY <1>2 DEF PayFromVault, IInv, TypeOK
<1>4. /\ vaults' \in [OrderIds -> [mint : Mints \cup {NoMint}, balance : Nat]]
      /\ vaults'[o] = NoVault
      /\ \A p \in OrderIds \ {o} : vaults'[p] = vaults[p]
  BY DEF PayFromVault, IInv, TypeOK, NoVault
<1>5. TypeOK'
  BY <1>1, <1>3, <1>4 DEF IInv, TypeOK, PayFromVault
<1>6. /\ vaults[o].balance = orders[o].amount
      /\ vaults[o].balance = orders[o].amount + strays[o]
      /\ strays[o] \in Nat
  BY DEF PayFromVault, Payable, IInv, TypeOK, VaultBacksOrder
<1>7. strays' = strays /\ strays[o] = 0
  BY <1>2, <1>6 DEF PayFromVault
<1>8. VaultBacksOrder'
  BY <1>1, <1>4, <1>7 DEF IInv, VaultBacksOrder, Live, Settled
<1> QED
  BY <1>1, <1>5, <1>8 DEF IInv

LEMMA StrayIInv ==
  ASSUME IInv, NEW w \in Wallets, NEW o \in OrderIds, SendToVault(w, o)
  PROVE  IInv'
<1> PICK n \in Nat \ {0}, t \in Mints :
           /\ orders[o].state \in Live
           /\ t = vaults[o].mint /\ t # NoMint
           /\ n \in 1 .. tokens[w][t]
           /\ tokens' = [tokens EXCEPT ![w][t] = tokens[w][t] - n]
           /\ vaults' = [vaults EXCEPT ![o].balance = vaults[o].balance + n]
           /\ strays' = [strays EXCEPT ![o] = strays[o] + n]
           /\ UNCHANGED <<config, merchant_wallets, orders, now>>
  BY StrayStep
<1>1. /\ orders[o].amount \in Nat /\ strays[o] \in Nat /\ tokens[w][t] \in Nat
      /\ vaults[o].balance = orders[o].amount + strays[o]
      /\ vaults[o] \in [mint : Mints \cup {NoMint}, balance : Nat]
  BY DEF IInv, TypeOK, VaultBacksOrder, Order, NoOrder, Live
<1>2. tokens' \in [Wallets -> [Mints -> Nat]]
  <2>1. tokens[w][t] - n \in Nat
    BY <1>1
  <2> QED
    BY <2>1 DEF IInv, TypeOK
<1>3. /\ vaults' \in [OrderIds -> [mint : Mints \cup {NoMint}, balance : Nat]]
      /\ vaults'[o].mint = vaults[o].mint
      /\ vaults'[o].balance = vaults[o].balance + n
      /\ \A p \in OrderIds \ {o} : vaults'[p] = vaults[p]
  <2>1. [vaults[o] EXCEPT !.balance = vaults[o].balance + n]
          \in [mint : Mints \cup {NoMint}, balance : Nat]
    BY <1>1
  <2>2. vaults' = [vaults EXCEPT ![o] = [vaults[o] EXCEPT !.balance = vaults[o].balance + n]]
    BY DEF IInv, TypeOK
  <2> QED
    BY <1>1, <2>1, <2>2 DEF IInv, TypeOK
<1>4. /\ strays' \in [OrderIds -> Nat] /\ strays'[o] = strays[o] + n
      /\ \A p \in OrderIds \ {o} : strays'[p] = strays[p]
  BY <1>1 DEF IInv, TypeOK
<1>5. TypeOK'
  BY <1>2, <1>3, <1>4 DEF IInv, TypeOK
<1>6. IdsDense'
  BY DEF IInv, IdsDense, Exists
<1>7. VaultBacksOrder'
  BY <1>1, <1>3, <1>4 DEF IInv, VaultBacksOrder
<1> QED
  BY <1>5, <1>6, <1>7 DEF IInv

LEMMA ProgressIInv ==
  ASSUME IInv, NEW w \in Wallets, NEW o \in OrderIds, Progress(w, o)
  PROVE  IInv'
<1> PICK s \in Live :
           /\ orders[o].state \in Live
           /\ SetState(o, s)
           /\ UNCHANGED <<config, merchant_wallets, vaults, strays, tokens, now>>
  BY ProgressStep
<1>1. /\ orders' \in [OrderIds -> Order \cup {NoOrder}]
      /\ orders'[o].state = s
      /\ orders'[o].amount = orders[o].amount
      /\ \A p \in OrderIds \ {o} : orders'[p] = orders[p]
      /\ IdsDense'
  BY SetStateOK
<1>2. TypeOK'
  BY <1>1 DEF IInv, TypeOK
<1>3. VaultBacksOrder'
  BY <1>1 DEF IInv, VaultBacksOrder
<1> QED
  BY <1>1, <1>2, <1>3 DEF IInv

LEMMA NextIInv == IInv /\ [Next]_vars => IInv'
<1> SUFFICES ASSUME IInv, [Next]_vars
             PROVE  IInv'
  OBVIOUS
<1>1. CASE Tick
  BY <1>1, EscrowAssumption
     DEF Tick, IInv, TypeOK, IdsDense, VaultBacksOrder, Times, Exists
<1>2. CASE UNCHANGED vars
  BY <1>2 DEF vars, IInv, TypeOK, IdsDense, VaultBacksOrder, Exists
<1> QED
  BY <1>1, <1>2, AdminIInv, FundIInv, SettleIInv, ProgressIInv, StrayIInv DEF Next

\* Types, ids and custody hold in every reachable state.
THEOREM Invariance == Spec => []IInv
BY InitIInv, NextIInv, PTL DEF Spec

\* Every reachable state of the program is well typed.
THEOREM TypeCorrect == Spec => []TypeOK
BY Invariance, PTL DEF IInv

\* Order ids are handed out once each, without gaps, up to the counter's end.
THEOREM IdsAreDense == Spec => []IdsDense
BY Invariance, PTL DEF IInv

\* The vault of a live order always holds the order's amount, plus what
\* strangers sent to it.
THEOREM VaultsBackOrders == Spec => []VaultBacksOrder
BY Invariance, PTL DEF IInv

\* The three together: the accounts of the program always fit together.
THEOREM AccountsFit == Spec => []AccountsAreSound
BY TypeCorrect, IdsAreDense, VaultsBackOrders, PTL DEF AccountsAreSound
-----------------------------------------------------------------------------
(* Action properties *)

\* What each kind of step does to one order.
LEMMA OrderSteps ==
  ASSUME IInv, [Next]_vars, NEW o \in OrderIds
  PROVE  \/ orders'[o] = orders[o]
         \/ ~Exists(o)
         \/ /\ orders[o].state \in Live
            /\ orders'[o] = [orders[o] EXCEPT !.state = orders'[o].state]
<1>1. CASE Tick \/ UNCHANGED vars \/ \E w \in Wallets : Admin(w)
  BY <1>1 DEF Tick, vars, Admin, Initialize, SetMerchantWallet, SetUsdcMint
<1>2. ASSUME NEW w \in Wallets, Funding(w)
      PROVE  orders'[o] = orders[o] \/ ~Exists(o)
  BY <1>2 DEF Funding, Fund, IInv, TypeOK
<1>3. ASSUME NEW p \in OrderIds, NEW s \in Live \cup Settled,
             orders[p].state \in Live, SetState(p, s)
      PROVE  \/ orders'[o] = orders[o]
             \/ /\ orders[o].state \in Live
                /\ orders'[o] = [orders[o] EXCEPT !.state = orders'[o].state]
  <2>1. CASE o # p
    BY <1>3, <2>1 DEF SetState, IInv, TypeOK
  <2>2. CASE o = p
    <3>1. orders[o] \in Order
      BY <1>3, <2>2 DEF IInv, TypeOK, NoOrder, Live
    <3>2. orders'[o] = [orders[o] EXCEPT !.state = s]
      BY <1>3, <2>2 DEF SetState, IInv, TypeOK
    <3>3. orders'[o].state = s
      BY <3>1, <3>2 DEF Order
    <3> QED
      BY <1>3, <2>2, <3>2, <3>3
  <2> QED
    BY <2>1, <2>2
<1>4. ASSUME NEW w \in Wallets, NEW p \in OrderIds, Settle(w, p)
      PROVE  \/ orders'[o] = orders[o]
             \/ /\ orders[o].state \in Live
                /\ orders'[o] = [orders[o] EXCEPT !.state = orders'[o].state]
  BY <1>3, <1>4, SettleStep
<1>5. ASSUME NEW w \in Wallets, NEW p \in OrderIds, Progress(w, p)
      PROVE  \/ orders'[o] = orders[o]
             \/ /\ orders[o].state \in Live
                /\ orders'[o] = [orders[o] EXCEPT !.state = orders'[o].state]
  BY <1>3, <1>5, ProgressStep
<1>6. ASSUME NEW w \in Wallets, NEW p \in OrderIds, SendToVault(w, p)
      PROVE  orders'[o] = orders[o]
  BY <1>6 DEF SendToVault
<1> QED
  BY <1>1, <1>2, <1>4, <1>5, <1>6 DEF Next

\* A settled order never changes again, and the terms of a funded order
\* never change at all.
THEOREM SettlementFinality == Spec => SettlementIsFinal
<1> DEFINE Step ==
      \A o \in OrderIds : Exists(o) =>
        /\ orders[o].state \in Settled => orders'[o] = orders[o]
        /\ orders'[o] = [orders[o] EXCEPT !.state = orders'[o].state]
<1>1. IInv /\ [Next]_vars => [Step]_vars
  <2> SUFFICES ASSUME IInv, [Next]_vars, NEW o \in OrderIds, Exists(o)
               PROVE  /\ orders[o].state \in Settled => orders'[o] = orders[o]
                      /\ orders'[o] = [orders[o] EXCEPT !.state = orders'[o].state]
    OBVIOUS
  <2>1. orders[o] \in Order
    BY DEF IInv, TypeOK, Exists, NoOrder
  <2>2. CASE orders'[o] = orders[o]
    BY <2>1, <2>2 DEF Order
  <2>3. CASE /\ orders[o].state \in Live
             /\ orders'[o] = [orders[o] EXCEPT !.state = orders'[o].state]
    BY <2>3 DEF Live, Settled
  <2> QED
    BY <2>2, <2>3, OrderSteps
<1> QED
  BY <1>1, Invariance, PTL DEF Spec, SettlementIsFinal

\* Only a buyer who cancels before preparation, the deadline, or the arbiter
\* gives a deposit back.
THEOREM RefundsAreEarned == Spec => RefundIsEarned
<1> DEFINE Earned(o) ==
      orders[o].state \in Live /\ orders'[o].state = "Refunded" =>
        \/ orders[o].state = "Funded" /\ Refund(orders[o].buyer, o)
        \/ orders[o].state # "Disputed" /\ now >= orders[o].release_deadline
        \/ \E m \in Merchants : Resolve(config.arbiter, m, o, FALSE)
<1>1. IInv /\ [Next]_vars => [\A o \in OrderIds : Earned(o)]_vars
  <2> SUFFICES ASSUME IInv, [Next]_vars, NEW o \in OrderIds,
                      orders[o].state \in Live, orders'[o].state = "Refunded"
               PROVE  \/ orders[o].state = "Funded" /\ Refund(orders[o].buyer, o)
                      \/ orders[o].state # "Disputed" /\ now >= orders[o].release_deadline
                      \/ \E m \in Merchants : Resolve(config.arbiter, m, o, FALSE)
    OBVIOUS
  <2>1. CASE Tick \/ UNCHANGED vars \/ \E w \in Wallets : Admin(w)
    BY <2>1 DEF Tick, vars, Admin, Initialize, SetMerchantWallet, SetUsdcMint, Live
  <2>2. ASSUME NEW w \in Wallets, Funding(w)
        PROVE  FALSE
    BY <2>2 DEF Funding, Fund, IInv, TypeOK, Exists, Live
  <2>3. ASSUME NEW w \in Wallets, NEW p \in OrderIds, Progress(w, p)
        PROVE  FALSE
    <3> PICK s \in Live : orders[p].state \in Live /\ SetState(p, s) /\ UNCHANGED config
      BY <2>3, ProgressStep
    <3>1. orders'[p].state = s /\ \A q \in OrderIds \ {p} : orders'[q] = orders[q]
      BY SetStateOK
    <3> QED
      BY <3>1 DEF Live
  <2>4. ASSUME NEW w \in Wallets, NEW p \in OrderIds, Settle(w, p), p # o
        PROVE  FALSE
    BY <2>4, SettleStep DEF SetState, IInv, TypeOK, Live
  <2>5. ASSUME NEW w \in Wallets, Refund(w, o)
        PROVE  \/ orders[o].state = "Funded" /\ Refund(orders[o].buyer, o)
               \/ orders[o].state # "Disputed" /\ now >= orders[o].release_deadline
    BY <2>5 DEF Refund, RefundAllowed
  <2>6. ASSUME NEW s \in {"Released"}, SetState(o, s)
        PROVE  FALSE
    BY <2>6 DEF SetState, IInv, TypeOK, Order, NoOrder, Live
  <2>7. ASSUME NEW w \in Wallets, Settle(w, o)
        PROVE  \/ orders[o].state = "Funded" /\ Refund(orders[o].buyer, o)
               \/ orders[o].state # "Disputed" /\ now >= orders[o].release_deadline
               \/ \E m \in Merchants : Resolve(config.arbiter, m, o, FALSE)
    <3>1. CASE \E m \in Merchants, c \in Codes : ConfirmPickup(w, m, o, c)
      BY <2>6, <3>1 DEF ConfirmPickup
    <3>2. CASE \E m \in Merchants : UserRelease(w, m, o)
      BY <2>6, <3>2 DEF UserRelease
    <3>3. ASSUME NEW m \in Merchants, NEW b \in BOOLEAN, Resolve(w, m, o, b)
          PROVE  Resolve(config.arbiter, m, o, FALSE)
      <4>1. w = config.arbiter
        BY <3>3 DEF Resolve
      <4>2. ~b
        BY <2>6, <3>3 DEF Resolve
      <4> QED
        BY <3>3, <4>1, <4>2
    <3> QED
      BY <2>5, <2>7, <3>1, <3>2, <3>3 DEF Settle
  <2>8. ASSUME NEW w \in Wallets, NEW p \in OrderIds, SendToVault(w, p)
        PROVE  FALSE
    BY <2>8 DEF SendToVault, Live
  <2> QED
    BY <2>1, <2>2, <2>3, <2>4, <2>7, <2>8 DEF Next
<1> QED
  BY <1>1, Invariance, PTL DEF Spec, RefundIsEarned
-----------------------------------------------------------------------------
(* Money *)

InWallets(ts, t) == SumFunctionOnSet([w \in Wallets |-> ts[w][t]], Wallets)
InVault(vs, t, o) == IF vs[o].mint = t THEN vs[o].balance ELSE 0
InVaults(vs, t) == SumFunctionOnSet([o \in OrderIds |-> InVault(vs, t, o)], OrderIds)

LEMMA CirculationIs ==
  ASSUME NEW t
  PROVE  /\ InCirculation(t) = InWallets(tokens, t) + InVaults(vaults, t)
         /\ InCirculation(t)' = InWallets(tokens', t) + InVaults(vaults', t)
BY DEF InCirculation, InWallets, InVaults, InVault, SumFunction

LEMMA FiniteDomains == IsFiniteSet(Wallets) /\ IsFiniteSet(OrderIds)
BY EscrowAssumption, FS_Interval DEF OrderIds

LEMMA MoneyTypes ==
  ASSUME NEW ts \in [Wallets -> [Mints -> Nat]],
         NEW vs \in [OrderIds -> [mint : Mints \cup {NoMint}, balance : Nat]],
         NEW t \in Mints
  PROVE  /\ InWallets(ts, t) \in Nat /\ InVaults(vs, t) \in Nat
         /\ \A w \in Wallets : ts[w][t] \in Nat
         /\ \A o \in OrderIds : InVault(vs, t, o) \in Nat
<1>1. \A w \in Wallets : ts[w][t] \in Nat
  OBVIOUS
<1>2. \A o \in OrderIds : InVault(vs, t, o) \in Nat
  BY DEF InVault
<1>3. InWallets(ts, t) \in Nat
  BY <1>1, FiniteDomains, SumIsNat DEF InWallets
<1>4. InVaults(vs, t) \in Nat
  BY <1>2, FiniteDomains, SumIsNat DEF InVaults
<1> QED
  BY <1>1, <1>2, <1>3, <1>4

\* One wallet's account and one vault change: the tokens in circulation change
\* by what they gain and lose.
LEMMA OnePayment ==
  ASSUME TypeOK, TypeOK', NEW t \in Mints, NEW w \in Wallets, NEW o \in OrderIds,
         \A v \in Wallets \ {w} : tokens'[v][t] = tokens[v][t],
         \A p \in OrderIds \ {o} : vaults'[p] = vaults[p],
         tokens'[w][t] + InVault(vaults', t, o) = tokens[w][t] + InVault(vaults, t, o)
  PROVE  InCirculation(t)' = InCirculation(t)
<1>1. /\ tokens \in [Wallets -> [Mints -> Nat]] /\ tokens' \in [Wallets -> [Mints -> Nat]]
      /\ vaults \in [OrderIds -> [mint : Mints \cup {NoMint}, balance : Nat]]
      /\ vaults' \in [OrderIds -> [mint : Mints \cup {NoMint}, balance : Nat]]
  BY DEF TypeOK
<1> DEFINE f == [v \in Wallets |-> tokens[v][t]]
           g == [v \in Wallets |-> tokens'[v][t]]
           h == [p \in OrderIds |-> InVault(vaults, t, p)]
           k == [p \in OrderIds |-> InVault(vaults', t, p)]
<1>2. \A v \in Wallets : f[v] \in Nat /\ g[v] \in Nat
  BY <1>1
<1>3. \A p \in OrderIds : h[p] \in Nat /\ k[p] \in Nat
  BY <1>1, MoneyTypes
<1>4. /\ \A v \in Wallets \ {w} : f[v] = g[v]
      /\ \A p \in OrderIds \ {o} : h[p] = k[p]
  BY DEF InVault
<1>5. g[w] + k[o] = f[w] + h[o]
  OBVIOUS
<1>6. /\ InCirculation(t) = SumFunctionOnSet(f, Wallets) + SumFunctionOnSet(h, OrderIds)
      /\ InCirculation(t)' = SumFunctionOnSet(g, Wallets) + SumFunctionOnSet(k, OrderIds)
  BY CirculationIs DEF InWallets, InVaults
<1> HIDE DEF f, g, h, k
<1>7. SumFunctionOnSet(g, Wallets) = SumFunctionOnSet(f, Wallets) + g[w] - f[w]
  BY <1>2, <1>4, FiniteDomains, SumChanges
<1>8. SumFunctionOnSet(k, OrderIds) = SumFunctionOnSet(h, OrderIds) + k[o] - h[o]
  BY <1>3, <1>4, FiniteDomains, SumChanges
<1>9. SumFunctionOnSet(f, Wallets) \in Nat /\ SumFunctionOnSet(h, OrderIds) \in Nat
  BY <1>2, <1>3, FiniteDomains, SumIsNat
<1> QED
  BY <1>2, <1>3, <1>5, <1>6, <1>7, <1>8, <1>9

LEMMA NoPayment ==
  ASSUME UNCHANGED <<tokens, vaults>>, NEW t
  PROVE  InCirculation(t)' = InCirculation(t)
BY CirculationIs

LEMMA FundConserves ==
  ASSUME IInv, IInv', NEW w \in Wallets, Funding(w), NEW t \in Mints
  PROVE  InCirculation(t)' = InCirculation(t)
<1> PICK m \in Merchants, o \in OrderIds, c \in Codes, a \in Amounts, d \in Deadlines :
           Fund(w, m, o, a, c, d)
  BY DEF Funding
<1> DEFINE u == config.usdc_mint
<1>1. config \in Config /\ u \in Mints /\ a \in Nat /\ tokens[w][u] \in Nat
  <2>1. config \in Config
    BY EscrowAssumption DEF Fund, IdFits, IInv, TypeOK, NoConfig, OrderIds
  <2>2. u \in Mints
    BY <2>1 DEF Config
  <2> HIDE DEF u
  <2>3. a \in Nat /\ tokens[w][u] \in Nat
    BY <2>2, EscrowAssumption DEF IInv, TypeOK
  <2> QED
    BY <2>1, <2>2, <2>3
<1>2. /\ tokens' = [tokens EXCEPT ![w][u] = tokens[w][u] - a]
      /\ vaults' = [vaults EXCEPT ![o] = [mint |-> u, balance |-> a]]
      /\ tokens[w][u] >= a /\ ~ Exists(o)
  BY DEF Fund, Affordable
<1>3. vaults[o] = NoVault
  BY <1>2 DEF IInv, VaultBacksOrder, Exists, Live
<1>4. InVault(vaults, t, o) = 0
  BY <1>3 DEF InVault, NoVault
<1> HIDE DEF u
<1>5. InVault(vaults', t, o) = IF t = u THEN a ELSE 0
  BY <1>2 DEF InVault, IInv, TypeOK
<1>6. tokens'[w][t] = tokens[w][t] - IF t = u THEN a ELSE 0
  BY <1>1, <1>2 DEF IInv, TypeOK
<1>7. /\ \A v \in Wallets \ {w} : tokens'[v][t] = tokens[v][t]
      /\ \A p \in OrderIds \ {o} : vaults'[p] = vaults[p]
  BY <1>2 DEF IInv, TypeOK
<1>8. tokens[w][t] \in Nat
  BY DEF IInv, TypeOK
<1>9. tokens'[w][t] + InVault(vaults', t, o) = tokens[w][t] + InVault(vaults, t, o)
  BY <1>1, <1>4, <1>5, <1>6, <1>8
<1> QED
  BY <1>7, <1>9, OnePayment DEF IInv

LEMMA SettleConserves ==
  ASSUME IInv, IInv', NEW w \in Wallets, NEW o \in OrderIds, Settle(w, o), NEW t \in Mints
  PROVE  InCirculation(t)' = InCirculation(t)
<1> PICK to \in Wallets, s \in Settled :
           orders[o].state \in Live /\ PayFromVault(o, to) /\ SetState(o, s)
  BY SettleStep
<1> DEFINE u == vaults[o].mint
           a == orders[o].amount
<1>1. u \in Mints /\ u # NoMint /\ vaults[o].balance = a /\ a \in Nat
  BY EscrowAssumption DEF PayFromVault, Payable, IInv, TypeOK
<1>2. /\ tokens' = [tokens EXCEPT ![to][u] = tokens[to][u] + a]
      /\ vaults' = [vaults EXCEPT ![o] = NoVault]
  BY DEF PayFromVault
<1>3. InVault(vaults, t, o) = IF t = u THEN a ELSE 0
  BY <1>1 DEF InVault
<1> HIDE DEF u, a
<1>4. InVault(vaults', t, o) = 0
  BY <1>2, EscrowAssumption DEF InVault, IInv, TypeOK, NoVault
<1>5. tokens[to][t] \in Nat
  BY DEF IInv, TypeOK
<1>6. tokens'[to][t] = tokens[to][t] + IF t = u THEN a ELSE 0
  BY <1>1, <1>2 DEF IInv, TypeOK
<1>7. /\ \A v \in Wallets \ {to} : tokens'[v][t] = tokens[v][t]
      /\ \A p \in OrderIds \ {o} : vaults'[p] = vaults[p]
  BY <1>2 DEF IInv, TypeOK
<1>8. tokens'[to][t] + InVault(vaults', t, o) = tokens[to][t] + InVault(vaults, t, o)
  BY <1>1, <1>3, <1>4, <1>5, <1>6
<1> QED
  BY <1>7, <1>8, OnePayment DEF IInv

LEMMA StrayConserves ==
  ASSUME IInv, IInv', NEW w \in Wallets, NEW o \in OrderIds, SendToVault(w, o),
         NEW t \in Mints
  PROVE  InCirculation(t)' = InCirculation(t)
<1> PICK n \in Nat \ {0}, u \in Mints :
           /\ orders[o].state \in Live
           /\ u = vaults[o].mint /\ u # NoMint
           /\ n \in 1 .. tokens[w][u]
           /\ tokens' = [tokens EXCEPT ![w][u] = tokens[w][u] - n]
           /\ vaults' = [vaults EXCEPT ![o].balance = vaults[o].balance + n]
           /\ strays' = [strays EXCEPT ![o] = strays[o] + n]
           /\ UNCHANGED <<config, merchant_wallets, orders, now>>
  BY StrayStep
<1>1. vaults[o].balance \in Nat /\ tokens[w][t] \in Nat /\ tokens[w][u] \in Nat
  BY DEF IInv, TypeOK
<1>2. /\ vaults'[o].mint = u /\ vaults'[o].balance = vaults[o].balance + n
      /\ \A p \in OrderIds \ {o} : vaults'[p] = vaults[p]
  BY DEF IInv, TypeOK
<1>3. /\ tokens'[w][t] = tokens[w][t] - IF t = u THEN n ELSE 0
      /\ \A v \in Wallets \ {w} : tokens'[v][t] = tokens[v][t]
  BY <1>1 DEF IInv, TypeOK
<1>4. /\ InVault(vaults, t, o) = IF t = u THEN vaults[o].balance ELSE 0
      /\ InVault(vaults', t, o) = IF t = u THEN vaults[o].balance + n ELSE 0
  BY <1>2 DEF InVault
<1>5. tokens'[w][t] + InVault(vaults', t, o) = tokens[w][t] + InVault(vaults, t, o)
  BY <1>1, <1>3, <1>4
<1> QED
  BY <1>2, <1>3, <1>5, OnePayment DEF IInv

LEMMA StepConserves == IInv /\ IInv' /\ Conservation /\ [Next]_vars => Conservation'
<1> SUFFICES ASSUME IInv, IInv', Conservation, [Next]_vars, NEW t \in Mints
             PROVE  InCirculation(t)' = Supply * Cardinality(Wallets)
  BY DEF Conservation
<1>1. ASSUME NEW w \in Wallets, Funding(w)  PROVE InCirculation(t)' = InCirculation(t)
  BY <1>1, FundConserves
<1>2. ASSUME NEW w \in Wallets, NEW o \in OrderIds, Settle(w, o)
      PROVE  InCirculation(t)' = InCirculation(t)
  BY <1>2, SettleConserves
<1>3. ASSUME NEW w \in Wallets, Admin(w)  PROVE InCirculation(t)' = InCirculation(t)
  BY <1>3, NoPayment DEF Admin, Initialize, SetMerchantWallet, SetUsdcMint
<1>4. ASSUME NEW w \in Wallets, NEW o \in OrderIds, Progress(w, o)
      PROVE  InCirculation(t)' = InCirculation(t)
  BY <1>4, ProgressStep, NoPayment
<1>5. Tick \/ UNCHANGED vars => InCirculation(t)' = InCirculation(t)
  BY NoPayment DEF Tick, vars
<1>6. ASSUME NEW w \in Wallets, NEW o \in OrderIds, SendToVault(w, o)
      PROVE  InCirculation(t)' = InCirculation(t)
  BY <1>6, StrayConserves
<1>7. InCirculation(t)' = InCirculation(t)
  BY <1>1, <1>2, <1>3, <1>4, <1>5, <1>6 DEF Next
<1> QED
  BY <1>7 DEF Conservation

\* A sum of n equal amounts, taken over the wallets.
LEMMA StartingSupply ==
  ASSUME NEW S \in SUBSET Wallets
  PROVE  SumFunctionOnSet([w \in Wallets |-> Supply], S) = Supply * Cardinality(S)
<1> DEFINE f == [w \in Wallets |-> Supply]
           Bad == {T \in SUBSET S : SumFunctionOnSet(f, T) # Supply * Cardinality(T)}
<1>1. SUFFICES ASSUME S \in Bad  PROVE FALSE
  OBVIOUS
<1>2. IsFiniteSet(S)
  BY FiniteDomains, FS_Subset
<1>3. PICK T \in Bad : \A U \in Bad : U \subseteq T => U = T
  <2>1. Bad \subseteq SUBSET S /\ Bad # {}
    BY <1>1
  <2> HIDE DEF Bad
  <2> QED
    BY <1>2, <2>1, LeastSet
<1>4. IsFiniteSet(T) /\ T \subseteq Wallets
  BY <1>2, <1>3, FS_Subset
<1>5. T # {}
  <2>1. SumFunctionOnSet(f, {}) = 0 /\ Cardinality({}) = 0 /\ Supply * 0 = 0
    BY SumOfNothing, FS_EmptySet, EscrowAssumption
  <2>2. {} \notin Bad
    BY <2>1
  <2> QED
    BY <2>2
<1>6. PICK w : w \in T
  BY <1>5
<1>7. T \ {w} \notin Bad
  BY <1>3, <1>6
<1> DEFINE n == Cardinality(T \ {w})
<1>8. SumFunctionOnSet(f, T \ {w}) = Supply * n
  BY <1>3, <1>7
<1>9. Cardinality(T) = n + 1 /\ n \in Nat
  <2>1. IsFiniteSet(T \ {w}) /\ n = Cardinality(T) - 1
    BY <1>4, <1>6, FS_RemoveElement
  <2>2. Cardinality(T) \in Nat /\ n \in Nat
    BY <1>4, <2>1, FS_CardinalityType
  <2> QED
    BY <2>1, <2>2
<1>10. SumFunctionOnSet(f, T) = Supply + SumFunctionOnSet(f, T \ {w})
  <2>1. /\ \A v \in T : f[v] \in Int
        /\ f[w] = Supply
    BY <1>4, <1>6, EscrowAssumption
  <2> HIDE DEF f
  <2> QED
    BY <1>4, <1>6, <2>1, SumWithout
<1>11. Supply + Supply * n = Supply * (n + 1)
  BY <1>9, EscrowAssumption
<1> QED
  BY <1>3, <1>8, <1>9, <1>10, <1>11

LEMMA InitConserves == Init => Conservation
<1> SUFFICES ASSUME Init, NEW t \in Mints
             PROVE  InCirculation(t) = Supply * Cardinality(Wallets)
  BY DEF Conservation
<1>1. [w \in Wallets |-> tokens[w][t]] = [w \in Wallets |-> Supply]
  BY DEF Init
<1>2. InWallets(tokens, t) = Supply * Cardinality(Wallets)
  <2>1. SumFunctionOnSet([w \in Wallets |-> Supply], Wallets) = Supply * Cardinality(Wallets)
    BY StartingSupply
  <2> QED
    BY <1>1, <2>1 DEF InWallets
<1>3. InVaults(vaults, t) = 0
  <2> DEFINE f == [o \in OrderIds |-> InVault(vaults, t, o)]
  <2>1. \A o \in OrderIds : f[o] = 0
    BY DEF Init, InVault, NoVault
  <2> HIDE DEF f
  <2>2. SumFunctionOnSet(f, OrderIds) = SumFunctionOnSet(f, {})
    BY <2>1, FiniteDomains, SumOverSupport
  <2> QED
    BY <2>2, SumOfNothing DEF InVaults, f
<1>4. Supply * Cardinality(Wallets) \in Nat
  BY EscrowAssumption, FS_CardinalityType
<1> QED
  BY <1>2, <1>3, <1>4, CirculationIs

\* A merchant that an order was funded for keeps a wallet: the authority may
\* change it but not take it away.
MerchantsKeepWallets ==
  \A o \in OrderIds : Exists(o) => merchant_wallets[orders[o].merchant_id] # NoWallet

LEMMA NewOrderIsFunded ==
  ASSUME IInv, [Next]_vars, NEW o \in OrderIds, ~ Exists(o), Exists(o)'
  PROVE  \E w \in Wallets : Funding(w)
<1>1. orders'[o] # orders[o] /\ orders[o].state \notin Live
  BY DEF Exists, Live
<1>2. ASSUME NEW p \in OrderIds, NEW s, orders[p].state \in Live, SetState(p, s)
      PROVE  FALSE
  BY <1>1, <1>2 DEF SetState, IInv, TypeOK
<1>3. ASSUME NEW w \in Wallets, NEW p \in OrderIds, Settle(w, p)  PROVE FALSE
  BY <1>2, <1>3, SettleStep
<1>4. ASSUME NEW w \in Wallets, NEW p \in OrderIds, Progress(w, p)  PROVE FALSE
  BY <1>2, <1>4, ProgressStep
<1>5. ~ (Tick \/ UNCHANGED vars \/ \E w \in Wallets : Admin(w))
  BY <1>1 DEF Tick, vars, Admin, Initialize, SetMerchantWallet, SetUsdcMint
<1>6. ASSUME NEW w \in Wallets, NEW p \in OrderIds, SendToVault(w, p)  PROVE FALSE
  BY <1>1, <1>6 DEF SendToVault
<1> QED
  BY <1>3, <1>4, <1>5, <1>6 DEF Next

LEMMA StepKeepsWallets ==
  IInv /\ MerchantsKeepWallets /\ [Next]_vars => MerchantsKeepWallets'
<1> SUFFICES ASSUME IInv, MerchantsKeepWallets, [Next]_vars, NEW o \in OrderIds, Exists(o)'
             PROVE  merchant_wallets'[orders'[o].merchant_id] # NoWallet
  BY DEF MerchantsKeepWallets
<1>1. \A m \in Merchants : merchant_wallets[m] # NoWallet => merchant_wallets'[m] # NoWallet
  <2>1. ASSUME NEW w \in Wallets, Admin(w)
        PROVE  \A m \in Merchants :
                 merchant_wallets[m] # NoWallet => merchant_wallets'[m] # NoWallet
    BY <2>1, EscrowAssumption
       DEF Admin, Initialize, SetMerchantWallet, SetUsdcMint, IInv, TypeOK
  <2>2. ASSUME NEW w \in Wallets, Funding(w)  PROVE merchant_wallets' = merchant_wallets
    BY <2>2 DEF Funding, Fund
  <2>3. ASSUME NEW w \in Wallets, NEW p \in OrderIds, Settle(w, p)
        PROVE  merchant_wallets' = merchant_wallets
    BY <2>3, SettleStep DEF PayFromVault
  <2>4. ASSUME NEW w \in Wallets, NEW p \in OrderIds, Progress(w, p)
        PROVE  merchant_wallets' = merchant_wallets
    BY <2>4, ProgressStep
  <2>5. Tick \/ UNCHANGED vars => merchant_wallets' = merchant_wallets
    BY DEF Tick, vars
  <2>6. ASSUME NEW w \in Wallets, NEW p \in OrderIds, SendToVault(w, p)
        PROVE  merchant_wallets' = merchant_wallets
    BY <2>6 DEF SendToVault
  <2> QED
    BY <2>1, <2>2, <2>3, <2>4, <2>5, <2>6 DEF Next
<1>2. CASE Exists(o)
  <2>1. orders'[o].merchant_id = orders[o].merchant_id
    <3>1. orders[o] \in Order
      BY <1>2 DEF Exists, IInv, TypeOK, NoOrder
    <3>2. \/ orders'[o] = orders[o]
          \/ orders'[o] = [orders[o] EXCEPT !.state = orders'[o].state]
      BY <1>2, OrderSteps
    <3> QED
      BY <3>1, <3>2 DEF Order
  <2>2. orders[o].merchant_id \in Merchants
    BY <1>2 DEF Exists, IInv, TypeOK, Order, NoOrder
  <2> QED
    BY <1>1, <1>2, <2>1, <2>2 DEF MerchantsKeepWallets
<1>3. CASE ~ Exists(o)
  <2>1. PICK w \in Wallets : Funding(w)
    BY <1>3, NewOrderIsFunded
  <2>2. PICK m \in Merchants, p \in OrderIds, c \in Codes, a \in Amounts, d \in Deadlines :
               Fund(w, m, p, a, c, d)
    BY <2>1 DEF Funding
  <2>3. p = o /\ orders'[o].merchant_id = m
    BY <1>3, <2>2 DEF Fund, Exists, IInv, TypeOK
  <2> QED
    BY <2>2, <2>3 DEF Fund
<1> QED
  BY <1>2, <1>3

LEMMA WalletsArePaid == IInv /\ MerchantsKeepWallets => OnlyStraysStrand
<1> SUFFICES ASSUME IInv, MerchantsKeepWallets, NEW o \in OrderIds, orders[o].state \in Live
             PROVE  (\E w \in Wallets, m \in Merchants : MayRelease(w, m, o)) <=> strays[o] = 0
  BY DEF OnlyStraysStrand
<1>1. orders[o].buyer \in Wallets /\ orders[o].merchant_id \in Merchants /\ Exists(o)
  BY DEF IInv, TypeOK, Order, NoOrder, Live, Exists
<1>2. merchant_wallets[orders[o].merchant_id] # NoWallet
  BY <1>1 DEF MerchantsKeepWallets
<1>3. Payable(o) <=> strays[o] = 0
  <2>1. /\ vaults[o].mint \in Mints /\ vaults[o].balance = orders[o].amount + strays[o]
        /\ strays[o] \in Nat /\ orders[o].amount \in Nat
    BY DEF IInv, VaultBacksOrder, TypeOK, Order, NoOrder, Live
  <2> QED
    BY <2>1, EscrowAssumption DEF Payable
<1> QED
  BY <1>1, <1>2, <1>3 DEF MayRelease

\* The tokens of every mint are conserved, vaults and what strangers send to
\* them included; a live deposit can be paid out exactly if nobody sent tokens
\* to its vault, for any number of wallets, mints and orders and whatever the
\* authority does between fund and settlement (confirm_pickup.rs 43-68,
\* set_usdc_mint.rs 6-25).
THEOREM MoneyIsSafe == Spec => []MoneyStaysMoney
<1>1. Init => Conservation /\ MerchantsKeepWallets
  <2>1. Init => MerchantsKeepWallets
    BY DEF Init, MerchantsKeepWallets, Exists, NoOrder
  <2> QED
    BY <2>1, InitConserves
<1>2. /\ IInv /\ IInv'
      /\ Conservation /\ MerchantsKeepWallets /\ [Next]_vars
      => Conservation' /\ MerchantsKeepWallets'
  BY StepConserves, StepKeepsWallets
<1>3. IInv /\ Conservation /\ MerchantsKeepWallets => MoneyStaysMoney
  BY WalletsArePaid DEF MoneyStaysMoney
<1> QED
  BY <1>1, <1>2, <1>3, Invariance, PTL DEF Spec

-----------------------------------------------------------------------------
(* Refinement *)

LEMMA InitRefines == Init => Promise!Init
<1> SUFFICES ASSUME Init
             PROVE  Promise!Init
  OBVIOUS
<1>1. \A o \in OrderIds : orders[o].state = "None"
  BY DEF Init, NoOrder
<1>2. \A o \in OrderIds : Deal(o) = "open" /\ Payer(o) = NoWallet
  BY <1>1 DEF Deal, Payer, Exists, Live
<1>3. /\ [o \in OrderIds |-> Deal(o)] = [o \in OrderIds |-> "open"]
      /\ [o \in OrderIds |-> Payer(o)] = [o \in OrderIds |-> NoWallet]
  BY <1>2
<1>4. vaults = [o \in OrderIds |-> Promise!Empty]
  BY DEF Init, NoVault, Promise!Empty
<1> QED
  BY <1>3, <1>4 DEF Init, Promise!Init

\* A step that leaves money, existence and liveness alone is invisible.
LEMMA StutterRefines ==
  ASSUME UNCHANGED <<vaults, tokens>>,
         \A o \in OrderIds : Deal(o)' = Deal(o) /\ Payer(o)' = Payer(o)
  PROVE  UNCHANGED Promise!promise
BY DEF Promise!promise

LEMMA FundRefines ==
  ASSUME IInv, NEW w \in Wallets, Funding(w)
  PROVE  Promise!Next
<1> PICK m \in Merchants, o \in OrderIds, c \in Codes, a \in Amounts, d \in Deadlines :
           Fund(w, m, o, a, c, d)
  BY DEF Funding
<1> USE DEF IInv
<1>1. config.usdc_mint \in Mints /\ a \in 1 .. tokens[w][config.usdc_mint]
  BY EscrowAssumption DEF Fund, IdFits, Affordable, TypeOK, Config, NoConfig, OrderIds
<1>2. /\ Deal(o) = "open"
      /\ Deal(o)' = "held"
      /\ Payer(o)' = w
      /\ \A p \in OrderIds \ {o} : Deal(p)' = Deal(p) /\ Payer(p)' = Payer(p)
  <2>1. strays' = strays /\ strays[o] = 0
    BY DEF Fund, VaultBacksOrder, Exists, Live
  <2> QED
    BY <2>1 DEF Fund, TypeOK, Exists, Deal, Payer, Live
<1>3. /\ vaults' = [vaults EXCEPT ![o] = [mint |-> config.usdc_mint, balance |-> a]]
      /\ tokens' = [tokens EXCEPT ![w][config.usdc_mint] = @ - a]
  BY DEF Fund
<1>4. Promise!Deposit(o, w, config.usdc_mint, a)
  BY <1>1, <1>2, <1>3 DEF Promise!Deposit
<1> QED
  BY <1>1, <1>4 DEF Promise!Next

LEMMA SettleRefines ==
  ASSUME IInv, NEW w \in Wallets, NEW o \in OrderIds, Settle(w, o)
  PROVE  Promise!Next
<1> PICK to \in Wallets, s \in Settled :
           /\ orders[o].state \in Live
           /\ s = "Refunded" => to = orders[o].buyer
           /\ PayFromVault(o, to)
           /\ SetState(o, s)
  BY SettleStep
<1>1. orders[o] \in Order
  BY DEF IInv, TypeOK, NoOrder, Live
<1>2. /\ orders'[o] = [orders[o] EXCEPT !.state = s]
      /\ orders'[o].state = s
      /\ orders'[o].buyer = orders[o].buyer
      /\ \A p \in OrderIds \ {o} : orders'[p] = orders[p]
  BY <1>1 DEF SetState, IInv, TypeOK, Order
<1>3. strays' = strays /\ strays[o] = 0
  <2>1. /\ vaults[o].balance = orders[o].amount
        /\ vaults[o].balance = orders[o].amount + strays[o]
        /\ strays[o] \in Nat /\ orders[o].amount \in Nat
    BY <1>1 DEF PayFromVault, Payable, IInv, VaultBacksOrder, TypeOK, Order
  <2> QED
    BY <2>1 DEF PayFromVault
<1>4. /\ Deal(o) = "held"
      /\ Deal(o)' = IF s = "Refunded" THEN "returned" ELSE "paid"
      /\ \A p \in OrderIds : Payer(p)' = Payer(p)
      /\ \A p \in OrderIds \ {o} : Deal(p)' = Deal(p)
      /\ s = "Refunded" => to = Payer(o)
  BY <1>2, <1>3 DEF Deal, Payer, Exists, Live, Settled
<1>5. /\ tokens' = [tokens EXCEPT ![to][vaults[o].mint] = @ + vaults[o].balance]
      /\ vaults' = [vaults EXCEPT ![o] = Promise!Empty]
  BY DEF PayFromVault, Payable, NoVault, Promise!Empty
<1>6. Promise!Empties(o, to)
  BY <1>4, <1>5 DEF Promise!Empties
<1>7. CASE s = "Refunded"
  BY <1>4, <1>6, <1>7 DEF Promise!GiveBack, Promise!Next
<1>8. CASE s # "Refunded"
  BY <1>4, <1>6, <1>8 DEF Promise!PayOut, Promise!Next
<1> QED
  BY <1>7, <1>8

LEMMA StrayRefines ==
  ASSUME IInv, NEW w \in Wallets, NEW o \in OrderIds, SendToVault(w, o)
  PROVE  Promise!Next
<1> PICK n \in Nat \ {0}, t \in Mints :
           /\ orders[o].state \in Live
           /\ t = vaults[o].mint /\ t # NoMint
           /\ n \in 1 .. tokens[w][t]
           /\ tokens' = [tokens EXCEPT ![w][t] = tokens[w][t] - n]
           /\ vaults' = [vaults EXCEPT ![o].balance = vaults[o].balance + n]
           /\ strays' = [strays EXCEPT ![o] = strays[o] + n]
           /\ UNCHANGED <<config, merchant_wallets, orders, now>>
  BY StrayStep
<1>1. strays[o] \in Nat /\ strays'[o] # 0 /\ \A p \in OrderIds \ {o} : strays'[p] = strays[p]
  BY DEF IInv, TypeOK
<1>2. /\ Deal(o) \in {"held", "jammed"}
      /\ Deal(o)' = "jammed"
      /\ \A p \in OrderIds \ {o} : Deal(p)' = Deal(p)
      /\ \A p \in OrderIds : Payer(p)' = Payer(p)
  BY <1>1 DEF Deal, Payer, Exists, Live
<1>3. Promise!Jam(o, w, n)
  BY <1>2 DEF Promise!Jam
<1> QED
  BY <1>2, <1>3 DEF Promise!Next

LEMMA NextRefines == IInv /\ [Next]_vars => [Promise!Next]_Promise!promise
<1> SUFFICES ASSUME IInv, [Next]_vars
             PROVE  Promise!Next \/ UNCHANGED Promise!promise
  OBVIOUS
<1>1. CASE Tick \/ UNCHANGED vars \/ \E w \in Wallets : Admin(w)
  <2>1. UNCHANGED <<orders, vaults, strays, tokens>>
    BY <1>1 DEF Tick, vars, Admin, Initialize, SetMerchantWallet, SetUsdcMint
  <2> QED
    BY <2>1, StutterRefines DEF Deal, Payer, Exists
<1>2. ASSUME NEW w \in Wallets, NEW o \in OrderIds, Progress(w, o)
      PROVE  UNCHANGED Promise!promise
  <2> PICK s \in Live :
             /\ orders[o].state \in Live
             /\ SetState(o, s)
             /\ UNCHANGED <<config, merchant_wallets, vaults, strays, tokens, now>>
    BY <1>2, ProgressStep
  <2>1. orders[o] \in Order
    BY DEF IInv, TypeOK, NoOrder, Live
  <2>2. /\ orders'[o].state = s
        /\ orders'[o].buyer = orders[o].buyer
        /\ \A p \in OrderIds \ {o} : orders'[p] = orders[p]
    BY <2>1 DEF SetState, IInv, TypeOK, Order
  <2>3. \A p \in OrderIds : Deal(p)' = Deal(p) /\ Payer(p)' = Payer(p)
    BY <2>2 DEF Deal, Payer, Exists, Live
  <2> QED
    BY <2>3, StutterRefines
<1> QED
  BY <1>1, <1>2, FundRefines, SettleRefines, StrayRefines DEF Next

\* The program implements the promise: money is escrowed whole, stays put,
\* and leaves once and whole, to the payer when it is a refund; a deposit that
\* a stranger has added to does not leave.
THEOREM Refinement == Spec => ImplementsPromise
BY InitRefines, NextRefines, Invariance, PTL DEF Spec, ImplementsPromise, Promise!Spec
-----------------------------------------------------------------------------
(* The life cycle *)

LEMMA SetStateLife ==
  ASSUME IInv, NEW o \in OrderIds, NEW s \in Live \cup Settled,
         orders[o].state \in Live, SetState(o, s)
  PROVE  [p \in OrderIds |-> orders'[p].state]
           = [[p \in OrderIds |-> orders[p].state] EXCEPT ![o] = s]
<1>1. orders[o] \in Order
  BY DEF IInv, TypeOK, NoOrder, Live
<1>2. /\ orders'[o].state = s
      /\ \A p \in OrderIds \ {o} : orders'[p] = orders[p]
  BY <1>1 DEF SetState, IInv, TypeOK, Order
<1> QED
  BY <1>2

LEMMA FundLife ==
  ASSUME IInv, NEW w \in Wallets, Funding(w)
  PROVE  Life!Next
<1> PICK m \in Merchants, o \in OrderIds, c \in Codes, a \in Amounts, d \in Deadlines :
           Fund(w, m, o, a, c, d)
  BY DEF Funding
<1>1. orders \in [OrderIds -> Order \cup {NoOrder}]
  BY DEF IInv, TypeOK
<1>2. orders[o].state = "None" /\ o = config.next_order_id
  BY DEF Fund, Exists, IdFits
<1>3. \A p \in OrderIds : p < o => orders[p].state # "None"
  BY <1>2 DEF IInv, IdsDense, Exists
<1>4. /\ orders'[o].state = "Funded"
      /\ \A p \in OrderIds \ {o} : orders'[p] = orders[p]
  BY <1>1 DEF Fund
<1>5. [p \in OrderIds |-> orders'[p].state]
        = [[p \in OrderIds |-> orders[p].state] EXCEPT ![o] = "Funded"]
  BY <1>4
<1>6. Life!Create(o)
  BY <1>2, <1>3, <1>5 DEF Life!Create, Life!Becomes
<1> QED
  BY <1>6 DEF Life!Next

LEMMA SettleLife ==
  ASSUME IInv, NEW w \in Wallets, NEW o \in OrderIds, Settle(w, o)
  PROVE  Life!Next
<1> PICK s \in Settled : orders[o].state \in Live /\ SetState(o, s)
  BY SettleStep
<1>1. Life!Settle(o)
  BY SetStateLife DEF Life!Settle, Life!Becomes, Live, Settled
<1> QED
  BY <1>1 DEF Life!Next

LEMMA ProgressLife ==
  ASSUME IInv, NEW w \in Wallets, NEW o \in OrderIds, Progress(w, o)
  PROVE  Life!Next
<1> PICK m \in Merchants : MarkPreparing(w, m, o) \/ MarkReady(w, m, o) \/ Dispute(w, m, o)
  BY DEF Progress
<1>1. CASE MarkPreparing(w, m, o)
  BY <1>1, SetStateLife DEF MarkPreparing, Life!Advance, Life!Becomes, Life!Next, Live
<1>2. CASE MarkReady(w, m, o)
  BY <1>2, SetStateLife DEF MarkReady, Life!Advance, Life!Becomes, Life!Next, Live
<1>3. CASE Dispute(w, m, o)
  BY <1>3, SetStateLife DEF Dispute, Life!Advance, Life!Becomes, Life!Next, Live
<1> QED
  BY <1>1, <1>2, <1>3

\* The program's orders live as EscrowLife says, so what is proved of the
\* bridge against a chain with that life holds against this program.
THEOREM LifeRefinement == Spec => FollowsLife
<1>1. Init => Life!Init
  BY DEF Init, Life!Init, NoOrder
<1>2. IInv /\ [Next]_vars => [Life!Next]_[o \in OrderIds |-> orders[o].state]
  <2> SUFFICES ASSUME IInv, [Next]_vars
               PROVE  Life!Next \/ UNCHANGED [o \in OrderIds |-> orders[o].state]
    OBVIOUS
  <2>1. CASE Tick \/ UNCHANGED vars \/ \E w \in Wallets : Admin(w)
    BY <2>1 DEF Tick, vars, Admin, Initialize, SetMerchantWallet, SetUsdcMint
  <2>2. ASSUME NEW w \in Wallets, NEW o \in OrderIds, SendToVault(w, o)
        PROVE  UNCHANGED [p \in OrderIds |-> orders[p].state]
    BY <2>2 DEF SendToVault
  <2> QED
    BY <2>1, <2>2, FundLife, SettleLife, ProgressLife DEF Next
<1> QED
  BY <1>1, <1>2, Invariance, PTL DEF Spec, FollowsLife, Life!Spec

-----------------------------------------------------------------------------
(***************************************************************************)
(* The stock.                                                              *)
(***************************************************************************)
Rows == [physical : Nat, reserved : Nat, available : Nat]
Reservations == [sku : Skus, qty : 0 .. MaxQty,
                 status : {"none", "held", "released", "consumed"}]
Writes == [sku : Skus, row : Rows, hold : 0 .. MaxHolds]
Releases == [does : {"release"}, hold : Holds]
Commits == [does : {"commit"}, order : Orders, stale : SUBSET Holds,
            pick : 0 .. MaxHolds, read : BOOLEAN, done : SUBSET Writes]
Frames == {Idle} \cup Releases \cup Commits

\* A write stays true of the committed rows: the row is what the item leaves of
\* the inventory as it is now, and the reservation used is one of the sku's.
WriteHolds(w, i) ==
    /\ w.sku = i.sku
    /\ w.row.physical = inventory[w.sku].physical - i.qty
    /\ IF w.hold = NoHold
       THEN w.row.reserved = inventory[w.sku].reserved
       ELSE /\ holds[w.hold].status # "none" /\ holds[w.hold].sku = w.sku
            /\ w.row.reserved = inventory[w.sku].reserved - holds[w.hold].qty

\* The items t has taken are the first of its order's basket, one write each.
TakenInOrder(t) ==
    LET basket == Basket[tx[t].order]
        done == tx[t].done
    IN  /\ IsFiniteSet(done) /\ Cardinality(done) <= Len(basket)
        /\ \A j \in 1 .. Cardinality(done) : \E w \in done : w.sku = basket[j].sku
        /\ \A w \in done : \E j \in 1 .. Cardinality(done) : WriteHolds(w, basket[j])
        /\ \A w, v \in done : w.sku = v.sku => w = v

\* What t has read is a reservation of the next item's sku.
PickFits(t) ==
    /\ tx[t].read => ItemsLeft(t)
    /\ tx[t].pick # NoHold =>
          /\ tx[t].read
          /\ holds[tx[t].pick].status # "none"
          /\ holds[tx[t].pick].sku = NextItem(t).sku

CommitHolds(t) ==
    tx[t].does = "commit" =>
        /\ outcome[tx[t].order] = "open"
        /\ TakenInOrder(t)
        /\ PickFits(t)

\* Two transactions commit different orders and have locked different rows.
Apart(t, u) ==
    tx[t].does = "commit" /\ tx[u].does = "commit" =>
        /\ tx[t].order # tx[u].order
        /\ \A w \in tx[t].done, v \in tx[u].done : w.sku # v.sku

Balanced ==
    \A s \in Skus : inventory[s].physical + SoldUnits(s) = Initial[s] + adjusted[s]

\* What holds of the open transactions.
FramesHold ==
    /\ tx \in [Tx -> Frames]
    /\ \A t \in Tx : CommitHolds(t)
    /\ \A t, u \in Tx : t # u => Apart(t, u)

\* The inductive invariant: the rows a transaction has locked are those it read,
\* so that what it writes when it commits takes exactly its order's units.
StockInv ==
    /\ StockTypeOK
    /\ FramesHold
    /\ Balanced
    /\ NothingLeaks

-----------------------------------------------------------------------------
(* Types *)

LEMMA Bounds ==
  /\ Initial \in [Skus -> Nat] /\ Basket \in [Orders -> Seq(Items)]
  /\ MaxQty \in Nat /\ MaxHolds \in Nat /\ MaxAdjusts \in Nat
  /\ IsFiniteSet(Orders) /\ IsFiniteSet(Holds) /\ NoHold \notin Holds
  /\ 0 .. MaxHolds = Holds \cup {NoHold}
<1>1. IsFiniteSet(Holds)
  BY StockAssumption, FS_Interval DEF Holds
<1> QED
  BY <1>1, StockAssumption DEF Holds, NoHold

LEMMA Types ==
  ASSUME StockInv
  PROVE  /\ inventory \in [Skus -> Rows]
         /\ holds \in [Holds -> Reservations]
         /\ expired \in SUBSET Holds
         /\ outcome \in [Orders -> {"open", "refused", "sold", "returned"}]
         /\ adjusted \in [Skus -> Int] /\ adjusts \in Nat
         /\ tx \in [Tx -> Frames]
BY DEF StockInv, FramesHold, StockTypeOK, Rows, Reservations

LEMMA FrameFacts ==
  ASSUME StockInv, NEW t \in Tx
  PROVE  /\ tx[t].does \in {"idle", "release", "commit"}
         /\ tx[t].does = "release" => tx[t] \in Releases
         /\ tx[t].does = "commit" => tx[t] \in Commits
BY Types DEF Frames, Releases, Commits, Idle

LEMMA IdleIsFrame == Idle \in Frames /\ Idle.does = "idle"
BY DEF Idle, Frames

LEMMA SameRow ==
  ASSUME NEW x \in Rows, NEW y \in Rows,
         x.physical = y.physical, x.reserved = y.reserved, x.available = y.available
  PROVE  x = y
BY DEF Rows

\* The row that a change leaves.
LEMMA ChangedRow ==
  ASSUME StockInv, NEW s \in Skus, NEW p \in Int, NEW r \in Int, NEW a \in Int
  PROVE  /\ Change(s, p, r, a).physical = inventory[s].physical + p
         /\ Change(s, p, r, a).reserved = inventory[s].reserved + r
         /\ Change(s, p, r, a).available = inventory[s].available + a
         /\ Checked(Change(s, p, r, a)) => Change(s, p, r, a) \in Rows
<1>1. inventory[s] \in Rows
  BY Types
<1>2. /\ Change(s, p, r, a).physical = inventory[s].physical + p
      /\ Change(s, p, r, a).reserved = inventory[s].reserved + r
      /\ Change(s, p, r, a).available = inventory[s].available + a
  BY <1>1 DEF Change, Rows
<1>3. ASSUME Checked(Change(s, p, r, a))
      PROVE  Change(s, p, r, a) \in Rows
  <2>1. /\ inventory[s].physical + p \in Nat
        /\ inventory[s].reserved + r \in Nat
        /\ inventory[s].available + a \in Nat
    BY <1>1, <1>2, <1>3 DEF Checked, Rows
  <2> QED
    BY <1>1, <2>1 DEF Change, Rows
<1> QED
  BY <1>2, <1>3

LEMMA BasketLines ==
  ASSUME NEW o \in Orders
  PROVE  /\ Basket[o] \in Seq(Items) /\ Len(Basket[o]) \in Nat
         /\ DOMAIN Basket[o] = 1 .. Len(Basket[o])
         /\ \A j \in 1 .. Len(Basket[o]) :
              /\ Basket[o][j] \in Items
              /\ Basket[o][j].sku \in Skus /\ Basket[o][j].qty \in Nat
              /\ Basket[o][j].qty \in 1 .. MaxQty
         /\ \A i, j \in 1 .. Len(Basket[o]) :
              Basket[o][i].sku = Basket[o][j].sku => i = j
<1>1. Basket[o] \in Seq(Items)
  BY StockAssumption
<1>2. Len(Basket[o]) \in Nat /\ DOMAIN Basket[o] = 1 .. Len(Basket[o])
  BY <1>1, LenProperties
<1>3. \A j \in 1 .. Len(Basket[o]) : Basket[o][j] \in Items
  BY <1>1, <1>2, ElementOfSeq
<1>4. \A j \in 1 .. Len(Basket[o]) :
        /\ Basket[o][j].sku \in Skus /\ Basket[o][j].qty \in 1 .. MaxQty
        /\ Basket[o][j].qty \in Nat
  BY <1>3, StockAssumption DEF Items
<1>5. \A i, j \in 1 .. Len(Basket[o]) :
        Basket[o][i].sku = Basket[o][j].sku => i = j
  BY <1>2, StockAssumption
<1> QED
  BY <1>1, <1>2, <1>3, <1>4, <1>5

\* An order's units of a sku are those of the only line that names it.
LEMMA UnitsOfLine ==
  ASSUME NEW o \in Orders, NEW j \in 1 .. Len(Basket[o])
  PROVE  Units(o, Basket[o][j].sku) = Basket[o][j].qty
<1> DEFINE lines == {i \in DOMAIN Basket[o] : Basket[o][i].sku = Basket[o][j].sku}
<1>1. lines = {j}
  BY BasketLines
<1>2. (CHOOSE i \in lines : TRUE) = j
  BY <1>1
<1> QED
  BY <1>1, <1>2 DEF Units

LEMMA UnitsOfOthers ==
  ASSUME NEW o \in Orders, NEW s,
         \A j \in 1 .. Len(Basket[o]) : Basket[o][j].sku # s
  PROVE  Units(o, s) = 0
<1>1. {j \in DOMAIN Basket[o] : Basket[o][j].sku = s} = {}
  BY BasketLines
<1> QED
  BY <1>1 DEF Units

LEMMA UnitsType ==
  ASSUME NEW o \in Orders, NEW s
  PROVE  Units(o, s) \in Nat
<1>1. CASE \E j \in 1 .. Len(Basket[o]) : Basket[o][j].sku = s
  BY <1>1, UnitsOfLine, BasketLines
<1>2. CASE \A j \in 1 .. Len(Basket[o]) : Basket[o][j].sku # s
  BY <1>2, UnitsOfOthers
<1> QED
  BY <1>1, <1>2

-----------------------------------------------------------------------------
(* Sums *)

HeldOf(hs, h, s) == IF hs[h].status = "held" /\ hs[h].sku = s THEN hs[h].qty ELSE 0
SoldOf(os, o, s) == IF os[o] = "sold" THEN Units(o, s) ELSE 0

LEMMA HeldUnitsAre ==
  ASSUME NEW s
  PROVE  /\ HeldUnits(s) =
              SumFunctionOnSet([h \in Holds |-> HeldOf(holds, h, s)], Holds)
         /\ HeldUnits(s)' =
              SumFunctionOnSet([h \in Holds |-> HeldOf(holds', h, s)], Holds)
BY DEF HeldUnits, HeldOf, SumFunction

LEMMA SoldUnitsAre ==
  ASSUME NEW s
  PROVE  /\ SoldUnits(s) =
              SumFunctionOnSet([o \in Orders |-> SoldOf(outcome, o, s)], Orders)
         /\ SoldUnits(s)' =
              SumFunctionOnSet([o \in Orders |-> SoldOf(outcome', o, s)], Orders)
BY DEF SoldUnits, SoldOf, SumFunction

LEMMA HeldOfType ==
  ASSUME NEW hs \in [Holds -> Reservations], NEW h \in Holds, NEW s
  PROVE  HeldOf(hs, h, s) \in Nat
BY Bounds DEF HeldOf, Reservations

LEMMA SoldOfType ==
  ASSUME NEW os, NEW o \in Orders, NEW s
  PROVE  SoldOf(os, o, s) \in Nat
BY UnitsType DEF SoldOf

LEMMA SumTypes ==
  ASSUME StockInv, NEW s
  PROVE  HeldUnits(s) \in Nat /\ SoldUnits(s) \in Nat
<1>1. \A h \in Holds : HeldOf(holds, h, s) \in Nat
  BY Types, HeldOfType
<1>2. \A o \in Orders : SoldOf(outcome, o, s) \in Nat
  BY SoldOfType
<1>3. IsFiniteSet(Holds) /\ IsFiniteSet(Orders)
  BY Bounds
<1>4. SumFunctionOnSet([h \in Holds |-> HeldOf(holds, h, s)], Holds) \in Nat
  BY <1>1, <1>3, SumIsNat
<1>5. SumFunctionOnSet([o \in Orders |-> SoldOf(outcome, o, s)], Orders) \in Nat
  BY <1>2, <1>3, SumIsNat
<1> QED
  BY <1>4, <1>5, HeldUnitsAre, SoldUnitsAre

\* One reservation changes.
LEMMA HeldChanges ==
  ASSUME StockInv, holds' \in [Holds -> Reservations], NEW s, NEW h \in Holds,
         \A g \in Holds \ {h} : HeldOf(holds', g, s) = HeldOf(holds, g, s)
  PROVE  HeldUnits(s)' = HeldUnits(s) + HeldOf(holds', h, s) - HeldOf(holds, h, s)
<1> DEFINE f == [g \in Holds |-> HeldOf(holds, g, s)]
           k == [g \in Holds |-> HeldOf(holds', g, s)]
<1>1. \A g \in Holds : f[g] \in Int /\ k[g] \in Int
  BY Types, HeldOfType
<1>2. \A g \in Holds \ {h} : f[g] = k[g]
  OBVIOUS
<1>3. IsFiniteSet(Holds)
  BY Bounds
<1>4. f[h] = HeldOf(holds, h, s) /\ k[h] = HeldOf(holds', h, s)
  OBVIOUS
<1> HIDE DEF f, k
<1>5. SumFunctionOnSet(k, Holds) = SumFunctionOnSet(f, Holds) + k[h] - f[h]
  BY <1>1, <1>2, <1>3, SumChanges
<1> QED
  BY <1>4, <1>5, HeldUnitsAre DEF f, k

\* No reservation of the sku changes.
LEMMA HeldStays ==
  ASSUME NEW s, \A g \in Holds : HeldOf(holds', g, s) = HeldOf(holds, g, s)
  PROVE  HeldUnits(s)' = HeldUnits(s)
<1>1. [g \in Holds |-> HeldOf(holds, g, s)] = [g \in Holds |-> HeldOf(holds', g, s)]
  OBVIOUS
<1> QED
  BY <1>1, HeldUnitsAre

\* One order's outcome changes.
LEMMA SoldChanges ==
  ASSUME NEW s, NEW o \in Orders, \A p \in Orders \ {o} : outcome'[p] = outcome[p]
  PROVE  SoldUnits(s)' = SoldUnits(s) + SoldOf(outcome', o, s) - SoldOf(outcome, o, s)
<1> DEFINE f == [p \in Orders |-> SoldOf(outcome, p, s)]
           k == [p \in Orders |-> SoldOf(outcome', p, s)]
<1>1. \A p \in Orders : f[p] \in Int /\ k[p] \in Int
  BY SoldOfType
<1>2. \A p \in Orders \ {o} : f[p] = k[p]
  BY DEF SoldOf
<1>3. IsFiniteSet(Orders)
  BY Bounds
<1>4. f[o] = SoldOf(outcome, o, s) /\ k[o] = SoldOf(outcome', o, s)
  OBVIOUS
<1> HIDE DEF f, k
<1>5. SumFunctionOnSet(k, Orders) = SumFunctionOnSet(f, Orders) + k[o] - f[o]
  BY <1>1, <1>2, <1>3, SumChanges
<1> QED
  BY <1>4, <1>5, SoldUnitsAre DEF f, k

LEMMA SoldStays ==
  ASSUME NEW s, outcome' = outcome
  PROVE  SoldUnits(s)' = SoldUnits(s)
BY SoldUnitsAre

-----------------------------------------------------------------------------
(* What the other transactions rely on *)

\* A reservation that was made keeps its sku and its units.
HoldsKept ==
    \A h \in Holds : holds[h].status # "none" =>
        /\ holds'[h].status # "none"
        /\ holds'[h].sku = holds[h].sku /\ holds'[h].qty = holds[h].qty

\* The committed rows that u relies on stay as they are.
RowsKept(u) ==
    tx[u].does = "commit" =>
        /\ outcome'[tx[u].order] = "open"
        /\ \A w \in tx[u].done : inventory'[w.sku] = inventory[w.sku]

LEMMA CommitFacts ==
  ASSUME StockInv, NEW t \in Tx, tx[t].does = "commit"
  PROVE  /\ tx[t] \in Commits
         /\ tx[t].order \in Orders /\ tx[t].stale \in SUBSET Holds
         /\ tx[t].pick \in 0 .. MaxHolds /\ tx[t].read \in BOOLEAN
         /\ tx[t].done \in SUBSET Writes
         /\ outcome[tx[t].order] = "open"
         /\ TakenInOrder(t) /\ PickFits(t)
         /\ IsFiniteSet(tx[t].done) /\ Cardinality(tx[t].done) \in Nat
<1>1. tx[t] \in Commits
  BY FrameFacts
<1>2. outcome[tx[t].order] = "open" /\ TakenInOrder(t) /\ PickFits(t)
  BY DEF StockInv, FramesHold, CommitHolds
<1>3. IsFiniteSet(tx[t].done)
  BY <1>2 DEF TakenInOrder
<1>4. Cardinality(tx[t].done) \in Nat
  BY <1>3, FS_CardinalityType
<1> QED
  BY <1>1, <1>2, <1>3, <1>4 DEF Commits

LEMMA WriteStays ==
  ASSUME StockInv, HoldsKept, NEW w \in Writes, NEW i,
         inventory'[w.sku] = inventory[w.sku], WriteHolds(w, i)
  PROVE  WriteHolds(w, i)'
<1>1. w.hold # NoHold => w.hold \in Holds
  BY Bounds DEF Writes
<1> QED
  BY <1>1 DEF WriteHolds, HoldsKept

LEMMA CommitHoldsStays ==
  ASSUME StockInv, HoldsKept, NEW u \in Tx, tx'[u] = tx[u], RowsKept(u)
  PROVE  CommitHolds(u)'
<1> SUFFICES ASSUME tx[u].does = "commit"
             PROVE  outcome'[tx[u].order] = "open" /\ TakenInOrder(u)' /\ PickFits(u)'
  BY DEF CommitHolds
<1>1. outcome'[tx[u].order] = "open"
  BY DEF RowsKept
<1>2. TakenInOrder(u)'
  <2>1. \A w \in tx[u].done : \A i : WriteHolds(w, i) => WriteHolds(w, i)'
    BY CommitFacts, WriteStays DEF RowsKept
  <2>2. \A w \in tx[u].done :
          \E j \in 1 .. Cardinality(tx[u].done) : WriteHolds(w, Basket[tx[u].order][j])
    BY CommitFacts DEF TakenInOrder
  <2>3. \A w \in tx[u].done :
          \E j \in 1 .. Cardinality(tx[u].done) : WriteHolds(w, Basket[tx[u].order][j])'
    BY <2>1, <2>2
  <2> QED
    BY <2>3, CommitFacts DEF TakenInOrder
<1>3. PickFits(u)'
  <2>1. tx[u].pick # NoHold => tx[u].pick \in Holds
    BY CommitFacts, Bounds
  <2>2. PickFits(u)
    BY CommitFacts
  <2> QED
    BY <2>1, <2>2 DEF PickFits, HoldsKept, ItemsLeft, NextItem
<1> QED
  BY <1>1, <1>2, <1>3

\* A step that leaves every transaction as it was, or closes it, or starts a
\* release, and touches no row that an open transaction has locked.
LEMMA FramesStay ==
  ASSUME StockInv, HoldsKept, tx' \in [Tx -> Frames],
         \A u \in Tx : \/ tx'[u] = tx[u] /\ RowsKept(u)
                       \/ tx'[u].does # "commit"
  PROVE  FramesHold'
<1>1. ASSUME NEW u \in Tx  PROVE CommitHolds(u)'
  <2>1. CASE tx'[u] = tx[u] /\ RowsKept(u)
    BY <2>1, CommitHoldsStays
  <2>2. CASE tx'[u].does # "commit"
    BY <2>2 DEF CommitHolds
  <2> QED
    BY <2>1, <2>2
<1>2. ASSUME NEW u \in Tx, NEW v \in Tx, u # v  PROVE Apart(u, v)'
  <2>1. Apart(u, v)
    BY <1>2 DEF StockInv, FramesHold
  <2>2. /\ tx'[u] = tx[u] \/ tx'[u].does # "commit"
        /\ tx'[v] = tx[v] \/ tx'[v].does # "commit"
    OBVIOUS
  <2> QED
    BY <2>1, <2>2 DEF Apart
<1> QED
  BY <1>1, <1>2 DEF FramesHold

\* A step of t's transaction that writes no committed row.
LEMMA FramesMove ==
  ASSUME StockInv, UNCHANGED <<inventory, holds, outcome>>, NEW t \in Tx,
         tx' \in [Tx -> Frames], \A u \in Tx \ {t} : tx'[u] = tx[u],
         CommitHolds(t)', \A u \in Tx \ {t} : Apart(t, u)'
  PROVE  FramesHold'
<1>1. HoldsKept
  BY DEF HoldsKept
<1>2. \A u \in Tx : RowsKept(u)
  BY CommitFacts DEF RowsKept
<1>3. ASSUME NEW u \in Tx  PROVE CommitHolds(u)'
  BY <1>1, <1>2, CommitHoldsStays
<1>4. ASSUME NEW u \in Tx, NEW v \in Tx, u # v  PROVE Apart(u, v)'
  <2>1. CASE u = t
    BY <2>1, <1>4
  <2>2. CASE v = t
    <3>1. Apart(t, u)'
      BY <2>2, <1>4
    <3> QED
      BY <3>1, <2>2 DEF Apart
  <2>3. CASE u # t /\ v # t
    <3>1. Apart(u, v) /\ tx'[u] = tx[u] /\ tx'[v] = tx[v]
      BY <2>3, <1>4 DEF StockInv, FramesHold
    <3> QED
      BY <3>1 DEF Apart
  <2> QED
    BY <2>1, <2>2, <2>3
<1> QED
  BY <1>3, <1>4 DEF FramesHold

\* A row that is free for t is locked by nobody else.
LEMMA FreeRow ==
  ASSUME StockInv, NEW t \in Tx, NEW s, SkuFree(t, s), NEW u \in Tx,
         tx[u].does = "commit", u # t, NEW w \in tx[u].done
  PROVE  w.sku # s
BY DEF SkuFree, Locks

\* A step that changes no row leaves the books as they were.
LEMMA BooksStay ==
  ASSUME StockInv, UNCHANGED <<inventory, adjusted>>,
         \A s \in Skus : SoldUnits(s)' = SoldUnits(s) /\ HeldUnits(s)' = HeldUnits(s)
  PROVE  Balanced' /\ NothingLeaks'
<1>1. Balanced'
  BY DEF StockInv, Balanced
<1>2. NothingLeaks'
  BY DEF StockInv, NothingLeaks
<1> QED
  BY <1>1, <1>2

-----------------------------------------------------------------------------
(* Steps on the rows *)

LEMMA ReserveStep ==
  ASSUME StockInv, NEW t \in Tx, NEW h \in Holds, NEW item \in Items, Reserve(t, h, item)
  PROVE  StockInv'
<1> DEFINE row == Change(item.sku, 0, item.qty, -item.qty)
<1>1. /\ ~Working(t) /\ SkuFree(t, item.sku) /\ holds[h].status = "none"
      /\ Checked(row)
      /\ inventory' = [inventory EXCEPT ![item.sku] = row]
      /\ holds' = [holds EXCEPT
                     ![h] = [sku |-> item.sku, qty |-> item.qty, status |-> "held"]]
      /\ UNCHANGED <<expired, outcome, adjusted, adjusts, tx>>
  BY DEF Reserve
<1>2. item.sku \in Skus /\ item.qty \in Nat /\ item.qty \in 0 .. MaxQty
  BY Bounds DEF Items
<1>3. /\ row.physical = inventory[item.sku].physical
      /\ row.reserved = inventory[item.sku].reserved + item.qty
      /\ row \in Rows
  <2>1. inventory[item.sku].physical \in Nat /\ 0 \in Int /\ -item.qty \in Int
    BY <1>2, Types DEF Rows
  <2> QED
    BY <1>1, <1>2, <2>1, ChangedRow
<1> HIDE DEF row
<1>4. StockTypeOK'
  <2>1. holds' \in [Holds -> Reservations]
    BY <1>1, <1>2, Types DEF Reservations
  <2>2. inventory' \in [Skus -> Rows]
    BY <1>1, <1>2, <1>3, Types
  <2> QED
    BY <1>1, <2>1, <2>2, Types DEF StockTypeOK, Rows, Reservations
<1>5. FramesHold'
  <2>1. HoldsKept
    BY <1>1, Types DEF HoldsKept
  <2>2. \A u \in Tx : RowsKept(u)
    <3> SUFFICES ASSUME NEW u \in Tx, tx[u].does = "commit"
                 PROVE  /\ outcome'[tx[u].order] = "open"
                        /\ \A w \in tx[u].done : inventory'[w.sku] = inventory[w.sku]
      BY DEF RowsKept
    <3>1. u # t
      BY <1>1 DEF Working
    <3>2. \A w \in tx[u].done : w.sku # item.sku /\ w.sku \in Skus
      BY <1>1, <3>1, FreeRow, CommitFacts DEF Writes
    <3> QED
      BY <1>1, <3>2, CommitFacts, Types
  <2> QED
    BY <1>1, <2>1, <2>2, Types, FramesStay
<1>6. Balanced'
  <2>1. \A s \in Skus : SoldUnits(s)' = SoldUnits(s)
    BY <1>1, SoldStays
  <2>2. \A s \in Skus : inventory'[s].physical = inventory[s].physical
    BY <1>1, <1>2, <1>3, Types
  <2> QED
    BY <1>1, <2>1, <2>2 DEF StockInv, Balanced
<1>7. NothingLeaks'
  <2> SUFFICES ASSUME NEW s \in Skus PROVE inventory'[s].reserved <= HeldUnits(s)'
    BY DEF NothingLeaks
  <2>1. holds' \in [Holds -> Reservations]
    BY <1>4 DEF StockTypeOK, Reservations
  <2>2. HeldUnits(s)' = HeldUnits(s) + HeldOf(holds', h, s) - HeldOf(holds, h, s)
    <3>1. \A g \in Holds \ {h} : HeldOf(holds', g, s) = HeldOf(holds, g, s)
      BY <1>1, Types DEF HeldOf
    <3> QED
      BY <2>1, <3>1, HeldChanges
  <2>3. HeldOf(holds, h, s) = 0
    BY <1>1 DEF HeldOf
  <2>4. HeldOf(holds', h, s) = IF s = item.sku THEN item.qty ELSE 0
    BY <1>1, Types DEF HeldOf
  <2>5. inventory'[s].reserved =
          inventory[s].reserved + IF s = item.sku THEN item.qty ELSE 0
    BY <1>1, <1>3, Types DEF Rows
  <2>6. /\ inventory[s].reserved \in Nat /\ HeldUnits(s) \in Nat
        /\ inventory[s].reserved <= HeldUnits(s)
    BY Types, SumTypes DEF Rows, StockInv, NothingLeaks
  <2> QED
    BY <1>2, <2>2, <2>3, <2>4, <2>5, <2>6
<1> QED
  BY <1>4, <1>5, <1>6, <1>7 DEF StockInv

LEMMA HoldExpiresStep ==
  ASSUME StockInv, NEW h \in Holds, HoldExpires(h)
  PROVE  StockInv'
<1>1. /\ expired' = expired \cup {h}
      /\ UNCHANGED <<inventory, holds, outcome, adjusted, adjusts, tx>>
  BY DEF HoldExpires
<1>2. StockTypeOK'
  BY <1>1 DEF StockInv, StockTypeOK
<1>3. FramesHold'
  <2>1. HoldsKept /\ \A u \in Tx : RowsKept(u)
    BY <1>1, CommitFacts DEF HoldsKept, RowsKept
  <2> QED
    BY <1>1, <2>1, Types, FramesStay
<1>4. \A s \in Skus : SoldUnits(s)' = SoldUnits(s) /\ HeldUnits(s)' = HeldUnits(s)
  BY <1>1, SoldStays, HeldStays
<1> QED
  BY <1>1, <1>2, <1>3, <1>4, BooksStay DEF StockInv

LEMMA AdjustStep ==
  ASSUME StockInv, NEW t \in Tx, NEW s \in Skus, NEW d \in {-1, 1}, AdjustInventory(t, s, d)
  PROVE  StockInv'
<1> DEFINE row == Change(s, d, 0, d)
<1>1. /\ ~Working(t) /\ SkuFree(t, s) /\ Checked(row)
      /\ inventory' = [inventory EXCEPT ![s] = row]
      /\ adjusted' = [adjusted EXCEPT ![s] = adjusted[s] + d]
      /\ adjusts' = adjusts + 1
      /\ UNCHANGED <<expired, outcome, holds, tx>>
  BY DEF AdjustInventory
<1>2. /\ row.physical = inventory[s].physical + d
      /\ row.reserved = inventory[s].reserved
      /\ row \in Rows
  <2>1. inventory[s].reserved \in Nat /\ 0 \in Int /\ d \in Int
    BY Types DEF Rows
  <2> QED
    BY <1>1, <2>1, ChangedRow
<1> HIDE DEF row
<1>3. StockTypeOK'
  <2>1. inventory' \in [Skus -> Rows]
    BY <1>1, <1>2, Types
  <2>2. adjusted' \in [Skus -> Int] /\ adjusts' \in Nat
    BY <1>1, Types
  <2> QED
    BY <1>1, <2>1, <2>2, Types DEF StockTypeOK, Rows, Reservations
<1>4. FramesHold'
  <2>1. HoldsKept
    BY <1>1 DEF HoldsKept
  <2>2. \A u \in Tx : RowsKept(u)
    <3> SUFFICES ASSUME NEW u \in Tx, tx[u].does = "commit"
                 PROVE  /\ outcome'[tx[u].order] = "open"
                        /\ \A w \in tx[u].done : inventory'[w.sku] = inventory[w.sku]
      BY DEF RowsKept
    <3>1. u # t
      BY <1>1 DEF Working
    <3>2. \A w \in tx[u].done : w.sku # s /\ w.sku \in Skus
      BY <1>1, <3>1, FreeRow, CommitFacts DEF Writes
    <3> QED
      BY <1>1, <3>2, CommitFacts, Types
  <2> QED
    BY <1>1, <2>1, <2>2, Types, FramesStay
<1>5. Balanced'
  <2> SUFFICES ASSUME NEW r \in Skus
               PROVE  inventory'[r].physical + SoldUnits(r)' = Initial[r] + adjusted'[r]
    BY DEF Balanced
  <2>1. SoldUnits(r)' = SoldUnits(r) /\ SoldUnits(r) \in Nat
    BY <1>1, SoldStays, SumTypes
  <2>2. inventory'[r].physical = inventory[r].physical + IF r = s THEN d ELSE 0
    BY <1>1, <1>2, Types DEF Rows
  <2>3. adjusted'[r] = adjusted[r] + IF r = s THEN d ELSE 0
    BY <1>1, Types
  <2>4. inventory[r].physical + SoldUnits(r) = Initial[r] + adjusted[r]
    BY DEF StockInv, Balanced
  <2>5. inventory[r].physical \in Nat /\ Initial[r] \in Nat /\ adjusted[r] \in Int
    BY Types, Bounds DEF Rows
  <2> QED
    BY <2>1, <2>2, <2>3, <2>4, <2>5
<1>6. NothingLeaks'
  <2>1. \A r \in Skus : HeldUnits(r)' = HeldUnits(r)
    BY <1>1, HeldStays
  <2>2. \A r \in Skus : inventory'[r].reserved = inventory[r].reserved
    BY <1>1, <1>2, Types
  <2> QED
    BY <2>1, <2>2 DEF StockInv, NothingLeaks
<1> QED
  BY <1>3, <1>4, <1>5, <1>6 DEF StockInv

LEMMA RestockStep ==
  ASSUME StockInv, NEW t \in Tx, NEW o \in Orders, Restock(t, o)
  PROVE  StockInv'
<1>1. /\ ~Working(t) /\ outcome[o] = "sold"
      /\ \A s \in Skus : Units(o, s) > 0 => SkuFree(t, s)
      /\ inventory' = [s \in Skus |-> Change(s, Units(o, s), 0, Units(o, s))]
      /\ outcome' = [outcome EXCEPT ![o] = "returned"]
      /\ UNCHANGED <<holds, expired, adjusted, adjusts, tx>>
  BY DEF Restock
<1>2. \A s \in Skus : Units(o, s) \in Nat
  BY UnitsType
<1>3. ASSUME NEW s \in Skus
      PROVE  /\ inventory'[s].physical = inventory[s].physical + Units(o, s)
             /\ inventory'[s].reserved = inventory[s].reserved
             /\ inventory'[s] \in Rows
             /\ Units(o, s) = 0 => inventory'[s] = inventory[s]
  <2> DEFINE n == Units(o, s)
  <2>1. inventory'[s] = Change(s, n, 0, n)
    BY <1>1
  <2>2. inventory[s] \in Rows /\ n \in Nat
    BY <1>2, Types
  <2> HIDE DEF n
  <2>3. /\ Change(s, n, 0, n).physical = inventory[s].physical + n
        /\ Change(s, n, 0, n).reserved = inventory[s].reserved + 0
    BY <2>2, ChangedRow
  <2>4. Change(s, n, 0, n) \in Rows
    <3>1. /\ inventory[s].physical + n \in Nat
          /\ inventory[s].reserved + 0 \in Nat
          /\ inventory[s].available + n \in Nat
      BY <2>2 DEF Rows
    <3> QED
      BY <2>2, <3>1 DEF Change, Rows
  <2>5. ASSUME n = 0  PROVE Change(s, n, 0, n) = inventory[s]
    <3>1. /\ inventory[s].physical + n = inventory[s].physical
          /\ inventory[s].reserved + 0 = inventory[s].reserved
          /\ inventory[s].available + n = inventory[s].available
          /\ Change(s, n, 0, n).available = inventory[s].available + n
      BY <2>2, <2>5, ChangedRow DEF Rows
    <3> QED
      BY <2>2, <2>3, <2>4, <3>1, SameRow
  <2>6. inventory[s].reserved + 0 = inventory[s].reserved
    BY <2>2 DEF Rows
  <2> QED
    BY <2>1, <2>3, <2>4, <2>5, <2>6 DEF n
<1>4. StockTypeOK'
  <2>1. inventory' \in [Skus -> Rows]
    BY <1>1, <1>3
  <2>2. outcome' \in [Orders -> {"open", "refused", "sold", "returned"}]
    BY <1>1, Types
  <2> QED
    BY <1>1, <2>1, <2>2, Types DEF StockTypeOK, Rows, Reservations
<1>5. FramesHold'
  <2>1. HoldsKept
    BY <1>1 DEF HoldsKept
  <2>2. \A u \in Tx : RowsKept(u)
    <3> SUFFICES ASSUME NEW u \in Tx, tx[u].does = "commit"
                 PROVE  /\ outcome'[tx[u].order] = "open"
                        /\ \A w \in tx[u].done : inventory'[w.sku] = inventory[w.sku]
      BY DEF RowsKept
    <3>1. u # t
      BY <1>1 DEF Working
    <3>2. outcome'[tx[u].order] = "open"
      BY <1>1, CommitFacts, Types
    <3>3. ASSUME NEW w \in tx[u].done  PROVE inventory'[w.sku] = inventory[w.sku]
      <4>1. w.sku \in Skus
        BY CommitFacts DEF Writes
      <4>2. ~ SkuFree(t, w.sku)
        BY <3>1, FreeRow
      <4>3. Units(o, w.sku) = 0
        BY <1>1, <1>2, <4>1, <4>2
      <4> QED
        BY <1>3, <4>1, <4>3
    <3> QED
      BY <3>2, <3>3
  <2> QED
    BY <1>1, <2>1, <2>2, Types, FramesStay
<1>6. Balanced'
  <2> SUFFICES ASSUME NEW r \in Skus
               PROVE  inventory'[r].physical + SoldUnits(r)' = Initial[r] + adjusted'[r]
    BY DEF Balanced
  <2>1. SoldUnits(r)' = SoldUnits(r) + SoldOf(outcome', o, r) - SoldOf(outcome, o, r)
    <3>1. \A p \in Orders \ {o} : outcome'[p] = outcome[p]
      BY <1>1, Types
    <3> QED
      BY <3>1, SoldChanges
  <2>2. SoldOf(outcome', o, r) = 0 /\ SoldOf(outcome, o, r) = Units(o, r)
    BY <1>1, Types DEF SoldOf
  <2>3. /\ inventory'[r].physical = inventory[r].physical + Units(o, r)
        /\ Units(o, r) \in Nat /\ inventory[r].physical \in Nat
    BY <1>2, <1>3, Types DEF Rows
  <2>4. inventory[r].physical + SoldUnits(r) = Initial[r] + adjusted[r]
    BY DEF StockInv, Balanced
  <2>5. SoldUnits(r) \in Nat /\ adjusted' = adjusted
    BY <1>1, SumTypes
  <2> QED
    BY <2>1, <2>2, <2>3, <2>4, <2>5
<1>7. NothingLeaks'
  <2>1. \A r \in Skus : HeldUnits(r)' = HeldUnits(r)
    BY <1>1, HeldStays
  <2>2. \A r \in Skus : inventory'[r].reserved = inventory[r].reserved
    BY <1>3
  <2> QED
    BY <2>1, <2>2 DEF StockInv, NothingLeaks
<1> QED
  BY <1>4, <1>5, <1>6, <1>7 DEF StockInv

-----------------------------------------------------------------------------
(* Steps of transactions that change no committed row *)

LEMMA StartReleaseStep ==
  ASSUME StockInv, NEW t \in Tx, NEW h \in Holds, StartRelease(t, h)
  PROVE  StockInv'
<1>1. /\ tx' = [tx EXCEPT ![t] = [does |-> "release", hold |-> h]]
      /\ UNCHANGED <<inventory, holds, expired, outcome, adjusted, adjusts>>
  BY DEF StartRelease
<1>2. StockTypeOK'
  BY <1>1 DEF StockInv, StockTypeOK
<1>3. FramesHold'
  <2>1. [does |-> "release", hold |-> h] \in Frames
    BY DEF Frames, Releases
  <2>2. tx' \in [Tx -> Frames]
    BY <1>1, <2>1, Types
  <2>3. HoldsKept /\ \A u \in Tx : RowsKept(u)
    BY <1>1, CommitFacts DEF HoldsKept, RowsKept
  <2>4. \A u \in Tx : tx'[u] = tx[u] \/ tx'[u].does # "commit"
    BY <1>1, Types
  <2> QED
    BY <2>2, <2>3, <2>4, FramesStay
<1>4. \A s \in Skus : SoldUnits(s)' = SoldUnits(s) /\ HeldUnits(s)' = HeldUnits(s)
  BY <1>1, SoldStays, HeldStays
<1> QED
  BY <1>1, <1>2, <1>3, <1>4, BooksStay DEF StockInv

LEMMA StartCommitStep ==
  ASSUME StockInv, NEW t \in Tx, NEW o \in Orders, StartCommit(t, o)
  PROVE  StockInv'
<1> DEFINE frame == [does |-> "commit", order |-> o, stale |-> expired,
                     pick |-> NoHold, read |-> FALSE, done |-> {}]
<1>1. /\ outcome[o] = "open"
      /\ \A u \in Tx : Working(u) /\ tx[u].does = "commit" => tx[u].order # o
      /\ tx' = [tx EXCEPT ![t] = frame]
      /\ UNCHANGED <<inventory, holds, expired, outcome, adjusted, adjusts>>
  BY DEF StartCommit
<1>2. StockTypeOK'
  BY <1>1 DEF StockInv, StockTypeOK
<1>3. FramesHold'
  <2>1. frame \in Frames
    BY Types, Bounds DEF Frames, Commits
  <2>2. tx'[t] = frame /\ tx' \in [Tx -> Frames] /\ \A u \in Tx \ {t} : tx'[u] = tx[u]
    BY <1>1, <2>1, Types
  <2>3. /\ tx'[t].does = "commit" /\ tx'[t].order = o /\ tx'[t].pick = NoHold
        /\ tx'[t].read = FALSE /\ tx'[t].done = {}
    BY <2>2
  <2>4. CommitHolds(t)'
    <3>1. IsFiniteSet({}) /\ Cardinality({}) = 0 /\ 1 .. 0 = {}
      BY FS_EmptySet
    <3>2. TakenInOrder(t)'
      BY <2>3, <3>1, BasketLines DEF TakenInOrder
    <3>3. PickFits(t)'
      BY <2>3 DEF PickFits
    <3> QED
      BY <1>1, <2>3, <3>2, <3>3 DEF CommitHolds
  <2>5. ASSUME NEW u \in Tx \ {t}  PROVE Apart(t, u)'
    BY <1>1, <2>2, <2>3 DEF Apart, Working
  <2> QED
    BY <1>1, <2>2, <2>4, <2>5, FramesMove
<1>4. \A s \in Skus : SoldUnits(s)' = SoldUnits(s) /\ HeldUnits(s)' = HeldUnits(s)
  BY <1>1, SoldStays, HeldStays
<1> QED
  BY <1>1, <1>2, <1>3, <1>4, BooksStay DEF StockInv

LEMMA NextItemFacts ==
  ASSUME StockInv, NEW t \in Tx, tx[t].does = "commit", ItemsLeft(t)
  PROVE  /\ Cardinality(tx[t].done) + 1 \in 1 .. Len(Basket[tx[t].order])
         /\ NextItem(t) \in Items
         /\ NextItem(t).sku \in Skus /\ NextItem(t).qty \in Nat
<1>1. tx[t].order \in Orders /\ Cardinality(tx[t].done) \in Nat
  BY CommitFacts
<1>2. Cardinality(tx[t].done) + 1 \in 1 .. Len(Basket[tx[t].order])
  BY <1>1, BasketLines DEF ItemsLeft
<1> QED
  BY <1>1, <1>2, BasketLines DEF NextItem

LEMMA ReadHoldStep ==
  ASSUME StockInv, NEW t \in Tx, ReadHold(t)
  PROVE  StockInv'
<1> DEFINE pick == IF Candidates(t) = {} THEN NoHold ELSE Min(Candidates(t))
<1>1. /\ tx[t].does = "commit" /\ ItemsLeft(t)
      /\ tx' = [tx EXCEPT ![t].read = TRUE, ![t].pick = pick]
      /\ UNCHANGED <<inventory, holds, expired, outcome, adjusted, adjusts>>
  BY DEF ReadHold
<1>2. pick = NoHold \/ pick \in Candidates(t)
  <2>1. CASE Candidates(t) # {}
    <3>1. Candidates(t) \subseteq Holds /\ IsFiniteSet(Candidates(t))
      BY Bounds, FS_Subset DEF Candidates
    <3>2. Candidates(t) \in SUBSET Nat
      BY <3>1, Bounds DEF Holds
    <3>3. \E x \in Candidates(t) : \A y \in Candidates(t) : x <= y
      BY <2>1, <3>2, LeastNumber
    <3>4. Min(Candidates(t)) \in Candidates(t)
      BY <3>3 DEF Min
    <3> QED
      BY <2>1, <3>4
  <2> QED
    BY <2>1
<1>3. pick = NoHold \/ (/\ pick \in Holds /\ holds[pick].status = "held"
                        /\ holds[pick].sku = NextItem(t).sku)
  BY <1>2 DEF Candidates
<1> HIDE DEF pick
<1>4. StockTypeOK'
  BY <1>1 DEF StockInv, StockTypeOK
<1>5. FramesHold'
  <2>1. tx[t] \in Commits /\ pick \in 0 .. MaxHolds
    BY <1>1, <1>3, CommitFacts, Bounds
  <2>2. [tx[t] EXCEPT !.read = TRUE, !.pick = pick] \in Commits
    BY <2>1 DEF Commits
  <2>3. tx'[t] = [tx[t] EXCEPT !.read = TRUE, !.pick = pick]
    BY <1>1, Types
  <2>4. tx' \in [Tx -> Frames] /\ \A u \in Tx \ {t} : tx'[u] = tx[u]
    BY <1>1, <2>2, <2>3, Types DEF Frames
  <2>5. /\ tx'[t].does = "commit" /\ tx'[t].order = tx[t].order
        /\ tx'[t].done = tx[t].done /\ tx'[t].read = TRUE /\ tx'[t].pick = pick
    <3> DEFINE f == tx[t]
    <3>1. f \in Commits /\ f.does = "commit" /\ tx'[t] = [f EXCEPT !.read = TRUE, !.pick = pick]
      BY <1>1, <2>1, <2>3
    <3> HIDE DEF f
    <3>2. /\ tx'[t].does = f.does /\ tx'[t].order = f.order
          /\ tx'[t].done = f.done /\ tx'[t].read = TRUE /\ tx'[t].pick = pick
      BY <3>1 DEF Commits
    <3> QED
      BY <3>1, <3>2 DEF f
  <2>6. CommitHolds(t)'
    <3>1. TakenInOrder(t)'
      <4>1. \A w \in tx[t].done :
              \E j \in 1 .. Cardinality(tx[t].done) : WriteHolds(w, Basket[tx[t].order][j])
        BY <1>1, CommitFacts DEF TakenInOrder
      <4>2. (\A w \in tx[t].done :
              \E j \in 1 .. Cardinality(tx[t].done) : WriteHolds(w, Basket[tx[t].order][j]))'
        BY <1>1, <2>5, <4>1 DEF WriteHolds
      <4>3. /\ IsFiniteSet(tx'[t].done)
            /\ Cardinality(tx'[t].done) <= Len(Basket[tx'[t].order])
            /\ \A j \in 1 .. Cardinality(tx'[t].done) :
                  \E w \in tx'[t].done : w.sku = Basket[tx'[t].order][j].sku
            /\ \A w, v \in tx'[t].done : w.sku = v.sku => w = v
        <5>1. TakenInOrder(t)
          BY <1>1, CommitFacts
        <5> QED
          BY <2>5, <5>1 DEF TakenInOrder
      <4> QED
        BY <4>2, <4>3 DEF TakenInOrder
    <3>2. PickFits(t)'
      BY <1>1, <1>3, <2>5 DEF PickFits, NextItem, ItemsLeft
    <3> QED
      BY <1>1, <2>5, <3>1, <3>2, CommitFacts DEF CommitHolds
  <2>7. ASSUME NEW u \in Tx \ {t}  PROVE Apart(t, u)'
    <3>1. Apart(t, u)
      BY DEF StockInv, FramesHold
    <3> QED
      BY <1>1, <2>4, <2>5, <3>1 DEF Apart
  <2> QED
    BY <1>1, <2>4, <2>6, <2>7, FramesMove
<1>6. \A s \in Skus : SoldUnits(s)' = SoldUnits(s) /\ HeldUnits(s)' = HeldUnits(s)
  BY <1>1, SoldStays, HeldStays
<1> QED
  BY <1>1, <1>4, <1>5, <1>6, BooksStay DEF StockInv

\* The row of the next item is what the item leaves of the committed row.
LEMMA ItemRow ==
  ASSUME StockInv, NEW t \in Tx, tx[t].does = "commit", ItemsLeft(t), MayTake(t)
  PROVE  LET w == [sku |-> NextItem(t).sku, row |-> ItemChange(t),
                   hold |-> IF Covered(t) THEN tx[t].pick ELSE NoHold]
         IN  w \in Writes /\ WriteHolds(w, NextItem(t))
<1> DEFINE i == NextItem(t)
           w == [sku |-> i.sku, row |-> ItemChange(t),
                 hold |-> IF Covered(t) THEN tx[t].pick ELSE NoHold]
<1>1. i.sku \in Skus /\ i.qty \in Nat
  BY NextItemFacts
<1>2. Checked(ItemChange(t)) /\ inventory[i.sku] \in Rows
  BY <1>1, Types DEF MayTake
<1> HIDE DEF i
<1>3. CASE Covered(t)
  <2> DEFINE q == holds[tx[t].pick].qty
  <2>1. tx[t].pick \in Holds /\ tx[t].pick # NoHold
    BY <1>3, CommitFacts, Bounds DEF Covered
  <2>2. /\ holds[tx[t].pick].status # "none" /\ holds[tx[t].pick].sku = i.sku
        /\ q \in Nat
    BY <2>1, CommitFacts, Types, Bounds DEF PickFits, Reservations, i
  <2>3. ItemChange(t) = Change(i.sku, -i.qty, -q, q - i.qty)
    BY <1>3 DEF ItemChange, i
  <2> HIDE DEF q
  <2>4. -i.qty \in Int /\ -q \in Int /\ q - i.qty \in Int
    BY <1>1, <2>2
  <2>5. /\ ItemChange(t).physical = inventory[i.sku].physical + -i.qty
        /\ ItemChange(t).reserved = inventory[i.sku].reserved + -q
        /\ ItemChange(t) \in Rows
    BY <1>1, <1>2, <2>3, <2>4, ChangedRow
  <2>6. /\ ItemChange(t).physical = inventory[i.sku].physical - i.qty
        /\ ItemChange(t).reserved = inventory[i.sku].reserved - q
    BY <1>1, <1>2, <2>2, <2>5 DEF Rows
  <2>7. w.sku = i.sku /\ w.row = ItemChange(t) /\ w.hold = tx[t].pick
    BY <1>3
  <2>8. w \in Writes
    BY <1>1, <1>3, <2>5, CommitFacts DEF Writes
  <2> HIDE DEF w
  <2>9. WriteHolds(w, i)
    BY <2>1, <2>2, <2>6, <2>7 DEF WriteHolds, q
  <2> QED
    BY <2>8, <2>9 DEF i, w
<1>4. CASE ~ Covered(t)
  <2>1. ItemChange(t) = Change(i.sku, -i.qty, 0, -i.qty)
    BY <1>4 DEF ItemChange, i
  <2>2. -i.qty \in Int /\ 0 \in Int
    BY <1>1
  <2>3. /\ ItemChange(t).physical = inventory[i.sku].physical + -i.qty
        /\ ItemChange(t).reserved = inventory[i.sku].reserved + 0
        /\ ItemChange(t) \in Rows
    BY <1>1, <1>2, <2>1, <2>2, ChangedRow
  <2>4. /\ ItemChange(t).physical = inventory[i.sku].physical - i.qty
        /\ ItemChange(t).reserved = inventory[i.sku].reserved
    BY <1>1, <1>2, <2>3 DEF Rows
  <2>5. w.sku = i.sku /\ w.row = ItemChange(t) /\ w.hold = NoHold
    BY <1>4
  <2>6. w \in Writes
    BY <1>1, <1>4, <2>3, Bounds DEF Writes
  <2> HIDE DEF w
  <2>7. WriteHolds(w, i)
    BY <2>4, <2>5 DEF WriteHolds
  <2> QED
    BY <2>6, <2>7 DEF i, w
<1> QED
  BY <1>3, <1>4

LEMMA TakeItemStep ==
  ASSUME StockInv, NEW t \in Tx, TakeItem(t)
  PROVE  StockInv'
<1> DEFINE w == [sku |-> NextItem(t).sku, row |-> ItemChange(t),
                 hold |-> IF Covered(t) THEN tx[t].pick ELSE NoHold]
           done == tx[t].done
           n == Cardinality(done)
           basket == Basket[tx[t].order]
           frame == [tx[t] EXCEPT !.done = done \cup {w}, !.read = FALSE, !.pick = NoHold]
<1>1. /\ tx[t].does = "commit" /\ tx[t].read /\ RowsFree(t) /\ MayTake(t)
      /\ tx' = [tx EXCEPT ![t].done = done \cup {w},
                          ![t].read = FALSE, ![t].pick = NoHold]
      /\ UNCHANGED <<inventory, holds, expired, outcome, adjusted, adjusts>>
  BY DEF TakeItem
<1>2. ItemsLeft(t)
  BY <1>1, CommitFacts DEF PickFits
<1>3. w \in Writes /\ WriteHolds(w, NextItem(t)) /\ w.sku = NextItem(t).sku
  BY <1>1, <1>2, ItemRow
<1> HIDE DEF w
<1>4. /\ n \in Nat /\ n + 1 \in 1 .. Len(basket) /\ basket[n + 1] = NextItem(t)
      /\ IsFiniteSet(done) /\ tx[t].order \in Orders
      /\ \A j \in 1 .. n : \E v \in done : v.sku = basket[j].sku
      /\ \A v \in done : \E j \in 1 .. n : WriteHolds(v, basket[j])
      /\ \A v, u \in done : v.sku = u.sku => v = u
  BY <1>1, <1>2, CommitFacts, NextItemFacts DEF TakenInOrder, NextItem
<1>5. \A v \in done : v.sku # w.sku
  <2>1. \A j \in 1 .. n : basket[j].sku # basket[n + 1].sku
    <3>1. \A i, j \in 1 .. Len(basket) : basket[i].sku = basket[j].sku => i = j
      BY <1>4, BasketLines
    <3> HIDE DEF basket, n, done
    <3> QED
      BY <1>4, <3>1
  <2>2. \A v \in done : \E j \in 1 .. n : v.sku = basket[j].sku
    <3> SUFFICES ASSUME NEW v \in done  PROVE \E j \in 1 .. n : v.sku = basket[j].sku
      OBVIOUS
    <3>1. PICK j \in 1 .. n : WriteHolds(v, basket[j])
      BY <1>4
    <3> QED
      BY <3>1 DEF WriteHolds
  <2>3. w.sku = basket[n + 1].sku
    BY <1>3, <1>4
  <2> QED
    BY <2>1, <2>2, <2>3
<1>6. IsFiniteSet(done \cup {w}) /\ Cardinality(done \cup {w}) = n + 1
  BY <1>4, <1>5, FS_AddElement
<1>7. frame \in Commits
  BY <1>1, <1>3, CommitFacts, Bounds DEF Commits
<1>8. /\ tx'[t] = frame /\ tx' \in [Tx -> Frames]
      /\ \A u \in Tx \ {t} : tx'[u] = tx[u]
  BY <1>1, <1>7, Types DEF Frames
<1>9. /\ tx'[t].does = "commit" /\ tx'[t].order = tx[t].order
      /\ tx'[t].done = done \cup {w} /\ tx'[t].read = FALSE /\ tx'[t].pick = NoHold
  BY <1>1, <1>8, CommitFacts DEF Commits
<1>10. TakenInOrder(t)'
  <2>1. n + 1 <= Len(basket) /\ 1 .. n + 1 = (1 .. n) \cup {n + 1}
    BY <1>4, BasketLines
  <2>2. \A j \in 1 .. n + 1 : \E v \in done \cup {w} : v.sku = basket[j].sku
    BY <1>3, <1>4, <2>1
  <2>3. \A v \in done \cup {w} : \E j \in 1 .. n + 1 : WriteHolds(v, basket[j])
    BY <1>3, <1>4, <2>1
  <2>4. \A v \in done \cup {w} : \E j \in 1 .. n + 1 : WriteHolds(v, basket[j])'
    BY <1>1, <1>9, <2>3 DEF WriteHolds
  <2>5. \A v, u \in done \cup {w} : v.sku = u.sku => v = u
    BY <1>4, <1>5
  <2> HIDE DEF done, n, basket
  <2> QED
    BY <1>6, <1>9, <2>1, <2>2, <2>4, <2>5 DEF TakenInOrder, basket
<1>11. CommitHolds(t)'
  <2>1. PickFits(t)'
    BY <1>9 DEF PickFits
  <2> QED
    BY <1>1, <1>9, <1>10, <2>1, CommitFacts DEF CommitHolds
<1>12. ASSUME NEW u \in Tx \ {t}  PROVE Apart(t, u)'
  <2>1. Apart(t, u)
    BY DEF StockInv, FramesHold
  <2>2. SkuFree(t, w.sku)
    BY <1>1, <1>3 DEF RowsFree
  <2>3. tx[u].does = "commit" => \A v \in tx[u].done : v.sku # w.sku
    BY <2>2, FreeRow
  <2> QED
    BY <1>1, <1>8, <1>9, <2>1, <2>3 DEF Apart
<1>13. FramesHold'
  BY <1>1, <1>8, <1>11, <1>12, FramesMove
<1>14. StockTypeOK'
  BY <1>1 DEF StockInv, StockTypeOK
<1>15. \A s \in Skus : SoldUnits(s)' = SoldUnits(s) /\ HeldUnits(s)' = HeldUnits(s)
  BY <1>1, SoldStays, HeldStays
<1> QED
  BY <1>1, <1>13, <1>14, <1>15, BooksStay DEF StockInv

\* A transaction that is rolled back: its order, if it has one, is refused.
LEMMA UndoneStep ==
  ASSUME StockInv, NEW t \in Tx, tx' = [tx EXCEPT ![t] = Idle],
         IF tx[t].does = "commit"
         THEN outcome' = [outcome EXCEPT ![tx[t].order] = "refused"]
         ELSE UNCHANGED outcome,
         UNCHANGED <<inventory, holds, expired, adjusted, adjusts>>
  PROVE  StockInv'
<1>1. /\ \A u \in Tx \ {t} : tx'[u] = tx[u]
      /\ tx'[t] = Idle /\ tx' \in [Tx -> Frames]
  BY IdleIsFrame, Types
<1>2. /\ outcome' \in [Orders -> {"open", "refused", "sold", "returned"}]
      /\ \A o \in Orders : \/ outcome'[o] = outcome[o]
                           \/ /\ tx[t].does = "commit" /\ o = tx[t].order
                              /\ outcome[o] = "open" /\ outcome'[o] = "refused"
  BY CommitFacts, Types
<1>3. StockTypeOK'
  BY <1>2 DEF StockInv, StockTypeOK
<1>4. FramesHold'
  <2>1. HoldsKept
    BY DEF HoldsKept
  <2>2. ASSUME NEW u \in Tx, u # t  PROVE RowsKept(u)
    <3>1. Apart(u, t)
      BY <2>2 DEF StockInv, FramesHold
    <3> QED
      BY <1>2, <3>1, CommitFacts DEF RowsKept, Apart
  <2>3. tx'[t].does # "commit"
    BY <1>1, IdleIsFrame
  <2> QED
    BY <1>1, <2>1, <2>2, <2>3, FramesStay
<1>5. \A s \in Skus : HeldUnits(s)' = HeldUnits(s)
  BY HeldStays
<1>6. ASSUME NEW s \in Skus  PROVE SoldUnits(s)' = SoldUnits(s)
  <2>1. \A o \in Orders : SoldOf(outcome', o, s) = SoldOf(outcome, o, s)
    BY <1>2 DEF SoldOf
  <2>2. [o \in Orders |-> SoldOf(outcome', o, s)] = [o \in Orders |-> SoldOf(outcome, o, s)]
    BY <2>1
  <2> QED
    BY <2>2, SoldUnitsAre
<1> QED
  BY <1>3, <1>4, <1>5, <1>6, BooksStay DEF StockInv

LEMMA RollbackStep ==
  ASSUME StockInv, NEW t \in Tx, Rollback(t)
  PROVE  StockInv'
BY UndoneStep DEF Rollback, Ends

LEMMA AbortStep ==
  ASSUME StockInv, NEW t \in Tx, AbortTx(t)
  PROVE  StockInv'
BY UndoneStep DEF AbortTx, Ends

-----------------------------------------------------------------------------
(* Steps of transactions that change rows *)

LEMMA FinishReleaseStep ==
  ASSUME StockInv, NEW t \in Tx, FinishRelease(t)
  PROVE  StockInv'
<1> DEFINE h == tx[t].hold
           s == holds[h].sku
           row == Released(h)
<1>1. /\ tx[t].does = "release" /\ SkuFree(t, s)
      /\ tx' = [tx EXCEPT ![t] = Idle]
      /\ IF Checked(row)
         THEN /\ inventory' = [inventory EXCEPT ![s] = row]
              /\ holds' = [holds EXCEPT ![h].status = "released"]
         ELSE UNCHANGED <<inventory, holds>>
      /\ UNCHANGED <<expired, outcome, adjusted, adjusts>>
  BY DEF FinishRelease, Ends
<1>2. /\ tx[t] \in Releases /\ h \in Holds /\ holds[h] \in Reservations
      /\ s \in Skus /\ holds[h].qty \in Nat /\ inventory[s] \in Rows
  BY <1>1, FrameFacts, Types, Bounds DEF Releases, Reservations
<1>3. /\ \A u \in Tx \ {t} : tx'[u] = tx[u]
      /\ tx'[t].does # "commit" /\ tx' \in [Tx -> Frames]
  BY <1>1, IdleIsFrame, Types
<1>4. \A r \in Skus : SoldUnits(r)' = SoldUnits(r)
  BY <1>1, SoldStays
<1> HIDE DEF h
<1>5. CASE Checked(row)
  <2>1. /\ row.physical = inventory[s].physical
        /\ row.reserved = inventory[s].reserved - holds[h].qty
        /\ row \in Rows
    <3> DEFINE q == holds[h].qty
    <3>1. row = Change(s, 0, -q, q)
      BY DEF Released
    <3>2. 0 \in Int /\ -q \in Int /\ q \in Int
      BY <1>2
    <3> HIDE DEF q, s
    <3>3. /\ row.physical = inventory[s].physical + 0
          /\ row.reserved = inventory[s].reserved + -q
          /\ row \in Rows
      BY <1>2, <1>5, <3>1, <3>2, ChangedRow
    <3>4. inventory[s].physical + 0 = inventory[s].physical
      BY <1>2 DEF Rows
    <3>5. inventory[s].reserved + -q = inventory[s].reserved - q
      BY <1>2, <3>2 DEF Rows
    <3> QED
      BY <3>3, <3>4, <3>5 DEF q
  <2> HIDE DEF row, s
  <2>2. /\ inventory' = [inventory EXCEPT ![s] = row]
        /\ holds' = [holds EXCEPT ![h].status = "released"]
    BY <1>1, <1>5
  <2>3. /\ holds' \in [Holds -> Reservations]
        /\ holds'[h].status = "released"
        /\ \A g \in Holds : /\ holds'[g].sku = holds[g].sku
                            /\ holds'[g].qty = holds[g].qty
        /\ \A g \in Holds \ {h} : holds'[g] = holds[g]
    BY <1>2, <2>2, Types DEF Reservations
  <2>4. StockTypeOK'
    <3>1. inventory' \in [Skus -> Rows]
      BY <1>2, <2>1, <2>2, Types
    <3> QED
      BY <1>1, <2>3, <3>1, Types DEF StockTypeOK, Rows, Reservations
  <2>5. FramesHold'
    <3>1. HoldsKept
      BY <2>3 DEF HoldsKept
    <3>2. ASSUME NEW u \in Tx, u # t, tx[u].does = "commit"
          PROVE  /\ outcome'[tx[u].order] = "open"
                 /\ \A w \in tx[u].done : inventory'[w.sku] = inventory[w.sku]
      <4>1. \A w \in tx[u].done : w.sku # s /\ w.sku \in Skus
        BY <1>1, <3>2, FreeRow, CommitFacts DEF Writes, s
      <4> QED
        BY <1>1, <2>2, <3>2, <4>1, CommitFacts, Types
    <3>3. \A u \in Tx : u # t => RowsKept(u)
      BY <3>2 DEF RowsKept
    <3> QED
      BY <1>3, <3>1, <3>3, FramesStay
  <2>6. Balanced'
    <3>1. \A r \in Skus : inventory'[r].physical = inventory[r].physical
      BY <1>2, <2>1, <2>2, Types
    <3> QED
      BY <1>1, <1>4, <3>1 DEF StockInv, Balanced
  <2>7. NothingLeaks'
    <3> SUFFICES ASSUME NEW r \in Skus PROVE inventory'[r].reserved <= HeldUnits(r)'
      BY DEF NothingLeaks
    <3>1. HeldUnits(r)' = HeldUnits(r) + HeldOf(holds', h, r) - HeldOf(holds, h, r)
      <4>1. \A g \in Holds \ {h} : HeldOf(holds', g, r) = HeldOf(holds, g, r)
        BY <2>3 DEF HeldOf
      <4> QED
        BY <1>2, <2>3, <4>1, HeldChanges
    <3>2. HeldOf(holds', h, r) = 0
      BY <2>3 DEF HeldOf
    <3>3. /\ HeldOf(holds, h, r) \in Nat
          /\ HeldOf(holds, h, r) <= IF r = s THEN holds[h].qty ELSE 0
      BY <1>2 DEF HeldOf, s
    <3>4. inventory'[r].reserved =
            inventory[r].reserved - IF r = s THEN holds[h].qty ELSE 0
      BY <1>2, <2>1, <2>2, Types DEF Rows
    <3>5. /\ inventory[r].reserved \in Nat /\ HeldUnits(r) \in Nat
          /\ inventory[r].reserved <= HeldUnits(r)
      BY Types, SumTypes DEF Rows, StockInv, NothingLeaks
    <3> QED
      BY <1>2, <3>1, <3>2, <3>3, <3>4, <3>5
  <2> QED
    BY <2>4, <2>5, <2>6, <2>7 DEF StockInv
<1>6. CASE ~ Checked(row)
  BY <1>1, <1>2, <1>6, UndoneStep
<1> QED
  BY <1>5, <1>6

\* When a transaction commits it has a write for each item of its order, so that
\* every sku loses the order's units of it.
LEMMA WrittenRow ==
  ASSUME StockInv, NEW t \in Tx, tx[t].does = "commit", ~ ItemsLeft(t), NEW s \in Skus
  PROVE  /\ Written(t)[s] \in Rows
         /\ Written(t)[s].physical = inventory[s].physical - Units(tx[t].order, s)
         /\ \/ /\ \A w \in tx[t].done : w.sku # s
               /\ Written(t)[s] = inventory[s]
            \/ \E w \in tx[t].done :
                 /\ w.sku = s /\ Written(t)[s] = w.row
                 /\ \A v \in tx[t].done : v.sku = s => v = w
                 /\ \E i : WriteHolds(w, i)
<1> DEFINE done == tx[t].done
           n == Cardinality(done)
           basket == Basket[tx[t].order]
<1>1. /\ tx[t].order \in Orders /\ done \in SUBSET Writes
      /\ n \in Nat /\ Len(basket) \in Nat /\ n <= Len(basket)
      /\ \A j \in 1 .. n : \E w \in done : w.sku = basket[j].sku
      /\ \A w \in done : \E j \in 1 .. n : WriteHolds(w, basket[j])
      /\ \A w, v \in done : w.sku = v.sku => w = v
  <2>1. TakenInOrder(t)
    BY CommitFacts
  <2> QED
    BY <2>1, CommitFacts, BasketLines DEF TakenInOrder
<1>2. n = Len(basket)
  BY <1>1 DEF ItemsLeft
<1>3. inventory[s] \in Rows
  BY Types
<1>4. CASE \E w \in done : w.sku = s
  <2>1. PICK w \in done : w.sku = s
    BY <1>4
  <2>2. \A v \in done : v.sku = s => v = w
    BY <1>1, <2>1
  <2>3. (CHOOSE v \in done : v.sku = s) = w
    BY <2>1, <2>2
  <2>4. Written(t)[s] = w.row
    BY <1>4, <2>3 DEF Written
  <2>5. PICK j \in 1 .. n : WriteHolds(w, basket[j])
    BY <1>1
  <2>6. Units(tx[t].order, s) = basket[j].qty
    <3>1. j \in 1 .. Len(basket) /\ basket[j].sku = s
      BY <1>2, <2>1, <2>5 DEF WriteHolds
    <3> QED
      BY <1>1, <3>1, UnitsOfLine
  <2>7. w.row.physical = inventory[s].physical - basket[j].qty
    BY <2>1, <2>5 DEF WriteHolds
  <2>8. w.row \in Rows
    BY <1>1 DEF Writes
  <2>9. \E i : WriteHolds(w, i)
    BY <2>5
  <2> QED
    BY <2>1, <2>2, <2>4, <2>6, <2>7, <2>8, <2>9
<1>5. CASE \A w \in done : w.sku # s
  <2>1. Written(t)[s] = inventory[s]
    BY <1>5 DEF Written
  <2>2. Units(tx[t].order, s) = 0
    <3>1. \A j \in 1 .. Len(basket) : basket[j].sku # s
      BY <1>1, <1>2, <1>5
    <3> QED
      BY <1>1, <3>1, UnitsOfOthers
  <2>3. inventory[s].physical - 0 = inventory[s].physical
    BY <1>3 DEF Rows
  <2> QED
    BY <1>3, <1>5, <2>1, <2>2, <2>3
<1> QED
  BY <1>4, <1>5

LEMMA CommitOrderStep ==
  ASSUME StockInv, NEW t \in Tx, CommitOrder(t)
  PROVE  StockInv'
<1> DEFINE o == tx[t].order
           done == tx[t].done
<1>1. /\ tx[t].does = "commit" /\ ~ ItemsLeft(t)
      /\ inventory' = Written(t)
      /\ holds' = [h \in Holds |->
            IF \E w \in done : w.hold = h
            THEN [holds[h] EXCEPT !.status = "consumed"] ELSE holds[h]]
      /\ outcome' = [outcome EXCEPT ![o] = "sold"]
      /\ tx' = [tx EXCEPT ![t] = Idle]
      /\ UNCHANGED <<expired, adjusted, adjusts>>
  BY DEF CommitOrder, Ends
<1>2. /\ o \in Orders /\ outcome[o] = "open" /\ done \in SUBSET Writes
      /\ \A w \in done : \E i : WriteHolds(w, i)
      /\ \A w \in done : w.sku \in Skus /\ w.hold \in Holds \cup {NoHold}
  <2>1. TakenInOrder(t)
    BY <1>1, CommitFacts
  <2>2. \A w \in done : \E i : WriteHolds(w, i)
    BY <2>1 DEF TakenInOrder
  <2> QED
    BY <1>1, <2>2, CommitFacts, Bounds DEF Writes
<1>3. /\ \A u \in Tx \ {t} : tx'[u] = tx[u]
      /\ tx'[t].does # "commit" /\ tx' \in [Tx -> Frames]
  BY <1>1, IdleIsFrame, Types
<1>4. /\ holds' \in [Holds -> Reservations]
      /\ \A h \in Holds : /\ holds'[h].sku = holds[h].sku
                          /\ holds'[h].qty = holds[h].qty
                          /\ holds[h].status # "none" => holds'[h].status # "none"
      /\ \A h \in Holds : (\E w \in done : w.hold = h) => holds'[h].status = "consumed"
      /\ \A h \in Holds : ~ (\E w \in done : w.hold = h) => holds'[h] = holds[h]
  BY <1>1, Types DEF Reservations
<1>5. \A h \in Holds : \A w \in done : w.hold = h => holds[h].sku = w.sku
  BY <1>2, Bounds DEF WriteHolds
<1>6. ASSUME NEW s \in Skus
      PROVE  /\ inventory'[s] \in Rows
             /\ inventory'[s].physical = inventory[s].physical - Units(o, s)
             /\ \/ /\ \A w \in done : w.sku # s
                   /\ inventory'[s] = inventory[s]
                \/ \E w \in done :
                     /\ w.sku = s /\ inventory'[s] = w.row
                     /\ \A v \in done : v.sku = s => v = w
                     /\ \E i : WriteHolds(w, i)
  BY <1>1, WrittenRow
<1>7. StockTypeOK'
  <2>1. inventory' \in [Skus -> Rows]
    BY <1>1, <1>6 DEF Written
  <2>2. outcome' \in [Orders -> {"open", "refused", "sold", "returned"}]
    BY <1>1, Types
  <2> QED
    BY <1>1, <1>4, <2>1, <2>2, Types DEF StockTypeOK, Rows, Reservations
<1>8. FramesHold'
  <2>1. HoldsKept
    BY <1>4 DEF HoldsKept
  <2>2. ASSUME NEW u \in Tx, u # t, tx[u].does = "commit"
        PROVE  /\ outcome'[tx[u].order] = "open"
               /\ \A w \in tx[u].done : inventory'[w.sku] = inventory[w.sku]
    <3>1. /\ tx[u].order # o /\ tx[u].order \in Orders
          /\ \A w \in tx[u].done, v \in done : w.sku # v.sku
      BY <1>1, <2>2, CommitFacts DEF StockInv, FramesHold, Apart
    <3>2. outcome'[tx[u].order] = "open"
      BY <1>1, <2>2, <3>1, CommitFacts, Types
    <3>3. ASSUME NEW w \in tx[u].done  PROVE inventory'[w.sku] = inventory[w.sku]
      <4>1. w.sku \in Skus
        BY <2>2, CommitFacts DEF Writes
      <4> QED
        BY <1>6, <3>1, <4>1
    <3> QED
      BY <3>2, <3>3
  <2>3. \A u \in Tx : u # t => RowsKept(u)
    BY <2>2 DEF RowsKept
  <2> QED
    BY <1>3, <2>1, <2>3, FramesStay
<1>9. Balanced'
  <2> SUFFICES ASSUME NEW r \in Skus
               PROVE  inventory'[r].physical + SoldUnits(r)' = Initial[r] + adjusted'[r]
    BY DEF Balanced
  <2>1. SoldUnits(r)' = SoldUnits(r) + SoldOf(outcome', o, r) - SoldOf(outcome, o, r)
    <3>1. \A p \in Orders \ {o} : outcome'[p] = outcome[p]
      BY <1>1, Types
    <3> HIDE DEF o
    <3> QED
      BY <1>2, <3>1, SoldChanges
  <2>2. SoldOf(outcome', o, r) = Units(o, r) /\ SoldOf(outcome, o, r) = 0
    BY <1>1, <1>2, Types DEF SoldOf
  <2>3. inventory'[r].physical = inventory[r].physical - Units(o, r)
    BY <1>6
  <2>4. Units(o, r) \in Nat /\ inventory[r].physical \in Nat
    BY <1>2, UnitsType, Types DEF Rows
  <2>5. inventory[r].physical + SoldUnits(r) = Initial[r] + adjusted[r]
    BY DEF StockInv, Balanced
  <2>6. SoldUnits(r) \in Nat /\ adjusted' = adjusted
    BY <1>1, SumTypes
  <2> HIDE DEF o
  <2> QED
    BY <2>1, <2>2, <2>3, <2>4, <2>5, <2>6
<1>10. NothingLeaks'
  <2> SUFFICES ASSUME NEW r \in Skus PROVE inventory'[r].reserved <= HeldUnits(r)'
    BY DEF NothingLeaks
  <2>1. /\ inventory[r].reserved \in Nat /\ HeldUnits(r) \in Nat
        /\ inventory[r].reserved <= HeldUnits(r)
    BY Types, SumTypes DEF Rows, StockInv, NothingLeaks
  <2>2. \A g \in Holds : holds[g].sku # r => HeldOf(holds', g, r) = HeldOf(holds, g, r)
    BY <1>4 DEF HeldOf
  <2>3. \A g \in Holds :
          ~ (\E w \in done : w.hold = g) => HeldOf(holds', g, r) = HeldOf(holds, g, r)
    BY <1>4 DEF HeldOf
  <2>4. CASE /\ \A w \in done : w.sku # r
             /\ inventory'[r] = inventory[r]
    <3>1. \A g \in Holds : HeldOf(holds', g, r) = HeldOf(holds, g, r)
      BY <1>5, <2>2, <2>3, <2>4
    <3> QED
      BY <2>1, <2>4, <3>1, HeldStays
  <2>5. ASSUME NEW w \in done, w.sku = r, inventory'[r] = w.row,
               \A v \in done : v.sku = r => v = w,
               NEW i, WriteHolds(w, i)
        PROVE  inventory'[r].reserved <= HeldUnits(r)'
    <3>1. CASE w.hold = NoHold
      <4>1. \A g \in Holds : HeldOf(holds', g, r) = HeldOf(holds, g, r)
        BY <1>5, <2>2, <2>3, <2>5, <3>1, Bounds
      <4>2. inventory'[r].reserved = inventory[r].reserved
        BY <2>5, <3>1 DEF WriteHolds
      <4> QED
        BY <2>1, <4>1, <4>2, HeldStays
    <3>2. CASE w.hold # NoHold
      <4> DEFINE h == w.hold
      <4>1. h \in Holds /\ holds[h].sku = r /\ holds[h].qty \in Nat
        BY <1>2, <2>5, <3>2, Types, Bounds DEF WriteHolds, Reservations
      <4>2. inventory'[r].reserved = inventory[r].reserved - holds[h].qty
        BY <2>5, <3>2 DEF WriteHolds
      <4>3. \A g \in Holds \ {h} : HeldOf(holds', g, r) = HeldOf(holds, g, r)
        BY <1>5, <2>2, <2>3, <2>5
      <4>4. HeldOf(holds', h, r) = 0
        BY <1>4, <4>1 DEF HeldOf
      <4>5. HeldOf(holds, h, r) \in Nat /\ HeldOf(holds, h, r) <= holds[h].qty
        BY <4>1 DEF HeldOf
      <4> HIDE DEF h
      <4>6. HeldUnits(r)' = HeldUnits(r) + HeldOf(holds', h, r) - HeldOf(holds, h, r)
        BY <1>4, <4>1, <4>3, HeldChanges
      <4> QED
        BY <2>1, <4>1, <4>2, <4>4, <4>5, <4>6
    <3> QED
      BY <3>1, <3>2
  <2> QED
    BY <1>6, <2>4, <2>5
<1> QED
  BY <1>7, <1>8, <1>9, <1>10 DEF StockInv

-----------------------------------------------------------------------------
(* Theorems *)

LEMMA StockInvStart == StockInit => StockInv
<1> SUFFICES ASSUME StockInit PROVE StockInv
  OBVIOUS
<1>1. StockTypeOK
  <2>1. NoRow \in Reservations
    <3>1. (CHOOSE s \in Skus : TRUE) \in Skus
      BY StockAssumption
    <3> QED
      BY <3>1, Bounds DEF NoRow, Reservations
  <2>2. inventory \in [Skus -> Rows]
    BY Bounds DEF StockInit, Rows
  <2> QED
    BY <2>1, <2>2 DEF StockInit, StockTypeOK, Rows, Reservations
<1>2. FramesHold
  <2>1. \A t \in Tx : tx[t] = Idle
    BY DEF StockInit
  <2>2. \A t \in Tx : tx[t].does # "commit"
    BY <2>1, IdleIsFrame
  <2> QED
    BY <2>2, IdleIsFrame DEF StockInit, FramesHold, CommitHolds, Apart
<1>3. Balanced
  <2> SUFFICES ASSUME NEW s \in Skus
               PROVE  inventory[s].physical + SoldUnits(s) = Initial[s] + adjusted[s]
    BY DEF Balanced
  <2> DEFINE f == [o \in Orders |-> SoldOf(outcome, o, s)]
  <2>1. \A o \in Orders : f[o] = 0
    BY DEF SoldOf, StockInit
  <2>2. IsFiniteSet(Orders)
    BY Bounds
  <2> HIDE DEF f
  <2>3. SumFunctionOnSet(f, Orders) = SumFunctionOnSet(f, {})
    BY <2>1, <2>2, SumOverSupport
  <2>4. SoldUnits(s) = 0
    BY <2>3, SumOfNothing, SoldUnitsAre DEF f
  <2> QED
    BY <2>4, Bounds DEF StockInit
<1>4. NothingLeaks
  <2> SUFFICES ASSUME NEW s \in Skus PROVE inventory[s].reserved <= HeldUnits(s)
    BY DEF NothingLeaks
  <2> DEFINE f == [h \in Holds |-> HeldOf(holds, h, s)]
  <2>1. \A h \in Holds : f[h] \in Nat
    BY DEF HeldOf, StockInit, NoRow
  <2>2. IsFiniteSet(Holds)
    BY Bounds
  <2> HIDE DEF f
  <2>3. SumFunctionOnSet(f, Holds) \in Nat
    BY <2>1, <2>2, SumIsNat
  <2>4. HeldUnits(s) \in Nat
    BY <2>3, HeldUnitsAre DEF f
  <2> QED
    BY <2>4 DEF StockInit
<1> QED
  BY <1>1, <1>2, <1>3, <1>4 DEF StockInv

LEMMA StockInvStep == StockInv /\ [StockNext]_stockVars => StockInv'
<1> SUFFICES ASSUME StockInv, [StockNext]_stockVars PROVE StockInv'
  OBVIOUS
<1>1. ASSUME NEW t \in Tx, NEW h \in Holds, NEW i \in Items, Reserve(t, h, i)
      PROVE  StockInv'
  BY <1>1, ReserveStep
<1>2. ASSUME NEW t \in Tx, NEW h \in Holds, StartRelease(t, h)  PROVE StockInv'
  BY <1>2, StartReleaseStep
<1>3. ASSUME NEW t \in Tx, NEW o \in Orders, StartCommit(t, o) \/ Restock(t, o)
      PROVE  StockInv'
  BY <1>3, StartCommitStep, RestockStep
<1>4. ASSUME NEW t \in Tx, NEW s \in Skus, NEW d \in {-1, 1}, AdjustInventory(t, s, d)
      PROVE  StockInv'
  BY <1>4, AdjustStep
<1>5. ASSUME NEW t \in Tx,
             FinishRelease(t) \/ ReadHold(t) \/ TakeItem(t) \/ Rollback(t)
             \/ CommitOrder(t) \/ AbortTx(t)
      PROVE  StockInv'
  BY <1>5, FinishReleaseStep, ReadHoldStep, TakeItemStep, RollbackStep,
     CommitOrderStep, AbortStep
<1>6. ASSUME NEW h \in Holds, HoldExpires(h)  PROVE StockInv'
  BY <1>6, HoldExpiresStep
<1>7. CASE UNCHANGED stockVars
  <2>1. StockTypeOK' /\ HoldsKept /\ tx' = tx
    BY <1>7 DEF stockVars, StockInv, StockTypeOK, HoldsKept
  <2>2. \A u \in Tx : RowsKept(u)
    BY <1>7, CommitFacts DEF stockVars, RowsKept
  <2>3. FramesHold'
    BY <2>1, <2>2, Types, FramesStay
  <2>4. \A s \in Skus : SoldUnits(s)' = SoldUnits(s) /\ HeldUnits(s)' = HeldUnits(s)
    BY <1>7, SoldStays, HeldStays DEF stockVars
  <2> QED
    BY <1>7, <2>1, <2>3, <2>4, BooksStay DEF stockVars, StockInv
<1> QED
  BY <1>1, <1>2, <1>3, <1>4, <1>5, <1>6, <1>7 DEF StockNext

\* The stock rows, the reservations, and what each open transaction has written
\* but not committed and which rows it locks, fit together.
THEOREM StockInductive == StockSpec => []StockInv
<1> QED
  BY StockInvStart, StockInvStep, PTL DEF StockSpec

\* However reservations, orders, returns, expiry and adjustments overlap, no unit
\* is sold twice and none is lost, and physical, reserved and available stay at
\* or above zero (commitStockForOrder, merchant.ts 266-331).
THEOREM NoUnitIsSoldTwice == StockSpec => []NeverOversold
<1>1. StockInv => NeverOversold
  BY DEF StockInv, Balanced, NeverOversold
<1> QED
  BY <1>1, StockInductive, PTL

\* Although the release of an expired reservation reads the status without a lock
\* (merchant.ts 224-246), the reserved column never exceeds what the reservations
\* still hold: a mistake frees units early, it never locks them away.
THEOREM NoUnitIsLockedAway == StockSpec => []NothingLeaks
<1>1. StockInv => NothingLeaks
  BY DEF StockInv
<1> QED
  BY <1>1, StockInductive, PTL
=============================================================================
