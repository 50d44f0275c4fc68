--------------------------- MODULE EscrowPromise ---------------------------
(***************************************************************************)
(* What this escrow promises to the people who use it: money goes into a   *)
(* pot from one purse, stays there whole, and leaves the pot once and      *)
(* whole -- back to the purse it came from, or to one purse.  The pot is   *)
(* open at the top: whoever adds to it jams it, and a jammed pot keeps     *)
(* what it holds.  Nothing else ever moves money.                          *)
(***************************************************************************)
EXTENDS Naturals

CONSTANTS Deals, Wallets, Mints, NoWallet, NoMint, Supply

VARIABLES
  deal,    \* "open", "held", "jammed", "paid" or "returned"
  payer,   \* whose money the pot holds or held
  pot,     \* [mint, balance] in custody
  purse    \* each wallet's tokens of each mint

promise == <<deal, payer, pot, purse>>

Empty == [mint |-> NoMint, balance |-> 0]

Init ==
  /\ deal = [d \in Deals |-> "open"]
  /\ payer = [d \in Deals |-> NoWallet]
  /\ pot = [d \in Deals |-> Empty]
  /\ purse = [w \in Wallets |-> [t \in Mints |-> Supply]]

Deposit(d, w, t, amount) ==
  /\ deal[d] = "open"
  /\ amount \in 1 .. purse[w][t]
  /\ deal' = [deal EXCEPT ![d] = "held"]
  /\ payer' = [payer EXCEPT ![d] = w]
  /\ pot' = [pot EXCEPT ![d] = [mint |-> t, balance |-> amount]]
  /\ purse' = [purse EXCEPT ![w][t] = @ - amount]

Jam(d, w, amount) ==
  /\ deal[d] \in {"held", "jammed"}
  /\ amount \in 1 .. purse[w][pot[d].mint]
  /\ deal' = [deal EXCEPT ![d] = "jammed"]
  /\ pot' = [pot EXCEPT ![d].balance = @ + amount]
  /\ purse' = [purse EXCEPT ![w][pot[d].mint] = @ - amount]
  /\ UNCHANGED payer

Empties(d, w) ==
  /\ deal[d] = "held"
  /\ purse' = [purse EXCEPT ![w][pot[d].mint] = @ + pot[d].balance]
  /\ pot' = [pot EXCEPT ![d] = Empty]
  /\ UNCHANGED payer

PayOut(d, w) == Empties(d, w) /\ deal' = [deal EXCEPT ![d] = "paid"]

GiveBack(d) == Empties(d, payer[d]) /\ deal' = [deal EXCEPT ![d] = "returned"]

Next ==
  \E d \in Deals :
    \/ \E w \in Wallets, t \in Mints : \E a \in 1 .. purse[w][t] : Deposit(d, w, t, a)
    \/ /\ deal[d] \in {"held", "jammed"}
       /\ \E w \in Wallets : \E a \in 1 .. purse[w][pot[d].mint] : Jam(d, w, a)
    \/ \E w \in Wallets : PayOut(d, w)
    \/ GiveBack(d)

Spec == Init /\ [][Next]_promise
=============================================================================
