------------------------------ MODULE PgStock ------------------------------
(***************************************************************************)
(* The inventory of one merchant in Postgres: reservations with a time to  *)
(* live, orders that consume them or take stock directly, the worker that  *)
(* gives expired reservations back, returns and manual adjustments.        *)
(*                                                                         *)
(* Transactions run at READ COMMITTED.  A plain SELECT sees committed      *)
(* rows and locks nothing; an UPDATE locks its row until the end of the    *)
(* transaction and works on the row as it then is; a CHECK that fails      *)
(* rolls everything back.  A transaction therefore keeps its writes to     *)
(* itself until it commits, and nobody else writes the rows it has locked. *)
(* The two updates of one item are taken together: they lock in opposite   *)
(* orders in two functions, which Postgres ends by aborting one of them.   *)
(***************************************************************************)
EXTENDS Integers, Sequences, FiniteSets, FiniteSetsExt

CONSTANTS
    Skus,
    Initial,       \* each sku's units at the start
    Orders,
    Basket,        \* each order's items: a sequence of [sku, qty]
    Tx,            \* transactions that may be open at once
    MaxQty,        \* bound: the units of one reservation
    MaxHolds,      \* bound: reservations ever made
    MaxAdjusts     \* bound: manual adjustments, each of one unit

Holds == 1 .. MaxHolds
NoHold == 0
Items == [sku : Skus, qty : 1 .. MaxQty]

ASSUME StockAssumption ==
    /\ Skus # {} /\ IsFiniteSet(Orders)
    /\ Initial \in [Skus -> Nat]
    /\ Basket \in [Orders -> Seq(Items)]
    /\ MaxQty \in Nat /\ MaxHolds \in Nat /\ MaxAdjusts \in Nat
    /\ \A o \in Orders : \A i, j \in DOMAIN Basket[o] :     \* one line for a sku
          Basket[o][i].sku = Basket[o][j].sku => i = j

VARIABLES
    inventory,   \* by sku: [physical, reserved, available]
    holds,       \* reservations: [sku, qty, status]
    expired,     \* the reservations whose expires_at has passed
    outcome,     \* by order: what the caller of commitStockForOrder was told
    adjusted,    \* by sku: the sum of the manual adjustments
    adjusts,     \* how many there were
    tx           \* the open transactions

stockVars == <<inventory, holds, expired, outcome, adjusted, adjusts, tx>>

Idle == [does |-> "idle"]
NoRow == [sku |-> CHOOSE s \in Skus : TRUE, qty |-> 0, status |-> "none"]

StockInit ==
    /\ inventory = [s \in Skus |->
          [physical |-> Initial[s], reserved |-> 0, available |-> Initial[s]]]
    /\ holds = [h \in Holds |-> NoRow]
    /\ expired = {}
    /\ outcome = [o \in Orders |-> "open"]
    /\ adjusted = [s \in Skus |-> 0]
    /\ adjusts = 0
    /\ tx = [t \in Tx |-> Idle]

-----------------------------------------------------------------------------
(***************************************************************************)
(* Rows, locks and CHECKs.                                                 *)
(***************************************************************************)
\* The change that adds p, r, a to a row's physical, reserved, available.
Change(s, p, r, a) ==
    [inventory[s] EXCEPT !.physical = @ + p, !.reserved = @ + r, !.available = @ + a]

Checked(row) ==
    /\ row.available >= 0 /\ row.reserved >= 0
    /\ row.available = row.physical - row.reserved

Working(t) == tx[t].does # "idle"

\* The rows t has locked: what it has written so far.
Locks(t) == IF tx[t].does = "commit" THEN tx[t].done ELSE {}

SkuFree(t, s) == \A u \in Tx \ {t} : \A w \in Locks(u) : w.sku # s
HoldFree(t, h) == \A u \in Tx \ {t} : \A w \in Locks(u) : w.hold # h

Ends(t) == tx' = [tx EXCEPT ![t] = Idle]

-----------------------------------------------------------------------------
(***************************************************************************)
(* reserveInventoryAtomic: the guard of the UPDATE is its only check.      *)
(***************************************************************************)
Enough(s, qty) == inventory[s].available >= qty

Reserve(t, h, item) ==
    /\ ~Working(t) /\ SkuFree(t, item.sku)
    /\ holds[h].status = "none" /\ \A g \in Holds : g < h => holds[g].status # "none"
    /\ Enough(item.sku, item.qty)
    /\ Checked(Change(item.sku, 0, item.qty, -item.qty))
    /\ inventory' = [inventory EXCEPT
                       ![item.sku] = Change(item.sku, 0, item.qty, -item.qty)]
    /\ holds' = [holds EXCEPT
                   ![h] = [sku |-> item.sku, qty |-> item.qty, status |-> "held"]]
    /\ UNCHANGED <<expired, outcome, adjusted, adjusts, tx>>

HoldExpires(h) ==
    /\ holds[h].status = "held" /\ h \notin expired
    /\ expired' = expired \cup {h}
    /\ UNCHANGED <<inventory, holds, outcome, adjusted, adjusts, tx>>

-----------------------------------------------------------------------------
(***************************************************************************)
(* releaseExpiredReservations: the status is read first, without a lock,   *)
(* and written last, without looking at it again.                          *)
(***************************************************************************)
StartRelease(t, h) ==
    /\ ~Working(t)
    /\ h \in expired /\ holds[h].status = "held"
    /\ tx' = [tx EXCEPT ![t] = [does |-> "release", hold |-> h]]
    /\ UNCHANGED <<inventory, holds, expired, outcome, adjusted, adjusts>>

\* Mutant of Released: the units go back as a restock gives them back.
ReleasedLikeReturn(h) == Change(holds[h].sku, holds[h].qty, 0, holds[h].qty)

Released(h) == Change(holds[h].sku, 0, -holds[h].qty, holds[h].qty)

FinishRelease(t) ==
    /\ tx[t].does = "release"
    /\ LET h == tx[t].hold IN
         /\ SkuFree(t, holds[h].sku) /\ HoldFree(t, h)
         /\ IF Checked(Released(h))
            THEN /\ inventory' = [inventory EXCEPT ![holds[h].sku] = Released(h)]
                 /\ holds' = [holds EXCEPT ![h].status = "released"]
            ELSE UNCHANGED <<inventory, holds>>
    /\ Ends(t)
    /\ UNCHANGED <<expired, outcome, adjusted, adjusts>>

-----------------------------------------------------------------------------
(***************************************************************************)
(* commitStockForOrder: for each item the oldest reservation held for the  *)
(* sku when the transaction started, if it is large enough, or the shelf.  *)
(***************************************************************************)
StartCommit(t, o) ==
    /\ ~Working(t)
    /\ outcome[o] = "open"
    /\ \A u \in Tx : Working(u) /\ tx[u].does = "commit" => tx[u].order # o
    /\ tx' = [tx EXCEPT ![t] = [does |-> "commit", order |-> o, stale |-> expired,
                                pick |-> NoHold, read |-> FALSE, done |-> {}]]
    /\ UNCHANGED <<inventory, holds, expired, outcome, adjusted, adjusts>>

NextItem(t) == Basket[tx[t].order][Cardinality(tx[t].done) + 1]
ItemsLeft(t) == Cardinality(tx[t].done) < Len(Basket[tx[t].order])

Candidates(t) == {h \in Holds \ tx[t].stale :
                    holds[h].status = "held" /\ holds[h].sku = NextItem(t).sku}

ReadHold(t) ==
    /\ tx[t].does = "commit" /\ ItemsLeft(t) /\ ~tx[t].read
    /\ tx' = [tx EXCEPT ![t].read = TRUE,
                        ![t].pick = IF Candidates(t) = {} THEN NoHold ELSE Min(Candidates(t))]
    /\ UNCHANGED <<inventory, holds, expired, outcome, adjusted, adjusts>>

Covered(t) == tx[t].pick # NoHold /\ holds[tx[t].pick].qty >= NextItem(t).qty

\* What the item does to its inventory row.
ItemChange(t) ==
    LET i == NextItem(t) IN
    IF Covered(t)
    THEN LET q == holds[tx[t].pick].qty IN Change(i.sku, -i.qty, -q, q - i.qty)
    ELSE Change(i.sku, -i.qty, 0, -i.qty)

MayTake(t) == Checked(ItemChange(t)) /\ (Covered(t) \/ Enough(NextItem(t).sku, NextItem(t).qty))

RowsFree(t) ==
    /\ SkuFree(t, NextItem(t).sku)
    /\ Covered(t) => HoldFree(t, tx[t].pick)

TakeItem(t) ==
    /\ tx[t].does = "commit" /\ tx[t].read /\ RowsFree(t)
    /\ MayTake(t)
    /\ tx' = [tx EXCEPT
         ![t].done = @ \cup {[sku |-> NextItem(t).sku, row |-> ItemChange(t),
                              hold |-> IF Covered(t) THEN tx[t].pick ELSE NoHold]},
         ![t].read = FALSE, ![t].pick = NoHold]
    /\ UNCHANGED <<inventory, holds, expired, outcome, adjusted, adjusts>>

\* The rows that t's writes leave.
Written(t) ==
    [s \in Skus |-> IF \E w \in tx[t].done : w.sku = s
                    THEN (CHOOSE w \in tx[t].done : w.sku = s).row ELSE inventory[s]]

\* Mutant of Rollback: without a transaction the earlier items stay taken.
KeepEarlierItems(t) ==
    /\ tx[t].does = "commit" /\ tx[t].read /\ RowsFree(t)
    /\ ~MayTake(t)
    /\ inventory' = Written(t)
    /\ outcome' = [outcome EXCEPT ![tx[t].order] = "refused"]
    /\ Ends(t)
    /\ UNCHANGED <<holds, expired, adjusted, adjusts>>

\* Not enough stock, or a CHECK failed: the transaction rolls back and throws.
Rollback(t) ==
    /\ tx[t].does = "commit" /\ tx[t].read /\ RowsFree(t)
    /\ ~MayTake(t)
    /\ outcome' = [outcome EXCEPT ![tx[t].order] = "refused"]
    /\ Ends(t)
    /\ UNCHANGED <<inventory, holds, expired, adjusted, adjusts>>

CommitOrder(t) ==
    /\ tx[t].does = "commit" /\ ~ItemsLeft(t)
    /\ inventory' = Written(t)
    /\ holds' = [h \in Holds |->
          IF \E w \in tx[t].done : w.hold = h
          THEN [holds[h] EXCEPT !.status = "consumed"] ELSE holds[h]]
    /\ outcome' = [outcome EXCEPT ![tx[t].order] = "sold"]
    /\ Ends(t)
    /\ UNCHANGED <<expired, adjusted, adjusts>>

\* A lost connection or a deadlock: the transaction is undone and throws.
AbortTx(t) ==
    /\ Working(t)
    /\ IF tx[t].does = "commit"
       THEN outcome' = [outcome EXCEPT ![tx[t].order] = "refused"]
       ELSE UNCHANGED outcome
    /\ Ends(t)
    /\ UNCHANGED <<inventory, holds, expired, adjusted, adjusts>>

-----------------------------------------------------------------------------
(***************************************************************************)
(* restockAfterCancel, which its callers run once for an order they had    *)
(* sold, and adjustInventory.                                              *)
(***************************************************************************)
Units(o, s) ==
    LET i == {j \in DOMAIN Basket[o] : Basket[o][j].sku = s}
    IN  IF i = {} THEN 0 ELSE Basket[o][CHOOSE j \in i : TRUE].qty

Restock(t, o) ==
    /\ ~Working(t) /\ outcome[o] = "sold"
    /\ \A s \in Skus : Units(o, s) > 0 => SkuFree(t, s)
    /\ inventory' = [s \in Skus |-> Change(s, Units(o, s), 0, Units(o, s))]
    /\ outcome' = [outcome EXCEPT ![o] = "returned"]
    /\ UNCHANGED <<holds, expired, adjusted, adjusts, tx>>

AdjustInventory(t, s, delta) ==
    /\ ~Working(t) /\ SkuFree(t, s)
    /\ adjusts < MaxAdjusts
    /\ Checked(Change(s, delta, 0, delta))
    /\ inventory' = [inventory EXCEPT ![s] = Change(s, delta, 0, delta)]
    /\ adjusted' = [adjusted EXCEPT ![s] = @ + delta]
    /\ adjusts' = adjusts + 1
    /\ UNCHANGED <<holds, expired, outcome, tx>>

-----------------------------------------------------------------------------
StockNext ==
    \/ \E t \in Tx :
         \/ \E h \in Holds, i \in Items : Reserve(t, h, i)
         \/ \E h \in Holds : StartRelease(t, h)
         \/ \E o \in Orders : StartCommit(t, o) \/ Restock(t, o)
         \/ \E s \in Skus, d \in {-1, 1} : AdjustInventory(t, s, d)
         \/ FinishRelease(t) \/ ReadHold(t) \/ TakeItem(t) \/ Rollback(t)
         \/ CommitOrder(t) \/ AbortTx(t)
    \/ \E h \in Holds : HoldExpires(h)

StockSpec == StockInit /\ [][StockNext]_stockVars

-----------------------------------------------------------------------------
(***************************************************************************)
(* Properties.                                                             *)
(***************************************************************************)
StockTypeOK ==
    /\ inventory \in [Skus -> [physical : Nat, reserved : Nat, available : Nat]]
    /\ holds \in [Holds -> [sku : Skus, qty : 0 .. MaxQty,
                            status : {"none", "held", "released", "consumed"}]]
    /\ expired \subseteq Holds
    /\ outcome \in [Orders -> {"open", "refused", "sold", "returned"}]
    /\ adjusted \in [Skus -> Int] /\ adjusts \in Nat

HeldUnits(s) ==
    SumFunction([h \in Holds |->
        IF holds[h].status = "held" /\ holds[h].sku = s THEN holds[h].qty ELSE 0])

SoldUnits(s) == SumFunction([o \in Orders |-> IF outcome[o] = "sold" THEN Units(o, s) ELSE 0])

\* No unit is sold twice or lost: what was there, plus the adjustments, is what is
\* on the shelf plus what buyers whose order went through were sold, whole orders
\* at a time, and the shelf is never overdrawn, however transactions overlap.
NeverOversold ==
    /\ StockTypeOK
    /\ \A s \in Skus : inventory[s].physical + SoldUnits(s) = Initial[s] + adjusted[s]

\* No unit stays locked away: the reserved column never exceeds what live
\* reservations hold, so once they are all closed everything can be sold.
NothingLeaks == \A s \in Skus : inventory[s].reserved <= HeldUnits(s)

-----------------------------------------------------------------------------
\* "Reservations (stock lock with TTL)", with the guarantee of a "row-locked
\* UPDATE": a held reservation's units are kept for it.
HoldsAreBacked == \A s \in Skus : inventory[s].reserved = HeldUnits(s)

=============================================================================
