------------------------------ MODULE Pricing ------------------------------
(***************************************************************************)
(* The deterministic price arithmetic of a merchant agent: what a basket   *)
(* costs, what it may not cost less than, and how a discount is spread     *)
(* over its lines.  A line is [sku, qty, unit], and lines are kept by their *)
(* position in the basket; prices are integers, and every division rounds  *)
(* down.                                                                   *)
(***************************************************************************)
EXTENDS Integers, Sequences, FiniteSetsExt, Functions

Lower(a, b) == IF a < b THEN a ELSE b
Higher(a, b) == IF a > b THEN a ELSE b

LineTotal(line) == line.unit * line.qty
TotalOf(lines) ==
    SumFunctionOnSet([i \in DOMAIN lines |-> LineTotal(lines[i])], DOMAIN lines)

\* mins: the minimum price of each sku.
MinTotalFor(mins, lines) ==
    SumFunctionOnSet([i \in DOMAIN lines |-> mins[lines[i].sku] * lines[i].qty], DOMAIN lines)

ApplyBps(amount, bps) == (amount * bps) \div 10000

(***************************************************************************)
(* spreadDiscount: each line gives its share of the discount, rounded down *)
(* per unit, and never more than what lies above its minimum price.  The   *)
(* share is negative when the price already lies below the minimum.        *)
(***************************************************************************)
\* Mutant of UnitShare: a share is rounded up.
UnitShareRoundedUp(line, min, discount, total) ==
    Lower((discount * LineTotal(line)) \div (total * line.qty) + 1, line.unit - min)

UnitShare(line, min, discount, total) ==
    Lower((discount * LineTotal(line)) \div (total * line.qty), line.unit - min)

SpreadDiscount(mins, lines, total, discount) ==
    LET target == Higher(MinTotalFor(mins, lines), total - Higher(0, discount))
    IN  [i \in DOMAIN lines |->
            [lines[i] EXCEPT !.unit =
                @ - UnitShare(lines[i], mins[lines[i].sku], total - target, total)]]

(***************************************************************************)
(* A proposal of any origin is capped at the merchant's limit; a           *)
(* negotiation concedes half of what is asked for.                         *)
(***************************************************************************)
ApplyBoundedDiscount(mins, lines, total, bps, maxBps) ==
    SpreadDiscount(mins, lines, total, ApplyBps(total, Lower(Higher(bps, 0), maxBps)))

Halved(asked, maxBps) == Lower(asked, maxBps) \div 2

CounterOffer(mins, lines, total, asked, maxBps) ==
    ApplyBoundedDiscount(mins, lines, total, Halved(asked, maxBps), maxBps)

NoMaximum == -1

\* What a campaign's rule takes off a total: a percentage or a fixed amount,
\* at most its own maximum if it has one.
RuleDiscount(rule, total) ==
    LET asked == IF rule.type = "percent" THEN ApplyBps(total, rule.value) ELSE rule.value
    IN  IF rule.max = NoMaximum THEN asked ELSE Lower(asked, rule.max)
=============================================================================
