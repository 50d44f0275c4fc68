--------------------------- MODULE Quotes_proofs ---------------------------
(***************************************************************************)
(* Proofs about the two ends of a quote, for any catalogues, baskets,      *)
(* shops and prices: the merchant's desk that prices and signs it          *)
(* (QuoteDesk: what a discount may do to a price, that a payment is        *)
(* answered once, how quotes end) and the buyer's task that negotiates it  *)
(* and builds options from it (ShoppingTask).                              *)
(***************************************************************************)
EXTENDS QuoteDesk, ShoppingTask, SequenceTheorems, SumTheorems

Positive == Nat \ {0}

-----------------------------------------------------------------------------
(* Prices *)

LEMMA ProductIsPositive ==
  ASSUME NEW a \in Positive, NEW b \in Positive
  PROVE  a * b \in Positive
BY DEF Positive

LEMMA ScaleUp ==
  ASSUME NEW a \in Int, NEW b \in Int, a <= b, NEW k \in Nat
  PROVE  a * k <= b * k
BY Z3

\* Rounding down gives at most the exact quotient.
LEMMA RoundsDown ==
  ASSUME NEW a \in Int, NEW b \in Positive
  PROVE  a \div b \in Int /\ (a \div b) * b <= a /\ (a \in Nat => a \div b \in Nat)
BY DEF Positive

\* Lines with quantities and prices above zero.
Worth(lines) ==
  /\ IsFiniteSet(DOMAIN lines)
  /\ \A i \in DOMAIN lines : lines[i].qty \in Positive /\ lines[i].unit \in Positive

LEMMA TotalIsPositive ==
  ASSUME NEW lines, Worth(lines), DOMAIN lines # {}
  PROVE  TotalOf(lines) \in Positive
<1> DEFINE f == [i \in DOMAIN lines |-> LineTotal(lines[i])]
<1>1. \A i \in DOMAIN lines : f[i] \in Positive
  <2>1. TAKE i \in DOMAIN lines
  <2>2. lines[i].unit * lines[i].qty \in Positive
    BY ProductIsPositive DEF Worth
  <2> QED
    BY <2>2 DEF LineTotal
<1>2. IsFiniteSet(DOMAIN lines)
  BY DEF Worth
<1>3. TotalOf(lines) = SumFunctionOnSet(f, DOMAIN lines)
  BY DEF TotalOf
<1> HIDE DEF f
<1>4. PICK i : i \in DOMAIN lines
  OBVIOUS
<1>5. f[i] <= SumFunctionOnSet(f, DOMAIN lines) /\ SumFunctionOnSet(f, DOMAIN lines) \in Nat
  BY <1>1, <1>2, <1>4, SumAtLeast, SumIsNat DEF Positive
<1> QED
  BY <1>1, <1>3, <1>4, <1>5 DEF Positive

LEMMA MinimumIsBelow ==
  ASSUME NEW lines, Worth(lines), NEW mins,
         \A i \in DOMAIN lines : mins[lines[i].sku] \in Positive
  PROVE  /\ MinTotalFor(mins, lines) \in Nat
         /\ (\A i \in DOMAIN lines : lines[i].unit >= mins[lines[i].sku]) =>
               MinTotalFor(mins, lines) <= TotalOf(lines)
<1> DEFINE f == [i \in DOMAIN lines |-> mins[lines[i].sku] * lines[i].qty]
           g == [i \in DOMAIN lines |-> LineTotal(lines[i])]
           S == DOMAIN lines
<1>1. IsFiniteSet(S) /\ \A i \in S : lines[i].qty \in Positive /\ lines[i].unit \in Positive
  BY DEF Worth
<1>2. \A i \in S : f[i] \in Nat /\ g[i] \in Nat
  <2>1. TAKE i \in S
  <2>2. mins[lines[i].sku] * lines[i].qty \in Positive /\ lines[i].unit * lines[i].qty \in Positive
    BY <1>1, ProductIsPositive
  <2> QED
    BY <2>2 DEF LineTotal, Positive
<1>3. ASSUME \A i \in S : lines[i].unit >= mins[lines[i].sku]
      PROVE  \A i \in S : f[i] <= g[i]
  <2>1. TAKE i \in S
  <2>2. /\ mins[lines[i].sku] \in Positive /\ lines[i].qty \in Positive
        /\ lines[i].unit \in Positive /\ mins[lines[i].sku] <= lines[i].unit
    BY <1>1, <1>3 DEF Positive
  <2>3. mins[lines[i].sku] * lines[i].qty <= lines[i].unit * lines[i].qty
    BY <2>2, ScaleUp DEF Positive
  <2> QED
    BY <2>3 DEF LineTotal
<1>4. MinTotalFor(mins, lines) = SumFunctionOnSet(f, S) /\ TotalOf(lines) = SumFunctionOnSet(g, S)
  BY DEF MinTotalFor, TotalOf
<1> HIDE DEF f, g
<1>5. SumFunctionOnSet(f, S) \in Nat
  BY <1>1, <1>2, SumIsNat
<1>6. (\A i \in S : f[i] <= g[i]) => SumFunctionOnSet(f, S) <= SumFunctionOnSet(g, S)
  <2>1. \A i \in S : f[i] \in Int /\ g[i] \in Int
    BY <1>2
  <2> QED
    BY <1>1, <2>1, SumOfSmaller
<1> QED
  BY <1>3, <1>4, <1>5, <1>6

\* The quotient is the only number with a remainder below the divisor.
LEMMA OnlyQuotient ==
  ASSUME NEW a \in Nat, NEW b \in Positive, NEW m \in Nat, NEW r \in Nat, r < b, a = m * b + r
  PROVE  a \div b = m
<1>1. PICK d \in Nat : d = a \div b
  BY DEF Positive
<1>2. d * b <= a /\ a < (d + 1) * b /\ (d + 1) * b = d * b + b /\ d * b \in Nat /\ m * b \in Nat
  BY <1>1 DEF Positive
<1>3. ~(d + 1 <= m)
  <2>1. SUFFICES ASSUME d + 1 <= m PROVE FALSE
    OBVIOUS
  <2>2. (d + 1) * b <= m * b
    BY <2>1, ScaleUp DEF Positive
  <2> QED
    BY <1>2, <2>2 DEF Positive
<1>4. ~(m + 1 <= d)
  <2>1. SUFFICES ASSUME m + 1 <= d PROVE FALSE
    OBVIOUS
  <2>2. (m + 1) * b <= d * b
    BY <2>1, ScaleUp DEF Positive
  <2>3. (m + 1) * b = m * b + b
    BY DEF Positive
  <2> QED
    BY <1>2, <2>2, <2>3 DEF Positive
<1> QED
  BY <1>1, <1>3, <1>4

\* A line's share per unit does not depend on its quantity.
LEMMA QuantityCancels ==
  ASSUME NEW a \in Nat, NEW t \in Positive, NEW q \in Positive
  PROVE  (a * q) \div (t * q) = a \div t
<1>1. PICK m \in Nat, r \in Nat : r < t /\ a = m * t + r
  <2>1. a \div t \in Nat /\ a % t \in Nat /\ a % t < t /\ a = (a \div t) * t + (a % t)
    BY DEF Positive
  <2> QED
    BY <2>1
<1>2. a \div t = m
  BY <1>1, OnlyQuotient
<1>3. t * q \in Positive /\ a * q \in Nat /\ r * q \in Nat
  BY ProductIsPositive DEF Positive
<1>4. a * q = m * (t * q) + r * q
  <2>1. m * t \in Nat /\ a * q = (m * t + r) * q /\ (m * t + r) * q = (m * t) * q + r * q
    BY <1>1 DEF Positive
  <2>2. (m * t) * q = m * (t * q)
    BY DEF Positive
  <2> QED
    BY <2>1, <2>2
<1>5. r * q < t * q
  <2>1. (r + 1) * q <= t * q
    BY <1>1, ScaleUp DEF Positive
  <2>2. (r + 1) * q = r * q + q
    BY DEF Positive
  <2> QED
    BY <1>3, <2>1, <2>2 DEF Positive
<1>6. (a * q) \div (t * q) = m
  BY <1>3, <1>4, <1>5, OnlyQuotient
<1> QED
  BY <1>2, <1>6

\* A price after a discount of k on the total t: its share per unit, and never
\* below the minimum.
Lowered(unit, min, k, t) == unit - Lower((k * unit) \div t, unit - min)

LEMMA LoweredFacts ==
  ASSUME NEW unit \in Positive, NEW min \in Positive, min <= unit, NEW k \in Nat, NEW t \in Positive
  PROVE  /\ Lowered(unit, min, k, t) \in Positive
         /\ min <= Lowered(unit, min, k, t) /\ Lowered(unit, min, k, t) <= unit
<1>1. k * unit \in Nat
  BY DEF Positive
<1>2. (k * unit) \div t \in Nat
  <2> DEFINE a == k * unit
  <2>1. a \in Nat
    BY <1>1
  <2> HIDE DEF a
  <2>2. a \div t \in Nat
    BY <2>1 DEF Positive
  <2> QED
    BY <2>2 DEF a
<1> DEFINE d == (k * unit) \div t
<1>3. d \in Nat
  BY <1>2
<1> HIDE DEF d
<1> QED
  BY <1>3 DEF Lowered, Lower, Positive, d

-----------------------------------------------------------------------------
(* The desk: its invariant *)

Positions == DOMAIN Basket

\* Priced lines: a basket's positions, each with a product, a quantity and a price.
Priced == [sku : Skus, qty : Positive, unit : Positive]
SomeLines == UNION {[D -> Priced] : D \in SUBSET Positions}
AllLines == SomeLines \ [{} -> Priced]

Requests == [at : Stages, call : Calls, on : QuoteIds \cup {NoQuote}, lines : SomeLines,
             total : Int, rule : Positive, under : Listings, edited : BOOLEAN]
SignedQuotes == [status : {"active", "superseded", "consumed", "expired"}, lines : SomeLines,
                 total : Int, prev : QuoteIds \cup {NoQuote}, listing : Listings,
                 edited : BOOLEAN]
Kept == [on : QuoteIds \cup {NoQuote}, answer : {NoAnswer} \cup Answers]

\* Types, in full.
Typed ==
    /\ listing \in Listings
    /\ quotes \in [QuoteIds -> {Unsigned} \cup SignedQuotes]
    /\ proofs \in SUBSET Calls
    /\ cache \in [Calls -> Kept]
    /\ orders \in SUBSET [call : Calls, quote : QuoteIds]
    /\ desk \in [Desks -> {Idle} \cup Requests]
    /\ served \in [Calls -> Nat]
    /\ told \in [Calls -> SUBSET Answers]
    /\ sent \in SUBSET Calls /\ resends \in 0 .. MaxResends
    /\ edits \in 0 .. MaxEdits /\ crashes \in 0 .. MaxCrashes
    /\ stranded \in SUBSET QuoteIds

-----------------------------------------------------------------------------
(* The parts of the inductive invariant *)

\* Quotes are numbered as they are signed.
Numbered == \E k \in 0 .. MaxQuotes : Signed = 1 .. k

\* Desk d works for the payment of call c.
InHand(d, c) ==
    desk[d] # Idle /\ desk[d].call = c
        /\ desk[d].at \in {"read", "campaign", "negotiate", "counter", "sign", "write"}

\* A desk has a quote in hand only for a negotiation or an order, and each step
\* is one of its kind of call.
AtItsStep(d) ==
    /\ desk[d].on \in {NoQuote} \cup Signed
    /\ Kind[desk[d].call] \in {"quote", "quote-basket"} => desk[d].on = NoQuote
    /\ desk[d].at \in {"read", "campaign"} =>
          Kind[desk[d].call] \in {"quote", "quote-basket"}
    /\ desk[d].at \in {"negotiate", "counter"} => Kind[desk[d].call] = "negotiate"
    /\ desk[d].at = "counter" => desk[d].on # NoQuote
    /\ desk[d].at = "commit" => desk[d].on # NoQuote
    /\ desk[d].at \in {"sign", "write"} /\ Kind[desk[d].call] = "negotiate" => desk[d].on # NoQuote
    /\ desk[d].at \in {"order", "commit"} <=> Kind[desk[d].call] = "order"

\* Lines add up to their total: those of a desk that prices, and those of every quote.
Adds(lines, total) == lines \in AllLines /\ total = TotalOf(lines)
HasLines(d) == desk[d].at \in {"campaign", "sign", "write"} => Adds(desk[d].lines, desk[d].total)
QuotesAdd == \A q \in Signed : Adds(quotes[q].lines, quotes[q].total)

\* What quotes and orders refer to exists, and so does what a crash stranded.
PrevKnown == \A q \in Signed : quotes[q].prev \in {NoQuote} \cup Signed
OrdersAreKnown == stranded \subseteq Signed /\ \A o \in orders : o.quote \in Signed

\* All that does not depend on what a discount is.
Control ==
    /\ Typed /\ Numbered /\ QuotesAdd /\ PrevKnown /\ OrdersAreKnown
    /\ \A d \in Desks : desk[d] # Idle => AtItsStep(d) /\ HasLines(d)

\* No line below the minimum of catalogue l.
Above(l, lines) ==
    \A i \in DOMAIN lines : lines[i].sku \in DOMAIN l /\ lines[i].unit >= l[lines[i].sku].min

\* No line above the list price of catalogue l.
Below(l, lines) == \A i \in DOMAIN lines : lines[i].unit <= l[lines[i].sku].price

ListedIn(l, lines) == [i \in DOMAIN lines |-> [lines[i] EXCEPT !.unit = l[lines[i].sku].price]]

Allowed(full, S) == SumFunctionOnSet([i \in S |-> RuleDiscount(Campaigns[i], full)], S)

\* The total is within what the campaigns S and extra take off the list price.
Within(l, lines, total, S, extra) ==
    LET full == TotalOf(ListedIn(l, lines))
    IN  full - total <= Allowed(full, S) + (IF extra THEN ApplyBps(full, MaxDiscountBps) ELSE 0)

\* A price that is still what the campaigns S and perhaps a proposal left of the list price.
Fair(l, lines, S, extra) ==
    /\ lines \in AllLines /\ Above(l, lines) /\ Below(l, lines)
    /\ Within(l, lines, TotalOf(lines), S, extra)

\* The campaigns that have been applied when rule comes next.
AppliedBefore(S, rule) ==
    /\ S \in Stacks
    /\ \A i \in S : i < rule
    /\ rule <= Len(Campaigns) => \A i \in S : ~Campaigns[i].exclusive

\* What a negotiation gives on a quote of total before.
Gain(before, total) == before - total \in Fee .. ApplyBps(before, Halved(AskedBps, MaxDiscountBps))

\* The price in hand at desk d.
PriceIsRight(d) ==
    desk[d].at \in {"campaign", "sign"} =>
        /\ ~desk[d].edited =>
              /\ Above(listing, desk[d].lines)
              /\ desk[d].on = NoQuote =>
                    /\ desk[d].at = "campaign" =>
                          \E S \in Stacks : /\ AppliedBefore(S, desk[d].rule)
                                            /\ Fair(listing, desk[d].lines, S, FALSE)
                    /\ desk[d].at = "sign" =>
                          \E S \in Stacks : Fair(listing, desk[d].lines, S, TRUE)
        /\ desk[d].on # NoQuote =>
              Gain(quotes[desk[d].on].total, desk[d].total)

MinsIn(l) == [s \in DOMAIN l |-> l[s].min]

\* The price about to be written, as the last look left it: an edit after that
\* look does not count.
WriteIsRight(d) ==
    desk[d].at = "write" =>
        /\ desk[d].total >= MinTotalFor(MinsIn(desk[d].under), desk[d].lines)
        /\ ~desk[d].edited =>
              /\ Above(desk[d].under, desk[d].lines)
              /\ desk[d].on = NoQuote =>
                    \E S \in Stacks : Fair(desk[d].under, desk[d].lines, S, TRUE)
        /\ desk[d].on # NoQuote =>
              Gain(quotes[desk[d].on].total, desk[d].total)

\* The price of a signed quote.
QuoteIsRight(q) ==
    /\ quotes[q].total >= MinTotalFor(MinsOf(q), quotes[q].lines)
    /\ ~quotes[q].edited => Above(quotes[q].listing, quotes[q].lines)
    /\ quotes[q].prev = NoQuote /\ ~quotes[q].edited =>
          \E S \in Stacks : Fair(quotes[q].listing, quotes[q].lines, S, TRUE)
    /\ quotes[q].prev # NoQuote =>
          Gain(quotes[quotes[q].prev].total, quotes[q].total)

\* A payment is worked for at one desk, and what its buyer heard of it is what
\* the cache holds.
Refusal == {402, 409}
PaidOnce(c) ==
    /\ served[c] = IF c \in proofs THEN 1 ELSE 0
    /\ \A d, e \in Desks : InHand(d, c) /\ InHand(e, c) => d = e
    /\ \A d \in Desks : InHand(d, c) => c \in proofs /\ cache[c].answer = NoAnswer
    /\ c \notin proofs => cache[c].answer = NoAnswer
    /\ \A a \in told[c] : \/ a.status \in Refusal
                          \/ /\ cache[c].answer # NoAnswer
                             /\ a.status = cache[c].answer.status
                             /\ a.quote = cache[c].answer.quote

\* The end of a quote: its successor or its order, unless a crash came first.
Succeeded(q) == \E r \in Signed : quotes[r].prev = q
Ordered(q) == \E o \in orders : o.quote = q
Accounted(q) ==
    /\ quotes[q].status \in {"active", "expired"} =>
          ~Succeeded(q) /\ ~Ordered(q) /\ q \notin stranded
    /\ quotes[q].status = "superseded" => Succeeded(q) \/ q \in stranded
    /\ quotes[q].status = "consumed" => Ordered(q) \/ q \in stranded

IInv ==
    /\ Control
    /\ \A c \in Calls : Kind[c] # "order" => PaidOnce(c)
    /\ \A q \in Signed : Accounted(q) /\ QuoteIsRight(q)
    /\ \A d \in Desks : desk[d] # Idle => PriceIsRight(d) /\ WriteIsRight(d)

-----------------------------------------------------------------------------
(* Lines of the desk *)

LEMMA BasketFacts ==
  /\ IsFiniteSet(Positions)
  /\ \A i \in Positions : Basket[i].sku \in Skus /\ Basket[i].qty \in Positive
<1>1. Basket \in Seq([sku : Skus, qty : Nat \ {0}])
  BY DeskAssumption
<1>2. Positions = 1 .. Len(Basket) /\ Len(Basket) \in Nat
  BY <1>1, LenProperties DEF Positions
<1>3. IsFiniteSet(Positions)
  BY <1>2, FS_Interval
<1>4. \A i \in Positions : Basket[i] \in [sku : Skus, qty : Nat \ {0}]
  BY <1>1, <1>2, ElementOfSeq
<1> QED
  BY <1>3, <1>4 DEF Positive

\* What priced lines are made of.
LEMMA LineFacts ==
  ASSUME NEW lines \in SomeLines
  PROVE  /\ DOMAIN lines \subseteq Positions /\ IsFiniteSet(DOMAIN lines)
         /\ lines = [i \in DOMAIN lines |-> lines[i]]
         /\ \A i \in DOMAIN lines :
              /\ lines[i] \in Priced /\ lines[i].sku \in Skus
              /\ lines[i].qty \in Positive /\ lines[i].unit \in Positive
<1>1. PICK D \in SUBSET Positions : lines \in [D -> Priced]
  BY DEF SomeLines
<1>2. DOMAIN lines = D /\ IsFiniteSet(D)
  BY <1>1, BasketFacts, FS_Subset
<1>3. \A i \in D : lines[i] \in Priced
  BY <1>1
<1> QED
  BY <1>1, <1>2, <1>3 DEF Priced

LEMMA LinesAreWorth == \A lines \in SomeLines : Worth(lines)
BY LineFacts DEF Worth

LEMMA TotalFacts ==
  ASSUME NEW lines \in AllLines
  PROVE  TotalOf(lines) \in Positive
<1>1. lines \in SomeLines /\ DOMAIN lines # {}
  BY DEF AllLines, SomeLines
<1> QED
  BY <1>1, LinesAreWorth, TotalIsPositive

\* A line gives no more than its share, and never what lies below its minimum.
LEMMA ShareFacts ==
  ASSUME NEW line \in Priced, NEW min \in Positive, NEW discount \in Int,
         NEW total \in Positive
  PROVE  LET share == UnitShare(line, min, discount, total) IN
         /\ share \in Int /\ line.unit - share \in Positive /\ line.unit - share >= min
         /\ (share * line.qty) * total <= discount * LineTotal(line)
         /\ discount >= 0 /\ line.unit >= min => share >= 0
<1> DEFINE whole == discount * LineTotal(line)
           by == total * line.qty
           share == UnitShare(line, min, discount, total)
<1>1. line.unit \in Positive /\ line.qty \in Positive
  BY DEF Priced
<1>2. LineTotal(line) \in Positive /\ whole \in Int /\ by \in Positive
  <2>1. LineTotal(line) \in Positive /\ by \in Positive
    BY <1>1, ProductIsPositive DEF LineTotal
  <2> QED
    BY <2>1 DEF Positive
<1>3. whole \div by \in Int /\ (whole \div by) * by <= whole
      /\ (whole \in Nat => whole \div by \in Nat)
  BY <1>2, RoundsDown
<1>4. share = Lower(whole \div by, line.unit - min)
  BY DEF UnitShare
<1>5. discount >= 0 => whole \in Nat
  BY <1>2 DEF Positive
<1> HIDE DEF whole, by, share
<1>6. /\ share \in Int /\ share <= whole \div by /\ share <= line.unit - min
      /\ whole \div by \in Nat /\ line.unit >= min => share >= 0
  BY <1>1, <1>3, <1>4 DEF Lower, Positive
<1>7. share * by <= whole
  <2>1. share * by <= (whole \div by) * by
    BY <1>2, <1>3, <1>6, ScaleUp DEF Positive
  <2> QED
    BY <1>2, <1>3, <1>6, <2>1 DEF Positive
<1>8. (share * line.qty) * total = share * by
  BY <1>1, <1>6 DEF by, Positive
<1> QED
  BY <1>1, <1>3, <1>5, <1>6, <1>7, <1>8 DEF whole, share, Positive

\* The minimum prices of lines add up to a total of their own.
LEMMA MinimumFacts ==
  ASSUME NEW lines \in SomeLines, NEW mins,
         \A i \in DOMAIN lines : mins[lines[i].sku] \in Positive
  PROVE  /\ MinTotalFor(mins, lines) \in Nat
         /\ (\A i \in DOMAIN lines : lines[i].unit >= mins[lines[i].sku]) =>
               MinTotalFor(mins, lines) <= TotalOf(lines)
BY LinesAreWorth, MinimumIsBelow

\* What the lines give together is the difference of their totals.
LEMMA GainFacts ==
  ASSUME NEW S, IsFiniteSet(S), NEW f, NEW g, NEW share, NEW k \in Int, NEW total \in Positive,
         \A i \in S : /\ f[i] \in Int /\ g[i] \in Int /\ share[i] \in Int
                      /\ share[i] = f[i] - g[i]
                      /\ share[i] * total <= k * f[i],
         total = SumFunctionOnSet(f, S)
  PROVE  /\ SumFunctionOnSet(g, S) \in Int
         /\ total - SumFunctionOnSet(g, S) <= k
<1> DEFINE scaled == [i \in S |-> total * share[i]]
           shares == [i \in S |-> k * f[i]]
           gain == SumFunctionOnSet(share, S)
<1>1. total \in Int
  BY DEF Positive
<1>2. gain = total - SumFunctionOnSet(g, S) /\ gain \in Int /\ SumFunctionOnSet(g, S) \in Int
  BY SumOfDifferences, SumIsInt
<1>3. SumFunctionOnSet(scaled, S) = total * gain
  BY <1>1, SumOfMultiples
<1>4. SumFunctionOnSet(shares, S) = k * total
  BY SumOfMultiples
<1>5. \A i \in S : scaled[i] \in Int /\ shares[i] \in Int /\ scaled[i] <= shares[i]
  BY <1>1
<1> HIDE DEF scaled, shares, gain
<1>6. SumFunctionOnSet(scaled, S) <= SumFunctionOnSet(shares, S)
  BY <1>5, SumOfSmaller
<1>7. total * gain <= k * total
  BY <1>3, <1>4, <1>6
<1>8. gain <= k
  <2>1. SUFFICES ASSUME k + 1 <= gain PROVE FALSE
    BY <1>2
  <2>2. (k + 1) * total <= gain * total
    BY <1>2, <2>1, ScaleUp DEF Positive
  <2>3. gain * total = total * gain /\ (k + 1) * total = k * total + total
    BY <1>1, <1>2
  <2> QED
    BY <1>1, <1>2, <1>7, <2>2, <2>3 DEF Positive
<1> QED
  BY <1>2, <1>8

\* Spreading a discount keeps products and quantities, takes no line below its
\* minimum and gives no more than the discount in all.
LEMMA SpreadFacts ==
  ASSUME NEW lines \in AllLines, NEW mins, NEW discount \in Int,
         \A i \in DOMAIN lines : mins[lines[i].sku] \in Positive
  PROVE  LET total == TotalOf(lines)
             new == SpreadDiscount(mins, lines, total, discount)
         IN  /\ new \in AllLines /\ DOMAIN new = DOMAIN lines
             /\ \A i \in DOMAIN lines :
                  /\ new[i].sku = lines[i].sku /\ new[i].qty = lines[i].qty
                  /\ new[i].unit >= mins[lines[i].sku]
             /\ (\A i \in DOMAIN lines : lines[i].unit >= mins[lines[i].sku]) =>
                  \A i \in DOMAIN lines : new[i].unit <= lines[i].unit
             /\ total - TotalOf(new) <= Higher(0, discount)
<1> DEFINE total == TotalOf(lines)
           S == DOMAIN lines
           target == Higher(MinTotalFor(mins, lines), total - Higher(0, discount))
           k == total - target
           min(i) == mins[lines[i].sku]
           each(i) == UnitShare(lines[i], min(i), k, total)
           new == SpreadDiscount(mins, lines, total, discount)
           f == [i \in S |-> LineTotal(lines[i])]
           g == [i \in S |-> LineTotal(new[i])]
           share == [i \in S |-> each(i) * lines[i].qty]
<1>1. lines \in SomeLines /\ S # {} /\ IsFiniteSet(S)
  BY LineFacts DEF AllLines, SomeLines
<1>2. total \in Positive /\ MinTotalFor(mins, lines) \in Nat
  BY <1>1, TotalFacts, MinimumFacts
<1>3. k \in Int /\ k <= Higher(0, discount)
  BY <1>2 DEF Higher, Positive
<1>4. (\A i \in S : lines[i].unit >= min(i)) => k >= 0
  <2>1. (\A i \in S : lines[i].unit >= min(i)) => MinTotalFor(mins, lines) <= total
    BY <1>1, MinimumFacts
  <2> HIDE DEF total
  <2> QED
    BY <1>2, <2>1 DEF Higher, Positive
<1>5. new = [i \in S |-> [lines[i] EXCEPT !.unit = @ - each(i)]]
  BY DEF SpreadDiscount
<1>6. ASSUME NEW i \in S
      PROVE  /\ lines[i] \in Priced /\ each(i) \in Int /\ lines[i].unit - each(i) \in Positive
             /\ lines[i].unit - each(i) >= min(i)
             /\ (each(i) * lines[i].qty) * total <= k * LineTotal(lines[i])
             /\ k >= 0 /\ lines[i].unit >= min(i) => each(i) >= 0
  <2>1. lines[i] \in Priced /\ min(i) \in Positive
    BY <1>1, LineFacts
  <2> HIDE DEF k, min, total
  <2> QED
    BY <1>2, <1>3, <2>1, ShareFacts
<1> HIDE DEF each, new, k, total
<1>7. ASSUME NEW i \in S
      PROVE  /\ new[i] \in Priced /\ new[i].sku = lines[i].sku /\ new[i].qty = lines[i].qty
             /\ new[i].unit = lines[i].unit - each(i)
  <2>1. new[i] = [lines[i] EXCEPT !.unit = @ - each(i)]
    BY <1>5
  <2> QED
    BY <1>6, <2>1 DEF Priced
<1>8. DOMAIN new = S /\ new \in AllLines
  <2>1. DOMAIN new = S /\ new \in [S -> Priced]
    BY <1>5, <1>7
  <2>2. S \in SUBSET Positions
    BY <1>1, LineFacts
  <2> QED
    BY <1>1, <2>1, <2>2 DEF AllLines, SomeLines
<1>9. total - TotalOf(new) <= k
  <2>1. \A i \in S : /\ f[i] \in Int /\ g[i] \in Int /\ share[i] \in Int
                     /\ share[i] = f[i] - g[i]
                     /\ share[i] * total <= k * f[i]
    <3>1. TAKE i \in S
    <3>2. /\ lines[i].unit \in Positive /\ lines[i].qty \in Positive /\ each(i) \in Int
          /\ new[i].unit = lines[i].unit - each(i) /\ new[i].qty = lines[i].qty
      BY <1>1, <1>6, <1>7, LineFacts
    <3>3. f[i] = lines[i].unit * lines[i].qty /\ g[i] = (lines[i].unit - each(i)) * lines[i].qty
          /\ share[i] = each(i) * lines[i].qty
      BY <3>2 DEF LineTotal
    <3>4. (lines[i].unit - each(i)) * lines[i].qty
            = lines[i].unit * lines[i].qty - each(i) * lines[i].qty
      BY <3>2 DEF Positive
    <3>5. f[i] \in Int /\ g[i] \in Int /\ share[i] \in Int
      BY <3>2, <3>3 DEF Positive
    <3>6. share[i] * total <= k * f[i]
      BY <1>6, <3>3
    <3> QED
      BY <3>3, <3>4, <3>5, <3>6
  <2>2. total = SumFunctionOnSet(f, S)
    BY DEF TotalOf, total
  <2>3. TotalOf(new) = SumFunctionOnSet(g, S)
    BY <1>8 DEF TotalOf
  <2> HIDE DEF f, g, share
  <2> QED
    BY <1>1, <1>2, <1>3, <2>1, <2>2, <2>3, GainFacts
<1>10. TotalOf(new) \in Positive
  BY <1>8, TotalFacts
<1>11. total - TotalOf(new) <= Higher(0, discount)
  BY <1>2, <1>3, <1>9, <1>10 DEF Higher, Positive
<1>12. \A i \in S : new[i].unit >= mins[lines[i].sku]
  BY <1>6, <1>7
<1>13. (\A i \in S : lines[i].unit >= mins[lines[i].sku]) => \A i \in S : new[i].unit <= lines[i].unit
  <2>1. SUFFICES ASSUME \A i \in S : lines[i].unit >= mins[lines[i].sku], NEW i \in S
                 PROVE  new[i].unit <= lines[i].unit
    OBVIOUS
  <2>2. each(i) >= 0 /\ each(i) \in Int /\ lines[i].unit \in Positive
    BY <1>1, <1>4, <1>6, <2>1, LineFacts
  <2> QED
    BY <1>7, <2>2 DEF Positive
<1> QED
  BY <1>7, <1>8, <1>11, <1>12, <1>13 DEF new, total

\* A rate takes more off a higher price.
LEMMA BpsFacts ==
  ASSUME NEW amount \in Nat, NEW bps \in Nat
  PROVE  /\ ApplyBps(amount, bps) \in Nat
         /\ \A more \in Nat : amount <= more => ApplyBps(amount, bps) <= ApplyBps(more, bps)
         /\ \A top \in Nat : bps <= top => ApplyBps(amount, bps) <= ApplyBps(amount, top)
<1>1. \A x, y \in Nat : x <= y => x \div 10000 \in Nat /\ x \div 10000 <= y \div 10000
  OBVIOUS
<1>2. amount * bps \in Nat
  OBVIOUS
<1>3. \A more \in Nat : amount <= more => amount * bps <= more * bps /\ more * bps \in Nat
  BY ScaleUp
<1>4. \A top \in Nat : bps <= top => amount * bps <= amount * top /\ amount * top \in Nat
  <2>1. TAKE top \in Nat
  <2>2. HAVE bps <= top
  <2>3. bps * amount <= top * amount
    BY <2>2, ScaleUp
  <2>4. bps * amount = amount * bps /\ top * amount = amount * top /\ amount * top \in Nat
    OBVIOUS
  <2> QED
    BY <2>3, <2>4
<1> QED
  BY <1>1, <1>2, <1>3, <1>4 DEF ApplyBps

Campaign == [type : {"percent", "fixed"}, value : Int, max : Int, exclusive : BOOLEAN]

LEMMA CampaignFacts ==
  /\ Len(Campaigns) \in Nat /\ DOMAIN Campaigns = 1 .. Len(Campaigns)
  /\ IsFiniteSet(DOMAIN Campaigns)
  /\ \A i \in DOMAIN Campaigns : Campaigns[i] \in Campaign
<1>1. Campaigns \in Seq([type : {"percent", "fixed"}, value : Int, max : Int, exclusive : BOOLEAN])
  BY DeskAssumption
<1>2. Len(Campaigns) \in Nat /\ DOMAIN Campaigns = 1 .. Len(Campaigns)
  BY <1>1, LenProperties
<1>3. IsFiniteSet(DOMAIN Campaigns)
  BY <1>2, FS_Interval
<1>4. \A i \in DOMAIN Campaigns : Campaigns[i] \in Campaign
  BY <1>1, <1>2, ElementOfSeq DEF Campaign
<1> QED
  BY <1>2, <1>3, <1>4

\* A rule that gives anything at a price gives as much at a higher one.
LEMMA RuleFacts ==
  ASSUME NEW rule \in Campaign, NEW total \in Nat, NEW full \in Nat, total <= full
  PROVE  /\ RuleDiscount(rule, total) \in Int
         /\ RuleDiscount(rule, total) > 0 => RuleDiscount(rule, total) <= RuleDiscount(rule, full)
<1> DEFINE asked(amount) == IF rule.type = "percent" THEN ApplyBps(amount, rule.value)
                            ELSE rule.value
<1>1. rule.value \in Int /\ rule.max \in Int
  BY DEF Campaign
<1>2. asked(total) \in Int /\ asked(full) \in Int
  BY <1>1 DEF ApplyBps
<1>3. asked(total) > 0 => asked(total) <= asked(full)
  <2>1. CASE rule.type # "percent"
    BY <1>1, <2>1
  <2>2. CASE rule.type = "percent" /\ rule.value \in Nat
    BY <2>2, BpsFacts
  <2>3. CASE rule.type = "percent" /\ rule.value \notin Nat
    <3>1. rule.value <= 0
      BY <1>1, <2>3
    <3>2. rule.value * total <= 0 * total
      BY <1>1, <3>1, ScaleUp
    <3>3. total * rule.value <= 0 /\ total * rule.value \in Int
      BY <1>1, <3>2
    <3>4. ~((total * rule.value) \div 10000 > 0)
      BY <3>3
    <3> QED
      BY <2>3, <3>4 DEF ApplyBps
  <2> QED
    BY <2>1, <2>2, <2>3
<1>4. \A amount : RuleDiscount(rule, amount) =
        IF rule.max = NoMaximum THEN asked(amount) ELSE Lower(asked(amount), rule.max)
  BY DEF RuleDiscount
<1> HIDE DEF asked
<1> QED
  BY <1>1, <1>2, <1>3, <1>4 DEF Lower

\* A proposal gives no more than the merchant's limit.
LEMMA BoundedFacts ==
  ASSUME NEW lines \in AllLines, NEW mins, NEW bps \in Int,
         \A i \in DOMAIN lines : mins[lines[i].sku] \in Positive
  PROVE  LET total == TotalOf(lines)
             new == ApplyBoundedDiscount(mins, lines, total, bps, MaxDiscountBps)
         IN  /\ new \in AllLines /\ DOMAIN new = DOMAIN lines
             /\ \A i \in DOMAIN lines :
                  /\ new[i].sku = lines[i].sku /\ new[i].qty = lines[i].qty
                  /\ new[i].unit >= mins[lines[i].sku]
             /\ (\A i \in DOMAIN lines : lines[i].unit >= mins[lines[i].sku]) =>
                  \A i \in DOMAIN lines : new[i].unit <= lines[i].unit
             /\ total - TotalOf(new) <= ApplyBps(total, Lower(Higher(bps, 0), MaxDiscountBps))
<1> DEFINE total == TotalOf(lines)
           capped == Lower(Higher(bps, 0), MaxDiscountBps)
           discount == ApplyBps(total, capped)
<1>1. total \in Nat
  BY TotalFacts DEF Positive
<1>2. capped \in Nat
  BY DeskAssumption DEF Lower, Higher
<1> HIDE DEF capped
<1>3. discount \in Nat
  BY <1>1, <1>2, BpsFacts
<1>4. ApplyBoundedDiscount(mins, lines, total, bps, MaxDiscountBps)
        = SpreadDiscount(mins, lines, total, discount)
  BY DEF ApplyBoundedDiscount, capped
<1>5. Higher(0, discount) = discount /\ discount \in Int
  BY <1>3 DEF Higher
<1> HIDE DEF discount
<1> QED
  BY <1>4, <1>5, SpreadFacts DEF discount, capped

\* A counter-offer gives at most half of what is asked for.
LEMMA CounterFacts ==
  ASSUME NEW lines \in AllLines, NEW mins,
         \A i \in DOMAIN lines : mins[lines[i].sku] \in Positive
  PROVE  LET total == TotalOf(lines)
             new == CounterOffer(mins, lines, total, AskedBps, MaxDiscountBps)
         IN  /\ new \in AllLines /\ DOMAIN new = DOMAIN lines
             /\ \A i \in DOMAIN lines :
                  new[i].sku = lines[i].sku /\ new[i].unit >= mins[lines[i].sku]
             /\ total - TotalOf(new) <= ApplyBps(total, Halved(AskedBps, MaxDiscountBps))
<1> DEFINE half == Halved(AskedBps, MaxDiscountBps)
<1>1. half \in Int /\ Lower(Higher(half, 0), MaxDiscountBps) = half
  BY DeskAssumption DEF Halved, Lower, Higher
<1> HIDE DEF half
<1>2. \A total : CounterOffer(mins, lines, total, AskedBps, MaxDiscountBps)
                   = ApplyBoundedDiscount(mins, lines, total, half, MaxDiscountBps)
  BY DEF CounterOffer, half
<1> QED
  BY <1>1, <1>2, BoundedFacts DEF half

-----------------------------------------------------------------------------
(* Requests, answers and quotes *)

LEMMA DeskFacts ==
  ASSUME Typed, NEW d \in Desks, desk[d] # Idle
  PROVE  /\ desk[d] \in Requests
         /\ desk[d].at \in Stages /\ desk[d].call \in Calls /\ desk[d].on \in QuoteIds \cup {NoQuote}
         /\ desk[d].lines \in SomeLines /\ desk[d].total \in Int /\ desk[d].rule \in Positive
         /\ desk[d].under \in Listings /\ desk[d].edited \in BOOLEAN
<1>1. desk[d] \in Requests
  BY DEF Typed
<1> QED
  BY <1>1 DEF Requests

LEMMA AtAStep ==
  ASSUME NEW d, desk[d].at \in Stages
  PROVE  desk[d] # Idle
BY DEF Idle, Stages

LEMMA NeverIdle == \A r \in Requests : r # Idle
BY DEF Requests, Idle, Stages

LEMMA Moved ==
  ASSUME Typed, NEW d \in Desks, desk[d] # Idle, NEW at \in Stages, Move(d, at)
  PROVE  /\ desk' \in [Desks -> {Idle} \cup Requests]
         /\ \A e \in Desks : e # d => desk'[e] = desk[e]
         /\ desk'[d] # Idle /\ desk'[d].at = at
         /\ desk'[d].call = desk[d].call /\ desk'[d].on = desk[d].on
         /\ desk'[d].lines = desk[d].lines /\ desk'[d].total = desk[d].total
         /\ desk'[d].rule = desk[d].rule /\ desk'[d].edited = desk[d].edited
<1> DEFINE r == [desk[d] EXCEPT !.at = at]
<1>1. /\ r \in Requests /\ r.at = at /\ r.call = desk[d].call /\ r.on = desk[d].on
      /\ r.lines = desk[d].lines /\ r.total = desk[d].total /\ r.rule = desk[d].rule
      /\ r.edited = desk[d].edited
  BY DeskFacts DEF Requests
<1>2. desk' = [desk EXCEPT ![d] = r] /\ desk \in [Desks -> {Idle} \cup Requests]
  BY DEF Move, Typed
<1> HIDE DEF r
<1> QED
  BY <1>1, <1>2, NeverIdle

\* The request at desk d goes on with a price and a place in the list of campaigns.
Reprices(d, at, lines, total, rule) ==
    desk' = [desk EXCEPT ![d] = [desk[d] EXCEPT !.at = at, !.lines = lines,
                                                !.total = total, !.rule = rule]]

LEMMA Repriced ==
  ASSUME Typed, NEW d \in Desks, desk[d] # Idle, NEW at \in Stages, NEW lines \in SomeLines,
         NEW total \in Int, NEW rule \in Positive, Reprices(d, at, lines, total, rule)
  PROVE  /\ desk' \in [Desks -> {Idle} \cup Requests]
         /\ \A e \in Desks : e # d => desk'[e] = desk[e]
         /\ desk'[d] # Idle /\ desk'[d].at = at
         /\ desk'[d].call = desk[d].call /\ desk'[d].on = desk[d].on
         /\ desk'[d].lines = lines /\ desk'[d].total = total
         /\ desk'[d].rule = rule /\ desk'[d].edited = desk[d].edited
<1> DEFINE r == [desk[d] EXCEPT !.at = at, !.lines = lines, !.total = total, !.rule = rule]
<1>1. /\ r \in Requests /\ r.at = at /\ r.call = desk[d].call /\ r.on = desk[d].on
      /\ r.lines = lines /\ r.total = total /\ r.rule = rule
      /\ r.edited = desk[d].edited
  BY DeskFacts DEF Requests
<1>2. desk' = [desk EXCEPT ![d] = r] /\ desk \in [Desks -> {Idle} \cup Requests]
  BY DEF Typed, Reprices
<1> HIDE DEF r
<1> QED
  BY <1>1, <1>2, NeverIdle

\* The answers the desk gives.
LEMMA AnswerFacts ==
  /\ \A s \in {402, 404, 409, 422, 500} : Failed(s) \in Answers /\ Failed(s).status = s
  /\ \A q \in QuoteIds \cup {NoQuote} : Quoted(q) \in Answers /\ Quoted(q).status = 200
  /\ \A s \in {200, 404, 422} : Refunded(s) \in Answers /\ Refunded(s).status = s
  /\ \A a \in Answers : a.status # 0 => a # NoAnswer
  /\ NoAnswer.status = 0
BY DEF Failed, Quoted, Refunded, Answers, NoAnswer, NoQuote

\* A request leaves its desk with an answer.
Leaves(d, answer) ==
    /\ desk' = [desk EXCEPT ![d] = Idle]
    /\ told' = [told EXCEPT ![desk[d].call] = @ \cup {answer}]
    /\ \/ cache' = cache
       \/ /\ Kind[desk[d].call] # "order" /\ cache[desk[d].call].answer = NoAnswer
          /\ cache' = [cache EXCEPT ![desk[d].call] = [on |-> desk[d].on, answer |-> answer]]

LEMMA Left ==
  ASSUME Typed, NEW d \in Desks, desk[d] # Idle, NEW answer \in Answers,
         Leaves(d, answer)
  PROVE  /\ desk' \in [Desks -> {Idle} \cup Requests]
         /\ told' \in [Calls -> SUBSET Answers] /\ cache' \in [Calls -> Kept]
         /\ desk'[d] = Idle /\ \A e \in Desks : e # d => desk'[e] = desk[e]
<1>1. desk[d].call \in Calls /\ desk[d].on \in QuoteIds \cup {NoQuote}
  BY DeskFacts
<1>2. [on |-> desk[d].on, answer |-> answer] \in Kept
  BY <1>1 DEF Kept
<1>3. cache' \in [Calls -> Kept]
  BY <1>1, <1>2 DEF Leaves, Typed
<1> QED
  BY <1>1, <1>3 DEF Leaves, Typed

LEMMA AnswerLeaves ==
  ASSUME Typed, NEW d \in Desks, NEW answer, Answer(d, answer)
  PROVE  Leaves(d, answer)
BY DEF Answer, Leaves

LEMMA TurnAwayLeaves ==
  ASSUME NEW d, NEW answer, TurnAway(d, answer)
  PROVE  Leaves(d, answer)
BY DEF TurnAway, Leaves

\* A request keeps its call, its quote and its mark of an edit from step to step.
Continues(d) ==
    /\ desk' \in [Desks -> {Idle} \cup Requests]
    /\ \A e \in Desks : e # d => desk'[e] = desk[e]
    /\ desk'[d] # Idle
    /\ desk'[d].call = desk[d].call /\ desk'[d].on = desk[d].on
    /\ desk'[d].edited = desk[d].edited
    /\ UNCHANGED <<told, cache>>

-----------------------------------------------------------------------------
(* What each step does at its desk *)

LEMMA ListFacts ==
  ASSUME NEW l \in Listings
  PROVE  /\ DOMAIN l \subseteq Skus
         /\ \A s \in DOMAIN l : l[s].min \in Positive /\ l[s].price \in Positive
                                /\ l[s].price >= l[s].min
BY DeskAssumption DEF IsListing, Positive

\* Stocked lines have a minimum each.
LEMMA StockedFacts ==
  ASSUME Typed, NEW lines \in SomeLines, Stocked(lines)
  PROVE  \A i \in DOMAIN lines : /\ Mins[lines[i].sku] = listing[lines[i].sku].min
                                 /\ Mins[lines[i].sku] \in Positive
BY ListFacts DEF Typed, Stocked, Mins

\* The lines of a first price: what is on sale, at its list price.
LEMMA ListLinesFacts ==
  ASSUME Typed, Available # {}
  PROVE  /\ ListLines(Available) \in AllLines
         /\ \A i \in DOMAIN ListLines(Available) :
              /\ ListLines(Available)[i].sku \in DOMAIN listing
              /\ ListLines(Available)[i].unit = listing[ListLines(Available)[i].sku].price
<1> DEFINE lines == ListLines(Available)
<1>1. lines = [i \in Available |-> [sku |-> Basket[i].sku, qty |-> Basket[i].qty,
                                    unit |-> listing[Basket[i].sku].price]]
  BY DEF ListLines
<1>2. Available \in SUBSET Positions /\ \A i \in Available : Basket[i].sku \in DOMAIN listing
  BY DEF Available, Positions
<1>3. \A i \in Available : /\ lines[i] \in Priced /\ lines[i].sku = Basket[i].sku
                           /\ lines[i].unit = listing[Basket[i].sku].price
  <2>1. TAKE i \in Available
  <2>2. Basket[i].sku \in Skus /\ Basket[i].qty \in Positive
        /\ listing[Basket[i].sku].price \in Positive
    BY <1>2, BasketFacts, ListFacts DEF Typed
  <2> QED
    BY <1>1, <2>2 DEF Priced
<1> HIDE DEF lines
<1>4. DOMAIN lines = Available /\ lines \in [Available -> Priced]
  BY <1>1, <1>3
<1>5. lines \in AllLines
  BY <1>2, <1>4 DEF AllLines, SomeLines
<1> QED
  BY <1>2, <1>3, <1>4, <1>5 DEF lines

LEMMA ReadPricesDoes ==
  ASSUME Typed, NEW d \in Desks, ReadPrices(d)
  PROVE  /\ desk[d] # Idle
         /\ \/ \E a \in Answers : Answer(d, a) /\ a.status = 422
            \/ /\ Continues(d) /\ Available # {}
               /\ desk'[d].lines = ListLines(Available)
               /\ desk'[d].total = TotalOf(ListLines(Available))
               /\ desk'[d].rule = desk[d].rule
               /\ desk'[d].at = IF Kind[desk[d].call] = "quote" THEN "campaign" ELSE "sign"
<1>1. desk[d] # Idle
  BY AtAStep DEF ReadPrices, Stages
<1>2. CASE Available = {}
  BY <1>1, <1>2, AnswerFacts DEF ReadPrices
<1>3. CASE Available # {}
  <2> DEFINE lines == ListLines(Available)
             total == TotalOf(lines)
             at == IF Kind[desk[d].call] = "quote" THEN "campaign" ELSE "sign"
  <2>1. lines \in AllLines /\ lines \in SomeLines /\ total \in Int /\ at \in Stages
    BY <1>3, ListLinesFacts, TotalFacts DEF AllLines, Positive, Stages
  <2>2. desk[d] \in Requests /\ desk[d].rule \in Positive
    BY <1>1, DeskFacts
  <2>3. UNCHANGED <<told, cache>>
        /\ desk' = [desk EXCEPT ![d] = [desk[d] EXCEPT !.lines = lines, !.total = total, !.at = at]]
    BY <1>3 DEF ReadPrices
  <2> HIDE DEF lines, total, at
  <2>4. Reprices(d, at, lines, total, desk[d].rule)
    BY <2>2, <2>3 DEF Requests, Reprices
  <2>5. UNCHANGED <<told, cache>>
    BY <2>3
  <2>6. Continues(d) /\ desk'[d].lines = lines /\ desk'[d].total = total
        /\ desk'[d].rule = desk[d].rule /\ desk'[d].at = at
    BY <1>1, <2>1, <2>2, <2>4, <2>5, Repriced DEF Continues
  <2> QED
    BY <1>1, <1>3, <2>6 DEF lines, total, at
<1> QED
  BY <1>2, <1>3

\* One campaign: left out, refused, or applied to the price in hand.
LEMMA ApplyCampaignDoes ==
  ASSUME Typed, NEW d \in Desks, HasLines(d), ApplyCampaign(d)
  PROVE  /\ desk[d] # Idle /\ desk[d].at = "campaign" /\ desk[d].rule \in DOMAIN Campaigns
         /\ \/ \E a \in Answers : Answer(d, a) /\ a.status = 422
            \/ /\ Continues(d) /\ desk'[d].at = "campaign"
               /\ desk'[d].rule = desk[d].rule + 1
               /\ desk'[d].lines = desk[d].lines /\ desk'[d].total = desk[d].total
            \/ LET discount == RuleDiscount(Campaigns[desk[d].rule], desk[d].total)
                   lines == SpreadDiscount(Mins, desk[d].lines, desk[d].total, discount)
               IN  /\ Continues(d) /\ desk'[d].at = "campaign"
                   /\ discount > 0 /\ Stocked(desk[d].lines) /\ Lowers(d, lines)
                   /\ lines \in AllLines /\ desk'[d].lines = lines /\ desk'[d].total = TotalOf(lines)
                   /\ desk'[d].rule = AfterRule(d, TRUE)
<1> DEFINE rule == desk[d].rule
           discount == RuleDiscount(Campaigns[rule], desk[d].total)
           lines == SpreadDiscount(Mins, desk[d].lines, desk[d].total, discount)
<1>1. desk[d] # Idle /\ desk[d].at = "campaign"
  BY AtAStep DEF ApplyCampaign, Stages
<1>2. /\ desk[d] \in Requests /\ rule \in Positive /\ rule <= Len(Campaigns)
      /\ desk[d].lines \in AllLines /\ desk[d].lines \in SomeLines
      /\ desk[d].total = TotalOf(desk[d].lines) /\ desk[d].total \in Positive
  BY <1>1, DeskFacts, TotalFacts DEF ApplyCampaign, HasLines, Adds, AllLines
<1>3. rule \in DOMAIN Campaigns
  BY <1>2, CampaignFacts DEF Positive
<1>4. discount \in Int
  BY <1>2, <1>3, CampaignFacts, RuleFacts DEF Positive
<1>5. rule + 1 \in Positive /\ Len(Campaigns) + 1 \in Positive /\ rule \in Positive
  BY <1>2, CampaignFacts DEF Positive
<1>6. ASSUME NEW next \in Positive, UNCHANGED <<told, cache>>,
             Reprices(d, desk[d].at, desk[d].lines, desk[d].total, next)
      PROVE  Continues(d) /\ desk'[d].at = "campaign" /\ desk'[d].rule = next
             /\ desk'[d].lines = desk[d].lines /\ desk'[d].total = desk[d].total
  BY <1>1, <1>2, <1>6, DeskFacts, Repriced DEF Continues
<1> HIDE DEF discount, lines, rule
<1>7. \/ /\ Reprices(d, desk[d].at, desk[d].lines, desk[d].total, rule + 1)
         /\ UNCHANGED <<told, cache>>
      \/ Answer(d, Failed(422))
      \/ /\ discount > 0 /\ Stocked(desk[d].lines) /\ Lowers(d, lines)
         /\ Reprices(d, desk[d].at, lines, TotalOf(lines), AfterRule(d, TRUE))
         /\ UNCHANGED <<told, cache>>
  <2>1. AfterRule(d, FALSE) = rule + 1
    BY DEF AfterRule, rule
  <2>2. [desk[d] EXCEPT !.at = desk[d].at, !.lines = desk[d].lines, !.total = desk[d].total,
                        !.rule = rule + 1]
          = [desk[d] EXCEPT !.rule = AfterRule(d, FALSE)]
    BY <1>2, <2>1 DEF Requests
  <2>3. [desk[d] EXCEPT !.at = desk[d].at, !.lines = lines, !.total = TotalOf(lines),
                        !.rule = AfterRule(d, TRUE)]
          = [desk[d] EXCEPT !.rule = AfterRule(d, TRUE), !.lines = lines, !.total = TotalOf(lines)]
    BY <1>2 DEF Requests
  <2> QED
    BY <2>2, <2>3, Zenon DEF ApplyCampaign, Reprices, rule, discount, lines
<1>8. CASE /\ Reprices(d, desk[d].at, desk[d].lines, desk[d].total, rule + 1)
           /\ UNCHANGED <<told, cache>>
  <2>1. Continues(d) /\ desk'[d].at = "campaign" /\ desk'[d].rule = rule + 1
        /\ desk'[d].lines = desk[d].lines /\ desk'[d].total = desk[d].total
    BY <1>5, <1>6, <1>8
  <2> QED
    BY <1>1, <1>3, <2>1 DEF rule
<1>9. CASE Answer(d, Failed(422))
  <2>1. \E a \in Answers : Answer(d, a) /\ a.status = 422
    BY <1>9, AnswerFacts
  <2> QED
    BY <1>1, <1>3, <2>1 DEF rule
<1>10. CASE /\ discount > 0 /\ Stocked(desk[d].lines) /\ Lowers(d, lines)
            /\ Reprices(d, desk[d].at, lines, TotalOf(lines), AfterRule(d, TRUE))
            /\ UNCHANGED <<told, cache>>
  <2>1. lines \in AllLines /\ lines \in SomeLines /\ TotalOf(lines) \in Int
    <3>1. \A i \in DOMAIN desk[d].lines : Mins[desk[d].lines[i].sku] \in Positive
      BY <1>2, <1>10, StockedFacts
    <3> QED
      BY <1>2, <1>4, <3>1, SpreadFacts, TotalFacts DEF lines, AllLines, Positive
  <2> DEFINE next == AfterRule(d, TRUE)
             total == TotalOf(lines)
  <2>2. next \in Positive
    BY <1>5 DEF AfterRule, rule
  <2>3. /\ Reprices(d, desk[d].at, lines, total, next) /\ total \in Int
        /\ UNCHANGED <<told, cache>> /\ desk[d].at \in Stages
    BY <1>1, <1>10, <2>1, DeskFacts
  <2> HIDE DEF next, total
  <2>4. /\ Continues(d) /\ desk'[d].at = "campaign" /\ desk'[d].lines = lines
        /\ desk'[d].total = total /\ desk'[d].rule = next
    BY <1>1, <2>1, <2>2, <2>3, Repriced DEF Continues
  <2> QED
    BY <1>1, <1>3, <1>10, <2>1, <2>4 DEF next, total, lines, discount, rule
<1> QED
  BY <1>7, <1>8, <1>9, <1>10

\* The request at desk d goes on to a step, with a price and its place among the
\* campaigns.
GoesOn(d, at, lines, total, rule) ==
    /\ Continues(d) /\ desk'[d].at = at /\ desk'[d].lines = lines
    /\ desk'[d].total = total /\ desk'[d].rule = rule

Moves(d, at) == GoesOn(d, at, desk[d].lines, desk[d].total, desk[d].rule)

LEMMA MoveGoesOn ==
  ASSUME Typed, NEW d \in Desks, desk[d] # Idle, NEW at \in Stages, Move(d, at),
         UNCHANGED <<told, cache>>
  PROVE  Moves(d, at)
BY Moved DEF Moves, GoesOn, Continues

LEMMA LookUpDoes ==
  ASSUME Typed, NEW d \in Desks, LookUp(d)
  PROVE  /\ desk[d] # Idle /\ desk[d].at = "gate"
         /\ \/ Moves(d, "proof") /\ cache[desk[d].call].answer = NoAnswer
            \/ \E a \in Answers :
                  /\ TurnAway(d, a) /\ cache[desk[d].call].answer # NoAnswer
                  /\ \/ a.status = 409
                     \/ /\ a.status = cache[desk[d].call].answer.status
                        /\ a.quote = cache[desk[d].call].answer.quote
<1> DEFINE kept == cache[desk[d].call]
           replayed == [kept.answer EXCEPT !.refunded = FALSE]
<1>1. desk[d] # Idle /\ desk[d].at = "gate"
  BY AtAStep DEF LookUp, Stages
<1>2. kept \in Kept
  BY <1>1, DeskFacts DEF Typed
<1>3. ASSUME kept.answer # NoAnswer
      PROVE  replayed \in Answers /\ replayed.status = kept.answer.status
             /\ replayed.quote = kept.answer.quote
  <2>1. kept.answer \in Answers
    BY <1>2, <1>3 DEF Kept
  <2> QED
    BY <2>1 DEF Answers
<1>4. \/ kept.answer = NoAnswer /\ Move(d, "proof") /\ UNCHANGED <<told, cache>>
      \/ kept.answer # NoAnswer /\ TurnAway(d, replayed)
      \/ kept.answer # NoAnswer /\ TurnAway(d, Failed(409))
  BY DEF LookUp
<1> HIDE DEF replayed
<1>5. CASE kept.answer = NoAnswer /\ Move(d, "proof") /\ UNCHANGED <<told, cache>>
  <2>1. Moves(d, "proof")
    BY <1>1, <1>5, MoveGoesOn DEF Stages
  <2> QED
    BY <1>1, <1>5, <2>1
<1>6. CASE kept.answer # NoAnswer /\ TurnAway(d, replayed)
  BY <1>1, <1>3, <1>6
<1>7. CASE kept.answer # NoAnswer /\ TurnAway(d, Failed(409))
  <2>1. \E a \in Answers : TurnAway(d, a) /\ a.status = 409
    BY <1>7, AnswerFacts
  <2> QED
    BY <1>1, <1>7, <2>1
<1> QED
  BY <1>4, <1>5, <1>6, <1>7

LEMMA TakeProofDoes ==
  ASSUME Typed, NEW d \in Desks, TakeProof(d)
  PROVE  /\ desk[d] # Idle /\ desk[d].at = "proof"
         /\ \/ /\ desk[d].call \notin proofs /\ proofs' = proofs \cup {desk[d].call}
               /\ served' = [served EXCEPT ![desk[d].call] = @ + 1]
               /\ Moves(d, IF Kind[desk[d].call] = "negotiate" THEN "negotiate" ELSE "read")
            \/ /\ UNCHANGED <<proofs, served>>
               /\ \E a \in Answers : TurnAway(d, a) /\ a.status = 402
<1>1. desk[d] # Idle /\ desk[d].at = "proof"
  BY AtAStep DEF TakeProof, Stages
<1>2. CASE desk[d].call \in proofs
  <2>1. TurnAway(d, Failed(402)) /\ UNCHANGED <<proofs, served>>
    BY <1>2 DEF TakeProof, ProofTaken
  <2>2. \E a \in Answers : TurnAway(d, a) /\ a.status = 402
    BY <2>1, AnswerFacts
  <2> QED
    BY <1>1, <2>1, <2>2
<1>3. CASE desk[d].call \notin proofs
  <2> DEFINE at == IF Kind[desk[d].call] = "negotiate" THEN "negotiate" ELSE "read"
  <2>1. /\ proofs' = proofs \cup {desk[d].call} /\ served' = [served EXCEPT ![desk[d].call] = @ + 1]
        /\ Move(d, at) /\ UNCHANGED <<told, cache>>
    BY <1>3 DEF TakeProof, ProofTaken
  <2>2. at \in Stages
    BY DEF Stages
  <2> HIDE DEF at
  <2>3. Moves(d, at)
    BY <1>1, <2>1, <2>2, MoveGoesOn
  <2> QED
    BY <1>1, <1>3, <2>1, <2>3 DEF at
<1> QED
  BY <1>2, <1>3

LEMMA FallBackDoes ==
  ASSUME Typed, NEW d \in Desks, FallBack(d)
  PROVE  /\ desk[d] # Idle /\ desk[d].at = "campaign" /\ Moves(d, "sign")
<1>1. desk[d] # Idle /\ desk[d].at = "campaign" /\ Move(d, "sign") /\ UNCHANGED <<told, cache>>
  BY AtAStep DEF FallBack, Stages
<1> QED
  BY <1>1, MoveGoesOn DEF Stages

LEMMA StartNegotiationDoes ==
  ASSUME Typed, NEW d \in Desks, StartNegotiation(d)
  PROVE  /\ desk[d] # Idle /\ desk[d].at = "negotiate"
         /\ \/ Moves(d, "counter") /\ desk[d].on # NoQuote
            \/ \E a \in Answers : Answer(d, a) /\ a.status \in {200, 404, 422}
<1>1. desk[d] # Idle /\ desk[d].at = "negotiate"
  BY AtAStep DEF StartNegotiation, Stages
<1>2. \/ Move(d, "counter") /\ UNCHANGED <<told, cache>> /\ Usable(desk[d].on)
      \/ Answer(d, Refunded(200)) \/ Answer(d, Refunded(UnusableCode(desk[d].on)))
  BY DEF StartNegotiation
<1>3. UnusableCode(desk[d].on) \in {404, 422}
  BY DEF UnusableCode
<1>4. CASE Move(d, "counter") /\ UNCHANGED <<told, cache>> /\ Usable(desk[d].on)
  BY <1>1, <1>4, MoveGoesOn DEF Stages, Usable
<1>5. CASE Answer(d, Refunded(200))
  <2>1. \E a \in Answers : Answer(d, a) /\ a.status = 200
    BY <1>5, AnswerFacts
  <2> QED
    BY <1>1, <2>1
<1>6. CASE Answer(d, Refunded(UnusableCode(desk[d].on)))
  <2>1. \E a \in Answers : Answer(d, a) /\ a.status \in {404, 422}
    BY <1>3, <1>6, AnswerFacts
  <2> QED
    BY <1>1, <2>1
<1> QED
  BY <1>2, <1>4, <1>5, <1>6

LEMMA LoadOrderDoes ==
  ASSUME Typed, NEW d \in Desks, LoadOrder(d)
  PROVE  /\ desk[d] # Idle /\ desk[d].at = "order"
         /\ \/ Moves(d, "commit") /\ desk[d].on # NoQuote
            \/ \E a \in Answers : TurnAway(d, a)
<1>1. desk[d] # Idle /\ desk[d].at = "order"
  BY AtAStep DEF LoadOrder, Stages
<1>2. UnusableCode(desk[d].on) \in {404, 422}
  BY DEF UnusableCode
<1>3. \/ Move(d, "commit") /\ UNCHANGED <<told, cache>> /\ Usable(desk[d].on)
      \/ TurnAway(d, Failed(UnusableCode(desk[d].on)))
  BY DEF LoadOrder
<1>4. CASE Move(d, "commit") /\ UNCHANGED <<told, cache>> /\ Usable(desk[d].on)
  BY <1>1, <1>4, MoveGoesOn DEF Stages, Usable
<1>5. CASE TurnAway(d, Failed(UnusableCode(desk[d].on)))
  <2>1. Failed(UnusableCode(desk[d].on)) \in Answers
    BY <1>2, AnswerFacts
  <2> QED
    BY <1>1, <1>5, <2>1
<1> QED
  BY <1>3, <1>4, <1>5

\* The provider's proposal is applied, or a product is gone.
LEMMA ProposeDoes ==
  ASSUME Typed, NEW d \in Desks, HasLines(d), NEW bps \in Int, Propose(d, bps)
  PROVE  /\ desk[d] # Idle /\ desk[d].at = "campaign"
         /\ \/ \E a \in Answers : Answer(d, a) /\ a.status = 422
            \/ LET lines == ApplyBoundedDiscount(Mins, desk[d].lines, desk[d].total,
                                                 bps, MaxDiscountBps)
               IN  /\ Stocked(desk[d].lines) /\ lines \in AllLines
                   /\ GoesOn(d, "sign", lines, TotalOf(lines), desk[d].rule)
<1> DEFINE lines == ApplyBoundedDiscount(Mins, desk[d].lines, desk[d].total, bps, MaxDiscountBps)
           total == TotalOf(lines)
<1>1. desk[d] # Idle /\ desk[d].at = "campaign" /\ desk[d] \in Requests
  BY AtAStep, DeskFacts DEF Propose, Stages
<1>2. CASE ~Stocked(desk[d].lines)
  <2>1. Answer(d, Failed(422))
    BY <1>2 DEF Propose
  <2>2. \E a \in Answers : Answer(d, a) /\ a.status = 422
    BY <2>1, AnswerFacts
  <2> QED
    BY <1>1, <2>2
<1>3. CASE Stocked(desk[d].lines)
  <2>1. /\ desk' = [desk EXCEPT ![d] = [desk[d] EXCEPT !.lines = lines, !.total = total, !.at = "sign"]]
        /\ UNCHANGED <<told, cache>>
    BY <1>3 DEF Propose
  <2>2. desk[d].lines \in AllLines /\ desk[d].lines \in SomeLines /\ desk[d].total = TotalOf(desk[d].lines)
    BY <1>1, DeskFacts DEF HasLines, Adds
  <2>3. \A i \in DOMAIN desk[d].lines : Mins[desk[d].lines[i].sku] \in Positive
    BY <1>3, <2>2, StockedFacts
  <2>4. lines \in AllLines
    BY <2>2, <2>3, BoundedFacts
  <2>5. lines \in SomeLines /\ total \in Int
    BY <2>4, TotalFacts DEF AllLines, Positive
  <2> HIDE DEF lines, total
  <2>6. Reprices(d, "sign", lines, total, desk[d].rule)
    BY <1>1, <2>1 DEF Requests, Reprices
  <2>7. UNCHANGED <<told, cache>> /\ "sign" \in Stages /\ desk[d].rule \in Positive
    BY <1>1, <2>1, DeskFacts DEF Stages
  <2>8. GoesOn(d, "sign", lines, total, desk[d].rule)
    BY <1>1, <2>5, <2>6, <2>7, Repriced DEF Continues, GoesOn
  <2> QED
    BY <1>1, <1>3, <2>4, <2>8 DEF lines, total
<1> QED
  BY <1>2, <1>3

LEMMA SignedFacts ==
  ASSUME Typed, NEW q \in Signed
  PROVE  /\ q \in QuoteIds /\ quotes[q] \in SignedQuotes /\ quotes[q].lines \in SomeLines
         /\ quotes[q].total \in Int /\ quotes[q].listing \in Listings
         /\ quotes[q].prev \in QuoteIds \cup {NoQuote} /\ quotes[q].edited \in BOOLEAN
         /\ quotes[q].status \in {"active", "superseded", "consumed", "expired"}
<1>1. q \in QuoteIds /\ quotes[q] # Unsigned
  BY DEF Signed, Unsigned
<1>2. quotes[q] \in SignedQuotes
  BY <1>1 DEF Typed
<1> QED
  BY <1>1, <1>2 DEF SignedQuotes

\* A counter-offer is below the quote by the fee at least.
LEMMA CounterDoes ==
  ASSUME Typed, QuotesAdd, NEW d \in Desks, Counter(d), desk[d].on \in Signed
  PROVE  LET row == quotes[desk[d].on] IN
         /\ desk[d] # Idle /\ desk[d].at = "counter"
         /\ \/ \E a \in Answers : Answer(d, a) /\ a.status \in {200, 500}
            \/ LET lines == CounterOffer(Mins, row.lines, row.total, AskedBps, MaxDiscountBps)
               IN  /\ Stocked(row.lines) /\ row.total - TotalOf(lines) >= Fee
                   /\ lines \in AllLines
                   /\ GoesOn(d, "sign", lines, TotalOf(lines), desk[d].rule)
<1> DEFINE row == quotes[desk[d].on]
           lines == CounterOffer(Mins, row.lines, row.total, AskedBps, MaxDiscountBps)
           total == TotalOf(lines)
<1>1. desk[d] # Idle /\ desk[d].at = "counter" /\ desk[d] \in Requests
  BY AtAStep, DeskFacts DEF Counter, Stages
<1>2. row.lines \in AllLines /\ row.lines \in SomeLines /\ row.total = TotalOf(row.lines)
  BY SignedFacts DEF QuotesAdd, Adds
<1> HIDE DEF row
<1>3. CASE ~Stocked(row.lines)
  <2>1. Answer(d, Failed(500))
    BY <1>3 DEF Counter, row
  <2>2. \E a \in Answers : Answer(d, a) /\ a.status = 500
    BY <2>1, AnswerFacts
  <2> QED
    BY <1>1, <2>2
<1>4. CASE Stocked(row.lines) /\ ~WorthTheFee(row.total - total)
  <2>1. Answer(d, Refunded(200))
    BY <1>4 DEF Counter, row
  <2>2. \E a \in Answers : Answer(d, a) /\ a.status = 200
    BY <2>1, AnswerFacts
  <2> QED
    BY <1>1, <2>2
<1>5. CASE Stocked(row.lines) /\ WorthTheFee(row.total - total)
  <2>1. /\ desk' = [desk EXCEPT ![d] = [desk[d] EXCEPT !.lines = lines, !.total = total, !.at = "sign"]]
        /\ UNCHANGED <<told, cache>>
    BY <1>5 DEF Counter, row
  <2>2. \A i \in DOMAIN row.lines : Mins[row.lines[i].sku] \in Positive
    BY <1>2, <1>5, StockedFacts
  <2>3. lines \in AllLines
    BY <1>2, <2>2, CounterFacts
  <2>4. lines \in SomeLines /\ total \in Int
    BY <2>3, TotalFacts DEF AllLines, Positive
  <2> HIDE DEF lines, total
  <2>5. Reprices(d, "sign", lines, total, desk[d].rule)
    BY <1>1, <2>1 DEF Requests, Reprices
  <2>6. UNCHANGED <<told, cache>> /\ "sign" \in Stages /\ desk[d].rule \in Positive
    BY <1>1, <2>1, DeskFacts DEF Stages
  <2>7. GoesOn(d, "sign", lines, total, desk[d].rule)
    BY <1>1, <2>4, <2>5, <2>6, Repriced DEF Continues, GoesOn
  <2>8. row.total - total >= Fee
    BY <1>5 DEF WorthTheFee
  <2> QED
    BY <1>1, <1>5, <2>3, <2>7, <2>8 DEF lines, total, row
<1> QED
  BY <1>3, <1>4, <1>5

\* Signed quotes keep all but their status.
KeepsQuotes ==
    /\ Signed \subseteq Signed' /\ quotes' \in [QuoteIds -> {Unsigned} \cup SignedQuotes]
    /\ \A q \in Signed :
          /\ quotes'[q].lines = quotes[q].lines /\ quotes'[q].total = quotes[q].total
          /\ quotes'[q].prev = quotes[q].prev /\ quotes'[q].listing = quotes[q].listing
          /\ quotes'[q].edited = quotes[q].edited

LEMMA SameQuotes ==
  ASSUME Typed, UNCHANGED quotes
  PROVE  KeepsQuotes /\ Signed' = Signed
BY DEF Typed, KeepsQuotes, Signed

LEMMA StatusChanges ==
  ASSUME Typed, NEW q \in Signed, NEW st \in {"active", "superseded", "consumed", "expired"},
         quotes' = [quotes EXCEPT ![q].status = st]
  PROVE  /\ KeepsQuotes /\ Signed' = Signed /\ quotes'[q].status = st
         /\ \A r \in Signed : r # q => quotes'[r].status = quotes[r].status
<1> DEFINE new == [quotes[q] EXCEPT !.status = st]
<1>1. q \in QuoteIds /\ quotes[q] \in SignedQuotes /\ quotes \in [QuoteIds -> {Unsigned} \cup SignedQuotes]
  BY SignedFacts DEF Typed
<1>2. /\ new \in SignedQuotes /\ new.status = st /\ new.lines = quotes[q].lines
      /\ new.total = quotes[q].total /\ new.prev = quotes[q].prev
      /\ new.listing = quotes[q].listing /\ new.edited = quotes[q].edited
  BY <1>1 DEF SignedQuotes
<1>3. quotes' = [quotes EXCEPT ![q] = new]
  BY <1>1
<1> HIDE DEF new
<1>4. /\ quotes' \in [QuoteIds -> {Unsigned} \cup SignedQuotes] /\ quotes'[q] = new
      /\ \A r \in QuoteIds : r # q => quotes'[r] = quotes[r]
  BY <1>1, <1>2, <1>3
<1>5. Signed' = Signed
  BY <1>2, <1>4 DEF Signed
<1>6. \A r \in Signed : r \in QuoteIds
  BY DEF Signed
<1> QED
  BY <1>2, <1>4, <1>5, <1>6 DEF KeepsQuotes

\* The number of the next quote has not been used.
LEMMA NextQuoteIsNew ==
  ASSUME Typed, Numbered
  PROVE  /\ NextQuote \notin Signed /\ NextQuote \in Nat
         /\ Signed \cup {NextQuote} = 1 .. NextQuote
<1>1. PICK k \in 0 .. MaxQuotes : Signed = 1 .. k
  BY DEF Numbered
<1>2. k \in Nat /\ 1 \in Int /\ Cardinality(1 .. k) = k
  BY <1>1, DeskAssumption, FS_Interval
<1>3. NextQuote = k + 1
  BY <1>1, <1>2 DEF NextQuote
<1> QED
  BY <1>1, <1>2, <1>3

\* The quote at desk d is signed under the next number.
Signs(d) ==
    /\ NextQuote \in QuoteIds \ Signed /\ Signed' = Signed \cup {NextQuote}
    /\ KeepsQuotes
    /\ quotes'[NextQuote].lines = desk[d].lines /\ quotes'[NextQuote].total = desk[d].total
    /\ quotes'[NextQuote].prev = desk[d].on /\ quotes'[NextQuote].listing = desk[d].under
    /\ quotes'[NextQuote].edited = desk[d].edited /\ quotes'[NextQuote].status = "active"
    /\ \A q \in Signed : quotes'[q].status = IF q = desk[d].on THEN "superseded"
                                            ELSE quotes[q].status

LEMMA LastLookDoes ==
  ASSUME Typed, NEW d \in Desks, LastLook(d)
  PROVE  /\ desk[d] # Idle /\ desk[d].at = "sign"
         /\ \/ \E a \in Answers : Answer(d, a) /\ a.status \in {422, 500}
            \/ /\ Stocked(desk[d].lines) /\ AboveMinimum(d)
               /\ GoesOn(d, "write", desk[d].lines, desk[d].total, desk[d].rule)
               /\ desk'[d].under = listing
<1> DEFINE failure == IF desk[d].on = NoQuote THEN 422 ELSE 500
           r == [desk[d] EXCEPT !.under = listing, !.at = "write"]
<1>1. desk[d] # Idle /\ desk[d].at = "sign" /\ desk[d] \in Requests
  BY AtAStep, DeskFacts DEF LastLook, Stages
<1>2. CASE ~Stocked(desk[d].lines) \/ ~AboveMinimum(d)
  <2>1. Answer(d, Failed(failure))
    BY <1>2 DEF LastLook
  <2>2. \E a \in Answers : Answer(d, a) /\ a.status \in {422, 500}
    BY <2>1, AnswerFacts
  <2> QED
    BY <1>1, <2>2
<1>3. CASE Stocked(desk[d].lines) /\ AboveMinimum(d)
  <2>1. desk' = [desk EXCEPT ![d] = r] /\ UNCHANGED <<told, cache>>
    BY <1>3 DEF LastLook
  <2>2. /\ r \in Requests /\ r.at = "write" /\ r.call = desk[d].call /\ r.on = desk[d].on
        /\ r.lines = desk[d].lines /\ r.total = desk[d].total /\ r.rule = desk[d].rule
        /\ r.edited = desk[d].edited /\ r.under = listing
    BY <1>1 DEF Requests, Stages, Typed
  <2> HIDE DEF r
  <2>3. desk \in [Desks -> {Idle} \cup Requests] /\ r # Idle
    BY <2>2, NeverIdle DEF Typed
  <2>4. /\ desk' \in [Desks -> {Idle} \cup Requests] /\ desk'[d] = r
        /\ \A e \in Desks : e # d => desk'[e] = desk[e]
    BY <2>1, <2>2, <2>3
  <2>5. GoesOn(d, "write", desk[d].lines, desk[d].total, desk[d].rule)
    BY <2>1, <2>2, <2>3, <2>4 DEF Continues, GoesOn
  <2> QED
    BY <1>1, <1>3, <2>2, <2>4, <2>5
<1> QED
  BY <1>2, <1>3

LEMMA SignDoes ==
  ASSUME Typed, Numbered, NEW d \in Desks, Sign(d), desk[d].on \in {NoQuote} \cup Signed
  PROVE  /\ desk[d] # Idle /\ desk[d].at = "write"
         /\ Signs(d) /\ \E a \in Answers : Answer(d, a) /\ a.status = 200
<1> DEFINE n == NextQuote
           new == [status |-> "active", lines |-> desk[d].lines, total |-> desk[d].total,
                   prev |-> desk[d].on, listing |-> desk[d].under, edited |-> desk[d].edited]
<1>0. desk[d] # Idle /\ desk[d].at = "write" /\ desk[d] \in Requests
  BY AtAStep, DeskFacts DEF Sign, Stages
<1>1. /\ n \in QuoteIds /\ quotes' = [Superseded(desk[d].on) EXCEPT ![n] = new]
      /\ Answer(d, Quoted(n))
  BY DEF Sign
<1>2. \E a \in Answers : Answer(d, a) /\ a.status = 200
  BY <1>1, AnswerFacts
<1>3. /\ new \in SignedQuotes /\ new.status = "active" /\ new.lines = desk[d].lines
      /\ new.total = desk[d].total /\ new.prev = desk[d].on /\ new.listing = desk[d].under
      /\ new.edited = desk[d].edited
  BY <1>0, DeskFacts DEF SignedQuotes
<1>4. n \notin Signed
  BY NextQuoteIsNew
<1> HIDE DEF n, new
<1> DEFINE old == Superseded(desk[d].on)
<1>5. /\ old \in [QuoteIds -> {Unsigned} \cup SignedQuotes]
      /\ \A q \in QuoteIds : q \notin Signed => old[q] = quotes[q]
      /\ \A q \in Signed :
           /\ old[q] \in SignedQuotes /\ old[q].lines = quotes[q].lines
           /\ old[q].total = quotes[q].total /\ old[q].prev = quotes[q].prev
           /\ old[q].listing = quotes[q].listing /\ old[q].edited = quotes[q].edited
           /\ old[q].status = IF q = desk[d].on THEN "superseded" ELSE quotes[q].status
  <2>1. \A q \in Signed : q \in QuoteIds /\ quotes[q] \in SignedQuotes /\ q # NoQuote
    BY SignedFacts DEF NoQuote, QuoteIds
  <2>2. quotes \in [QuoteIds -> {Unsigned} \cup SignedQuotes]
    BY DEF Typed
  <2>3. CASE desk[d].on = NoQuote
    BY <2>1, <2>2, <2>3 DEF Superseded
  <2>4. CASE desk[d].on # NoQuote
    <3> DEFINE s == [quotes[desk[d].on] EXCEPT !.status = "superseded"]
    <3>1. desk[d].on \in Signed
      BY <2>4
    <3>2. quotes[desk[d].on] \in SignedQuotes /\ desk[d].on \in QuoteIds
      BY <2>1, <3>1
    <3>3. /\ s \in SignedQuotes /\ s.status = "superseded"
          /\ s.lines = quotes[desk[d].on].lines /\ s.total = quotes[desk[d].on].total
          /\ s.prev = quotes[desk[d].on].prev /\ s.listing = quotes[desk[d].on].listing
          /\ s.edited = quotes[desk[d].on].edited
      BY <3>2 DEF SignedQuotes
    <3>4. old = [quotes EXCEPT ![desk[d].on] = s]
      BY <2>4 DEF Superseded
    <3> HIDE DEF s, old
    <3> QED
      BY <2>1, <2>2, <3>1, <3>2, <3>3, <3>4
  <2> QED
    BY <2>3, <2>4
<1>6. quotes' = [old EXCEPT ![n] = new]
  BY <1>1
<1> HIDE DEF old
<1>7. /\ quotes' \in [QuoteIds -> {Unsigned} \cup SignedQuotes] /\ quotes'[n] = new
      /\ \A q \in QuoteIds : q # n => quotes'[q] = old[q]
  BY <1>1, <1>3, <1>5, <1>6
<1>8. \A q \in Signed : q \in QuoteIds /\ q # n
  BY <1>4 DEF Signed
<1>9. Signed' = Signed \cup {n}
  <2>1. new.status # "none"
    BY <1>3
  <2>2. \A q \in Signed : quotes'[q].status # "none"
    BY <1>5, <1>7, <1>8 DEF SignedQuotes
  <2>3. \A q \in QuoteIds \ (Signed \cup {n}) : quotes'[q] = quotes[q]
    BY <1>5, <1>7
  <2> QED
    BY <1>1, <1>7, <1>8, <2>1, <2>2, <2>3 DEF Signed
<1>10. KeepsQuotes /\ \A q \in Signed : quotes'[q].status = IF q = desk[d].on THEN "superseded"
                                                            ELSE quotes[q].status
  BY <1>5, <1>7, <1>8, <1>9 DEF KeepsQuotes
<1>11. Signs(d)
  BY <1>1, <1>3, <1>4, <1>7, <1>9, <1>10 DEF Signs, n
<1> QED
  BY <1>0, <1>2, <1>11

\* An order ends the quote it is placed from.
LEMMA PlaceOrderDoes ==
  ASSUME Typed, NEW d \in Desks, PlaceOrder(d), desk[d].on \in Signed
  PROVE  /\ desk[d] # Idle /\ desk[d].at = "commit"
         /\ \E a \in Answers : Answer(d, a) /\ a.status = 200
         /\ KeepsQuotes /\ Signed' = Signed /\ quotes'[desk[d].on].status = "consumed"
         /\ \A q \in Signed : q # desk[d].on => quotes'[q].status = quotes[q].status
         /\ orders' = orders \cup {[call |-> desk[d].call, quote |-> desk[d].on]}
<1>1. desk[d] # Idle /\ desk[d].at = "commit"
  BY AtAStep DEF PlaceOrder, Stages
<1>2. /\ quotes' = [quotes EXCEPT ![desk[d].on].status = "consumed"]
      /\ orders' = orders \cup {[call |-> desk[d].call, quote |-> desk[d].on]}
      /\ Answer(d, Quoted(desk[d].on))
  BY DEF PlaceOrder, Consumed
<1>3. \E a \in Answers : Answer(d, a) /\ a.status = 200
  BY <1>2, AnswerFacts, SignedFacts
<1>4. /\ KeepsQuotes /\ Signed' = Signed /\ quotes'[desk[d].on].status = "consumed"
      /\ \A q \in Signed : q # desk[d].on => quotes'[q].status = quotes[q].status
  BY <1>2, StatusChanges
<1> QED
  BY <1>1, <1>2, <1>3, <1>4

LEMMA NoStockDoes ==
  ASSUME NEW d \in Desks, NoStock(d)
  PROVE  desk[d] # Idle /\ desk[d].at = "commit" /\ \E a \in Answers : TurnAway(d, a)
<1>1. desk[d] # Idle /\ desk[d].at = "commit" /\ TurnAway(d, Failed(422))
  BY AtAStep DEF NoStock, Stages
<1> QED
  BY <1>1, AnswerFacts

-----------------------------------------------------------------------------
(* What a step at a desk is, prices aside *)

\* From a step of a request to the next one.
Advances(d) ==
    /\ Continues(d) /\ UNCHANGED <<quotes, orders, proofs, served>>
    /\ desk'[d].at \in {"campaign", "sign", "write"} => Adds(desk'[d].lines, desk'[d].total)
    /\ \/ desk[d].at = "gate" /\ desk'[d].at = "proof" /\ cache[desk[d].call].answer = NoAnswer
       \/ desk[d].at \in {"read", "campaign"} /\ desk'[d].at \in {"campaign", "sign"}
       \/ desk[d].at = "negotiate" /\ desk'[d].at = "counter" /\ desk[d].on # NoQuote
       \/ desk[d].at = "counter" /\ desk'[d].at = "sign"
       \/ desk[d].at = "sign" /\ desk'[d].at = "write"
       \/ desk[d].at = "order" /\ desk'[d].at = "commit" /\ desk[d].on # NoQuote

Takes(d) ==
    /\ Continues(d) /\ UNCHANGED <<quotes, orders>>
    /\ desk[d].at = "proof" /\ desk[d].call \notin proofs
    /\ proofs' = proofs \cup {desk[d].call}
    /\ served' = [served EXCEPT ![desk[d].call] = @ + 1]
    /\ desk'[d].at = IF Kind[desk[d].call] = "negotiate" THEN "negotiate" ELSE "read"

Replies(d) ==
    /\ desk[d].at \in {"read", "campaign", "negotiate", "counter", "sign", "write"}
    /\ \E a \in Answers : Answer(d, a) /\ a.status # 0
    /\ UNCHANGED <<orders, proofs, served>>
    /\ \/ UNCHANGED quotes
       \/ desk[d].at = "write" /\ Signs(d)

TurnsAway(d) ==
    /\ desk[d].at \in {"gate", "proof", "order", "commit"}
    /\ \E a \in Answers :
          /\ TurnAway(d, a)
          /\ \/ a.status \in Refusal \/ Kind[desk[d].call] = "order"
             \/ /\ cache[desk[d].call].answer # NoAnswer
                /\ a.status = cache[desk[d].call].answer.status
                /\ a.quote = cache[desk[d].call].answer.quote
    /\ UNCHANGED <<quotes, orders, proofs, served>>

PlacesOrder(d) ==
    /\ desk[d].at = "commit" /\ \E a \in Answers : Answer(d, a)
    /\ KeepsQuotes /\ Signed' = Signed /\ quotes'[desk[d].on].status = "consumed"
    /\ \A q \in Signed : q # desk[d].on => quotes'[q].status = quotes[q].status
    /\ orders' = orders \cup {[call |-> desk[d].call, quote |-> desk[d].on]}
    /\ UNCHANGED <<proofs, served>>

Elsewhere == UNCHANGED <<listing, sent, resends, edits, crashes, stranded>>

LEMMA StepShapes ==
  ASSUME Control, NEW d \in Desks, Step(d)
  PROVE  /\ desk[d] # Idle /\ Elsewhere
         /\ Advances(d) \/ Takes(d) \/ Replies(d) \/ TurnsAway(d) \/ PlacesOrder(d)
<1>1. Typed /\ Numbered /\ QuotesAdd
  BY DEF Control
<1>2. desk[d] # Idle => AtItsStep(d) /\ HasLines(d)
  BY DEF Control
<1>3. CASE LookUp(d)
  <2>1. UNCHANGED <<quotes, orders, proofs, served>> /\ Elsewhere
    BY <1>3 DEF LookUp, Elsewhere
  <2>2. /\ desk[d] # Idle /\ desk[d].at = "gate"
        /\ \/ Moves(d, "proof") /\ cache[desk[d].call].answer = NoAnswer
           \/ \E a \in Answers :
                 /\ TurnAway(d, a) /\ cache[desk[d].call].answer # NoAnswer
                 /\ \/ a.status = 409
                    \/ /\ a.status = cache[desk[d].call].answer.status
                       /\ a.quote = cache[desk[d].call].answer.quote
    BY <1>1, <1>3, LookUpDoes
  <2>3. CASE Moves(d, "proof") /\ cache[desk[d].call].answer = NoAnswer
    <3>1. Advances(d)
      BY <2>1, <2>2, <2>3 DEF Moves, GoesOn, Advances
    <3> QED
      BY <2>1, <2>2, <3>1
  <2>4. ASSUME NEW a \in Answers, TurnAway(d, a), cache[desk[d].call].answer # NoAnswer,
               \/ a.status = 409
               \/ /\ a.status = cache[desk[d].call].answer.status
                  /\ a.quote = cache[desk[d].call].answer.quote
        PROVE  TurnsAway(d)
    BY <2>1, <2>2, <2>4 DEF TurnsAway, Refusal
  <2> QED
    BY <2>1, <2>2, <2>3, <2>4
<1>4. CASE TakeProof(d)
  <2>1. UNCHANGED <<quotes, orders>> /\ Elsewhere
    BY <1>4 DEF TakeProof, Elsewhere
  <2>2. /\ desk[d] # Idle /\ desk[d].at = "proof"
        /\ \/ /\ desk[d].call \notin proofs /\ proofs' = proofs \cup {desk[d].call}
              /\ served' = [served EXCEPT ![desk[d].call] = @ + 1]
              /\ Moves(d, IF Kind[desk[d].call] = "negotiate" THEN "negotiate" ELSE "read")
           \/ /\ UNCHANGED <<proofs, served>>
              /\ \E a \in Answers : TurnAway(d, a) /\ a.status = 402
    BY <1>1, <1>4, TakeProofDoes
  <2>3. CASE /\ desk[d].call \notin proofs /\ proofs' = proofs \cup {desk[d].call}
             /\ served' = [served EXCEPT ![desk[d].call] = @ + 1]
             /\ Moves(d, IF Kind[desk[d].call] = "negotiate" THEN "negotiate" ELSE "read")
    <3>1. Takes(d)
      BY <2>1, <2>2, <2>3 DEF Moves, GoesOn, Takes
    <3> QED
      BY <2>1, <2>2, <3>1
  <2>4. CASE /\ UNCHANGED <<proofs, served>>
             /\ \E a \in Answers : TurnAway(d, a) /\ a.status = 402
    <3>1. TurnsAway(d)
      BY <2>1, <2>2, <2>4 DEF TurnsAway, Refusal
    <3> QED
      BY <2>1, <2>2, <3>1
  <2> QED
    BY <2>2, <2>3, <2>4
<1>5. CASE ReadPrices(d)
  <2>1. UNCHANGED <<quotes, orders, proofs, served>> /\ Elsewhere
    BY <1>5 DEF ReadPrices, Elsewhere
  <2>2. desk[d] # Idle /\ desk[d].at = "read"
    BY <1>1, <1>5, ReadPricesDoes DEF ReadPrices
  <2>3. CASE \E a \in Answers : Answer(d, a) /\ a.status = 422
    <3>1. Replies(d)
      BY <2>1, <2>2, <2>3 DEF Replies
    <3> QED
      BY <2>1, <2>2, <3>1
  <2>4. CASE ~\E a \in Answers : Answer(d, a) /\ a.status = 422
    <3>1. /\ Continues(d) /\ Available # {} /\ desk'[d].lines = ListLines(Available)
          /\ desk'[d].total = TotalOf(ListLines(Available))
          /\ desk'[d].at \in {"campaign", "sign"}
      BY <1>1, <1>5, <2>4, ReadPricesDoes
    <3>2. Adds(desk'[d].lines, desk'[d].total)
      BY <1>1, <3>1, ListLinesFacts DEF Adds
    <3>3. Advances(d)
      BY <2>1, <2>2, <3>1, <3>2 DEF Advances
    <3> QED
      BY <2>1, <2>2, <3>3
  <2> QED
    BY <2>3, <2>4
<1>6. CASE ApplyCampaign(d)
  <2>1. UNCHANGED <<quotes, orders, proofs, served>> /\ Elsewhere
    BY <1>6 DEF ApplyCampaign, Elsewhere
  <2>2. desk[d] # Idle /\ desk[d].at = "campaign" /\ HasLines(d)
    BY <1>2, <1>6, AtAStep DEF ApplyCampaign, Stages
  <2>3. CASE \E a \in Answers : Answer(d, a) /\ a.status = 422
    <3>1. Replies(d)
      BY <2>1, <2>2, <2>3 DEF Replies
    <3> QED
      BY <2>1, <2>2, <3>1
  <2>4. CASE ~\E a \in Answers : Answer(d, a) /\ a.status = 422
    <3>1. /\ Continues(d) /\ desk'[d].at = "campaign"
          /\ Adds(desk'[d].lines, desk'[d].total)
      <4>1. Adds(desk[d].lines, desk[d].total)
        BY <2>2 DEF HasLines
      <4> QED
        BY <1>1, <1>6, <2>2, <2>4, <4>1, ApplyCampaignDoes DEF Adds
    <3>2. Advances(d)
      BY <2>1, <2>2, <3>1 DEF Advances
    <3> QED
      BY <2>1, <2>2, <3>2
  <2> QED
    BY <2>3, <2>4
<1>7. CASE \E bps \in Proposals : Propose(d, bps)
  <2>1. PICK bps \in Proposals : Propose(d, bps)
    BY <1>7
  <2>2. UNCHANGED <<quotes, orders, proofs, served>> /\ Elsewhere /\ bps \in Int
    BY <2>1, DeskAssumption DEF Propose, Elsewhere
  <2>3. desk[d] # Idle /\ desk[d].at = "campaign" /\ HasLines(d)
    BY <1>2, <2>1, AtAStep DEF Propose, Stages
  <2>4. CASE \E a \in Answers : Answer(d, a) /\ a.status = 422
    <3>1. Replies(d)
      BY <2>2, <2>3, <2>4 DEF Replies
    <3> QED
      BY <2>2, <2>3, <3>1
  <2>5. CASE ~\E a \in Answers : Answer(d, a) /\ a.status = 422
    <3>1. /\ Continues(d) /\ desk'[d].at = "sign" /\ Adds(desk'[d].lines, desk'[d].total)
      BY <1>1, <2>1, <2>2, <2>3, <2>5, ProposeDoes DEF GoesOn, Adds
    <3>2. Advances(d)
      BY <2>2, <2>3, <3>1 DEF Advances
    <3> QED
      BY <2>2, <2>3, <3>2
  <2> QED
    BY <2>4, <2>5
<1>8. CASE FallBack(d)
  <2>1. UNCHANGED <<quotes, orders, proofs, served>> /\ Elsewhere
    BY <1>8 DEF FallBack, Elsewhere
  <2>2. desk[d] # Idle /\ desk[d].at = "campaign" /\ Moves(d, "sign")
    BY <1>1, <1>8, FallBackDoes
  <2>3. Adds(desk[d].lines, desk[d].total)
    BY <1>2, <2>2 DEF HasLines
  <2>4. Advances(d)
    BY <2>1, <2>2, <2>3 DEF Advances, Moves, GoesOn
  <2> QED
    BY <2>1, <2>2, <2>4
<1>9. CASE StartNegotiation(d)
  <2>1. UNCHANGED <<quotes, orders, proofs, served>> /\ Elsewhere
    BY <1>9 DEF StartNegotiation, Elsewhere
  <2>2. /\ desk[d] # Idle /\ desk[d].at = "negotiate"
        /\ \/ Moves(d, "counter") /\ desk[d].on # NoQuote
           \/ \E a \in Answers : Answer(d, a) /\ a.status \in {200, 404, 422}
    BY <1>1, <1>9, StartNegotiationDoes
  <2>3. CASE Moves(d, "counter") /\ desk[d].on # NoQuote
    <3>1. Advances(d)
      BY <2>1, <2>2, <2>3 DEF Advances, Moves, GoesOn
    <3> QED
      BY <2>1, <2>2, <3>1
  <2>4. CASE \E a \in Answers : Answer(d, a) /\ a.status \in {200, 404, 422}
    <3>1. Replies(d)
      BY <2>1, <2>2, <2>4 DEF Replies
    <3> QED
      BY <2>1, <2>2, <3>1
  <2> QED
    BY <2>2, <2>3, <2>4
<1>10. CASE Counter(d)
  <2>1. UNCHANGED <<quotes, orders, proofs, served>> /\ Elsewhere
    BY <1>10 DEF Counter, Elsewhere
  <2>2. desk[d] # Idle /\ desk[d].at = "counter"
    BY <1>10, AtAStep DEF Counter, Stages
  <2>3. desk[d].on \in Signed
    BY <1>2, <2>2 DEF AtItsStep
  <2>4. CASE \E a \in Answers : Answer(d, a) /\ a.status \in {200, 500}
    <3>1. Replies(d)
      BY <2>1, <2>2, <2>4 DEF Replies
    <3> QED
      BY <2>1, <2>2, <3>1
  <2>5. CASE ~\E a \in Answers : Answer(d, a) /\ a.status \in {200, 500}
    <3>1. /\ Continues(d) /\ desk'[d].at = "sign" /\ Adds(desk'[d].lines, desk'[d].total)
      BY <1>1, <1>10, <2>3, <2>5, CounterDoes DEF GoesOn, Adds
    <3>2. Advances(d)
      BY <2>1, <2>2, <3>1 DEF Advances
    <3> QED
      BY <2>1, <2>2, <3>2
  <2> QED
    BY <2>4, <2>5
<1>11. CASE LastLook(d)
  <2>1. UNCHANGED <<quotes, orders, proofs, served>> /\ Elsewhere
    BY <1>11 DEF LastLook, Elsewhere
  <2>2. desk[d] # Idle /\ desk[d].at = "sign"
    BY <1>11, AtAStep DEF LastLook, Stages
  <2>3. CASE \E a \in Answers : Answer(d, a) /\ a.status \in {422, 500}
    <3>1. Replies(d)
      BY <2>1, <2>2, <2>3 DEF Replies
    <3> QED
      BY <2>1, <2>2, <3>1
  <2>4. CASE ~\E a \in Answers : Answer(d, a) /\ a.status \in {422, 500}
    <3>1. GoesOn(d, "write", desk[d].lines, desk[d].total, desk[d].rule)
      BY <1>1, <1>11, <2>4, LastLookDoes
    <3>2. Adds(desk[d].lines, desk[d].total)
      BY <1>2, <2>2 DEF HasLines
    <3>3. Advances(d)
      BY <2>1, <2>2, <3>1, <3>2 DEF Advances, GoesOn
    <3> QED
      BY <2>1, <2>2, <3>3
  <2> QED
    BY <2>3, <2>4
<1>15. CASE Sign(d)
  <2>1. UNCHANGED <<orders, proofs, served>> /\ Elsewhere
    BY <1>15 DEF Sign, Elsewhere
  <2>2. desk[d] # Idle /\ desk[d].at = "write"
    BY <1>15, AtAStep DEF Sign, Stages
  <2>3. desk[d].on \in {NoQuote} \cup Signed
    BY <1>2, <2>2 DEF AtItsStep
  <2>4. Signs(d) /\ \E a \in Answers : Answer(d, a) /\ a.status = 200
    BY <1>1, <1>15, <2>3, SignDoes
  <2>5. Replies(d)
    BY <2>1, <2>2, <2>4 DEF Replies
  <2> QED
    BY <2>1, <2>2, <2>5
<1>12. CASE LoadOrder(d)
  <2>1. UNCHANGED <<quotes, orders, proofs, served>> /\ Elsewhere
    BY <1>12 DEF LoadOrder, Elsewhere
  <2>2. /\ desk[d] # Idle /\ desk[d].at = "order"
        /\ \/ Moves(d, "commit") /\ desk[d].on # NoQuote
           \/ \E a \in Answers : TurnAway(d, a)
    BY <1>1, <1>12, LoadOrderDoes
  <2>3. Kind[desk[d].call] = "order"
    BY <1>2, <2>2 DEF AtItsStep
  <2>4. CASE Moves(d, "commit") /\ desk[d].on # NoQuote
    <3>1. Advances(d)
      BY <2>1, <2>2, <2>4 DEF Advances, Moves, GoesOn
    <3> QED
      BY <2>1, <2>2, <3>1
  <2>5. CASE \E a \in Answers : TurnAway(d, a)
    <3>1. TurnsAway(d)
      BY <2>1, <2>2, <2>3, <2>5 DEF TurnsAway
    <3> QED
      BY <2>1, <2>2, <3>1
  <2> QED
    BY <2>2, <2>4, <2>5
<1>13. CASE NoStock(d)
  <2>1. UNCHANGED <<quotes, orders, proofs, served>> /\ Elsewhere
    BY <1>13 DEF NoStock, Elsewhere
  <2>2. desk[d] # Idle /\ desk[d].at = "commit" /\ \E a \in Answers : TurnAway(d, a)
    BY <1>13, NoStockDoes
  <2>3. Kind[desk[d].call] = "order"
    BY <1>2, <2>2 DEF AtItsStep
  <2>4. TurnsAway(d)
    BY <2>1, <2>2, <2>3 DEF TurnsAway
  <2> QED
    BY <2>1, <2>2, <2>4
<1>14. CASE PlaceOrder(d)
  <2>1. UNCHANGED <<proofs, served>> /\ Elsewhere
    BY <1>14 DEF PlaceOrder, Elsewhere
  <2>2. desk[d] # Idle /\ desk[d].at = "commit"
    BY <1>14, AtAStep DEF PlaceOrder, Stages
  <2>3. desk[d].on \in Signed
    BY <1>2, <2>2 DEF AtItsStep
  <2>4. PlacesOrder(d)
    BY <1>1, <1>14, <2>1, <2>3, PlaceOrderDoes DEF PlacesOrder
  <2> QED
    BY <2>1, <2>2, <2>4
<1> QED
  BY <1>3, <1>4, <1>5, <1>6, <1>7, <1>8, <1>9, <1>10, <1>11, <1>12, <1>13, <1>14, <1>15 DEF Step

Shape(d) == Advances(d) \/ Takes(d) \/ Replies(d) \/ TurnsAway(d) \/ PlacesOrder(d)

LEMMA RepliesLeave ==
  ASSUME Typed, NEW d \in Desks, desk[d] # Idle, Replies(d) \/ TurnsAway(d) \/ PlacesOrder(d)
  PROVE  /\ \E a \in Answers : Leaves(d, a)
         /\ desk' \in [Desks -> {Idle} \cup Requests]
         /\ told' \in [Calls -> SUBSET Answers] /\ cache' \in [Calls -> Kept]
         /\ desk'[d] = Idle /\ \A e \in Desks : e # d => desk'[e] = desk[e]
<1>1. PICK a \in Answers : Answer(d, a) \/ TurnAway(d, a)
  BY DEF Replies, TurnsAway, PlacesOrder
<1>2. Leaves(d, a)
  BY <1>1, AnswerLeaves, TurnAwayLeaves
<1>3. /\ desk' \in [Desks -> {Idle} \cup Requests]
      /\ told' \in [Calls -> SUBSET Answers] /\ cache' \in [Calls -> Kept]
      /\ desk'[d] = Idle /\ \A e \in Desks : e # d => desk'[e] = desk[e]
  BY <1>2, Left
<1> QED
  BY <1>2, <1>3

LEMMA ShapeQuotes ==
  ASSUME Control, NEW d \in Desks, desk[d] # Idle, Shape(d)
  PROVE  KeepsQuotes /\ Numbered' /\ (Signed' = Signed \/ Signs(d))
<1>1. Typed /\ Numbered
  BY DEF Control
<1>2. CASE UNCHANGED quotes
  BY <1>1, <1>2, SameQuotes DEF Numbered
<1>3. CASE PlacesOrder(d)
  BY <1>1, <1>3 DEF PlacesOrder, Numbered
<1>4. CASE Signs(d)
  <2>1. Signed' = 1 .. NextQuote /\ NextQuote \in 0 .. MaxQuotes
    <3>1. Signed' = Signed \cup {NextQuote} /\ NextQuote \in QuoteIds
      BY <1>4 DEF Signs
    <3>2. NextQuote \in 0 .. MaxQuotes
      BY <3>1, DeskAssumption DEF QuoteIds
    <3> QED
      BY <1>1, <3>1, <3>2, NextQuoteIsNew
  <2> DEFINE k == NextQuote
  <2>2. \E i \in 0 .. MaxQuotes : Signed' = 1 .. i
    BY <2>1
  <2> QED
    BY <1>4, <2>2 DEF Signs, Numbered
<1> QED
  BY <1>2, <1>3, <1>4 DEF Shape, Advances, Takes, Replies, TurnsAway

LEMMA ShapeTypes ==
  ASSUME Control, NEW d \in Desks, desk[d] # Idle, Elsewhere, Shape(d)
  PROVE  Typed' /\ \A e \in Desks : e # d => desk'[e] = desk[e]
<1>1. Typed
  BY DEF Control
<1>2. desk[d].call \in Calls /\ desk[d].on \in QuoteIds \cup {NoQuote}
  BY <1>1, DeskFacts
<1>3. /\ desk' \in [Desks -> {Idle} \cup Requests] /\ \A e \in Desks : e # d => desk'[e] = desk[e]
      /\ told' \in [Calls -> SUBSET Answers] /\ cache' \in [Calls -> Kept]
  <2>1. CASE Continues(d)
    BY <1>1, <2>1 DEF Continues, Typed
  <2>2. CASE ~Continues(d)
    BY <1>1, <2>2, RepliesLeave DEF Shape, Advances, Takes
  <2> QED
    BY <2>1, <2>2
<1>4. quotes' \in [QuoteIds -> {Unsigned} \cup SignedQuotes]
  BY ShapeQuotes DEF KeepsQuotes
<1>5. proofs' \in SUBSET Calls /\ served' \in [Calls -> Nat]
  <2>1. CASE UNCHANGED <<proofs, served>>
    BY <1>1, <2>1 DEF Typed
  <2>2. CASE Takes(d)
    <3>1. served[desk[d].call] + 1 \in Nat
      BY <1>1, <1>2 DEF Typed
    <3> QED
      BY <1>1, <1>2, <2>2, <3>1 DEF Takes, Typed
  <2> QED
    BY <2>1, <2>2 DEF Shape, Advances, Replies, TurnsAway, PlacesOrder
<1>6. orders' \in SUBSET [call : Calls, quote : QuoteIds]
  <2>1. CASE UNCHANGED orders
    BY <1>1, <2>1 DEF Typed
  <2>2. CASE PlacesOrder(d)
    <3>1. desk[d].on \in QuoteIds
      BY <1>2, <2>2 DEF PlacesOrder, Control, AtItsStep
    <3> QED
      BY <1>1, <1>2, <2>2, <3>1 DEF PlacesOrder, Typed
  <2> QED
    BY <2>1, <2>2 DEF Shape, Advances, Takes, Replies, TurnsAway
<1>7. UNCHANGED <<listing, sent, resends, edits, crashes, stranded>>
  BY DEF Elsewhere
<1> QED
  BY <1>1, <1>3, <1>4, <1>5, <1>6, <1>7 DEF Typed

\* A desk another request's step leaves alone.
LEMMA OtherDesk ==
  ASSUME KeepsQuotes, NEW e \in Desks, desk'[e] = desk[e], AtItsStep(e), HasLines(e)
  PROVE  AtItsStep(e)' /\ HasLines(e)'
BY DEF KeepsQuotes, AtItsStep, HasLines

\* The desk that takes a step.
LEMMA ThisDesk ==
  ASSUME Control, NEW d \in Desks, desk[d] # Idle, Advances(d) \/ Takes(d)
  PROVE  AtItsStep(d)' /\ HasLines(d)'
<1>1. Typed /\ AtItsStep(d) /\ HasLines(d)
  BY DEF Control
<1>2. Signed' = Signed
  BY <1>1, SameQuotes DEF Advances, Takes
<1>3. Kind[desk[d].call] \in Kinds
  BY <1>1, DeskFacts, DeskAssumption
<1>4. CASE Takes(d)
  BY <1>1, <1>2, <1>3, <1>4 DEF Takes, Continues, AtItsStep, HasLines, Kinds
<1>5. CASE Advances(d)
  <2>1. HasLines(d)'
    BY <1>5 DEF Advances, HasLines
  <2>2. desk'[d].call = desk[d].call /\ desk'[d].on = desk[d].on
    BY <1>5 DEF Advances, Continues
  <2>3. \/ desk[d].at = "gate" /\ desk'[d].at = "proof"
        \/ desk[d].at \in {"read", "campaign"} /\ desk'[d].at \in {"campaign", "sign"}
        \/ desk[d].at = "negotiate" /\ desk'[d].at = "counter" /\ desk[d].on # NoQuote
        \/ desk[d].at = "counter" /\ desk'[d].at = "sign"
        \/ desk[d].at = "sign" /\ desk'[d].at = "write"
        \/ desk[d].at = "order" /\ desk'[d].at = "commit" /\ desk[d].on # NoQuote
    BY <1>5 DEF Advances
  <2>4. AtItsStep(d)'
    BY <1>1, <1>2, <1>3, <2>2, <2>3 DEF AtItsStep, Kinds
  <2> QED
    BY <2>1, <2>4
<1> QED
  BY <1>4, <1>5

LEMMA ShapeKeepsControl ==
  ASSUME Control, NEW d \in Desks, desk[d] # Idle, Elsewhere, Shape(d)
  PROVE  Control'
<1>1. Typed /\ QuotesAdd /\ PrevKnown /\ OrdersAreKnown /\ AtItsStep(d) /\ HasLines(d)
  BY DEF Control
<1>2. Typed' /\ Numbered' /\ KeepsQuotes /\ (Signed' = Signed \/ Signs(d))
      /\ \A e \in Desks : e # d => desk'[e] = desk[e]
  BY ShapeTypes, ShapeQuotes
<1>3. QuotesAdd'
  <2>1. CASE Signed' = Signed
    BY <1>1, <1>2, <2>1 DEF QuotesAdd, KeepsQuotes
  <2>2. CASE Signs(d) /\ Signed' # Signed
    <3>1. desk[d].at = "write"
      BY <1>2, <2>2 DEF Shape, Advances, Takes, Replies, TurnsAway, PlacesOrder, Signed
    <3>2. Adds(desk[d].lines, desk[d].total)
      BY <1>1, <3>1 DEF HasLines
    <3> QED
      BY <1>1, <1>2, <2>2, <3>2 DEF QuotesAdd, KeepsQuotes, Signs
  <2> QED
    BY <1>2, <2>1, <2>2
<1>4. PrevKnown'
  <2>1. CASE Signed' = Signed
    BY <1>1, <1>2, <2>1 DEF PrevKnown, KeepsQuotes
  <2>2. CASE Signs(d)
    <3>1. desk[d].on \in {NoQuote} \cup Signed
      BY <1>1 DEF AtItsStep
    <3> QED
      BY <1>1, <1>2, <2>2, <3>1 DEF PrevKnown, KeepsQuotes, Signs
  <2> QED
    BY <1>2, <2>1, <2>2
<1>5. OrdersAreKnown'
  <2>0. stranded' \subseteq Signed'
    BY <1>1, <1>2 DEF OrdersAreKnown, Elsewhere, KeepsQuotes
  <2>1. CASE UNCHANGED orders
    BY <1>1, <1>2, <2>0, <2>1 DEF OrdersAreKnown, KeepsQuotes
  <2>2. CASE PlacesOrder(d)
    <3>1. desk[d].on \in Signed
      BY <1>1, <2>2 DEF PlacesOrder, AtItsStep
    <3> QED
      BY <1>1, <1>2, <2>0, <2>2, <3>1 DEF OrdersAreKnown, PlacesOrder
  <2> QED
    BY <2>1, <2>2 DEF Shape, Advances, Takes, Replies, TurnsAway
<1>6. ASSUME NEW e \in Desks, desk'[e] # Idle
      PROVE  AtItsStep(e)' /\ HasLines(e)'
  <2>1. CASE e # d
    <3>1. desk'[e] = desk[e] /\ AtItsStep(e) /\ HasLines(e)
      BY <1>2, <1>6, <2>1 DEF Control
    <3> QED
      BY <1>2, <3>1, OtherDesk
  <2>2. CASE e = d
    <3>1. Advances(d) \/ Takes(d)
      BY <1>1, <1>6, <2>2, RepliesLeave DEF Shape
    <3>2. AtItsStep(d)' /\ HasLines(d)'
      BY <3>1, ThisDesk
    <3> QED
      BY <2>2, <3>2
  <2> QED
    BY <2>1, <2>2
<1> QED
  BY <1>2, <1>3, <1>4, <1>5, <1>6 DEF Control

\* Steps that leave every quote as it is but for a status, and every request but
\* for its mark of an edit.
LEMMA OutsideKeepsControl ==
  ASSUME Control, Typed', KeepsQuotes, Signed' = Signed, UNCHANGED orders,
         UNCHANGED stranded \/ stranded' \subseteq Signed,
         \A e \in Desks : desk'[e] # Idle => AtItsStep(e)' /\ HasLines(e)'
  PROVE  Control'
<1>1. QuotesAdd' /\ PrevKnown' /\ OrdersAreKnown' /\ Numbered'
  BY DEF Control, QuotesAdd, PrevKnown, OrdersAreKnown, Numbered, KeepsQuotes
<1> QED
  BY <1>1 DEF Control

LEMMA SendKeepsControl ==
  ASSUME Control, NEW c \in Calls, NEW on \in QuoteIds \cup {NoQuote}, NEW d \in Desks,
         Send(c, on, d)
  PROVE  /\ Control' /\ KeepsQuotes /\ Signed' = Signed
         /\ desk[d] = Idle /\ desk'[d].at \in {"gate", "order"} /\ desk'[d] # Idle
         /\ \A e \in Desks : e # d => desk'[e] = desk[e]
<1> DEFINE new == [at |-> IF Kind[c] = "order" THEN "order" ELSE "gate",
                   call |-> c, on |-> on, lines |-> NoLines,
                   total |-> 0, rule |-> 1, under |-> listing, edited |-> FALSE]
<1>1. Typed
  BY DEF Control
<1>2. /\ desk[d] = Idle /\ desk' = [desk EXCEPT ![d] = new] /\ sent' = sent \cup {c}
      /\ resends' = (IF c \in sent THEN resends + 1 ELSE resends)
      /\ (c \notin sent \/ resends < MaxResends)
      /\ on \in {NoQuote} \cup (IF Kind[c] \in {"negotiate", "order"} THEN Signed ELSE {})
      /\ UNCHANGED <<listing, quotes, proofs, cache, orders, served, told, edits, crashes, stranded>>
  BY DEF Send
<1>3. NoLines \in SomeLines
  <2>1. NoLines \in [{} -> Priced] /\ {} \in SUBSET Positions
    BY DEF NoLines
  <2> QED
    BY <2>1 DEF SomeLines
<1>4. /\ new \in Requests /\ new.at = (IF Kind[c] = "order" THEN "order" ELSE "gate")
      /\ new.call = c /\ new.on = on
  BY <1>1, <1>3 DEF Requests, Stages, Positive, Typed
<1> HIDE DEF new
<1>5. /\ desk' \in [Desks -> {Idle} \cup Requests] /\ desk'[d] = new
      /\ \A e \in Desks : e # d => desk'[e] = desk[e]
  BY <1>1, <1>2, <1>4 DEF Typed
<1>6. KeepsQuotes /\ Signed' = Signed
  BY <1>1, <1>2, SameQuotes
<1>7. resends' \in 0 .. MaxResends
  BY <1>1, <1>2, DeskAssumption DEF Typed
<1>8. Typed'
  BY <1>1, <1>2, <1>5, <1>7 DEF Typed
<1>9. ASSUME NEW e \in Desks, desk'[e] # Idle
      PROVE  AtItsStep(e)' /\ HasLines(e)'
  <2>1. CASE e # d
    BY <1>5, <1>6, <1>9, <2>1, OtherDesk DEF Control
  <2>2. CASE e = d
    <3>1. desk'[e].at \in {"gate", "order"} /\ (desk'[e].at = "order" <=> Kind[c] = "order")
          /\ desk'[e].call = c /\ desk'[e].on = on
      BY <1>4, <1>5, <2>2
    <3>2. Kind[c] \in Kinds
      BY DeskAssumption
    <3> QED
      BY <1>2, <1>6, <3>1, <3>2 DEF AtItsStep, HasLines, Kinds
  <2> QED
    BY <2>1, <2>2
<1>10. Control'
  BY <1>2, <1>6, <1>8, <1>9, OutsideKeepsControl
<1>11. desk'[d].at \in {"gate", "order"} /\ desk'[d] # Idle
  BY <1>4, <1>5, NeverIdle
<1> QED
  BY <1>2, <1>5, <1>6, <1>10, <1>11

LEMMA ExpiryKeepsControl ==
  ASSUME Control, NEW q \in QuoteIds, QuoteExpires(q)
  PROVE  /\ Control' /\ KeepsQuotes /\ Signed' = Signed
         /\ q \in Signed /\ quotes[q].status = "active" /\ quotes'[q].status = "expired"
         /\ \A r \in Signed : r # q => quotes'[r].status = quotes[r].status
<1>1. /\ quotes[q].status = "active" /\ quotes' = [quotes EXCEPT ![q].status = "expired"]
      /\ UNCHANGED <<listing, proofs, cache, orders, desk, served, told, sent, resends, edits, crashes, stranded>>
  BY DEF QuoteExpires
<1>2. Typed /\ q \in Signed
  BY <1>1 DEF Control, Signed
<1>3. /\ KeepsQuotes /\ Signed' = Signed /\ quotes'[q].status = "expired"
      /\ \A r \in Signed : r # q => quotes'[r].status = quotes[r].status
  BY <1>1, <1>2, StatusChanges
<1>4. Typed'
  BY <1>1, <1>2, <1>3 DEF Typed, KeepsQuotes
<1>5. \A e \in Desks : desk'[e] # Idle => AtItsStep(e)' /\ HasLines(e)'
  BY <1>1, <1>3, OtherDesk DEF Control
<1>6. Control'
  BY <1>1, <1>3, <1>4, <1>5, OutsideKeepsControl
<1> QED
  BY <1>1, <1>2, <1>3, <1>6

LEMMA EditKeepsControl ==
  ASSUME Control, NEW l \in Listings, Edit(l)
  PROVE  /\ Control' /\ KeepsQuotes /\ Signed' = Signed
         /\ \A d \in Desks : (desk[d] = Idle <=> desk'[d] = Idle)
         /\ \A d \in Desks : desk[d] # Idle =>
               /\ desk'[d].at = desk[d].at /\ desk'[d].call = desk[d].call
               /\ desk'[d].on = desk[d].on /\ desk'[d].lines = desk[d].lines
               /\ desk'[d].total = desk[d].total /\ desk'[d].rule = desk[d].rule
               /\ desk'[d].under = desk[d].under
               /\ desk'[d].edited \/ (desk[d].at = "write" /\ desk'[d].edited = desk[d].edited)
<1>1. /\ listing' = l /\ edits < MaxEdits /\ edits' = edits + 1
      /\ desk' = [d \in Desks |-> IF desk[d] = Idle THEN Idle
                                  ELSE [desk[d] EXCEPT !.edited = @ \/ desk[d].at # "write"]]
      /\ UNCHANGED <<quotes, proofs, cache, orders, served, told, sent, resends, crashes, stranded>>
  BY DEF Edit
<1>2. Typed
  BY DEF Control
<1>3. KeepsQuotes /\ Signed' = Signed
  BY <1>1, <1>2, SameQuotes
<1>4. ASSUME NEW d \in Desks
      PROVE  /\ desk'[d] \in {Idle} \cup Requests
             /\ desk[d] = Idle <=> desk'[d] = Idle
             /\ desk[d] # Idle =>
                  /\ desk'[d].at = desk[d].at /\ desk'[d].call = desk[d].call
                  /\ desk'[d].on = desk[d].on /\ desk'[d].lines = desk[d].lines
                  /\ desk'[d].total = desk[d].total /\ desk'[d].rule = desk[d].rule
                  /\ desk'[d].under = desk[d].under
                  /\ desk'[d].edited \/ (desk[d].at = "write" /\ desk'[d].edited = desk[d].edited)
  <2>1. CASE desk[d] = Idle
    BY <1>1, <2>1
  <2>2. CASE desk[d] # Idle
    <3> DEFINE mark == (desk[d].edited \/ desk[d].at # "write")
               r == [desk[d] EXCEPT !.edited = mark]
    <3>1. /\ r \in Requests /\ r.at = desk[d].at /\ r.call = desk[d].call /\ r.on = desk[d].on
          /\ r.lines = desk[d].lines /\ r.total = desk[d].total /\ r.rule = desk[d].rule
          /\ r.under = desk[d].under /\ r.edited = mark
      <4>1. mark \in BOOLEAN
        BY Zenon
      <4> HIDE DEF mark
      <4> QED
        BY <1>2, <2>2, <4>1, DeskFacts DEF Requests
    <3>2. desk'[d] = r
      BY <1>1, <2>2
    <3>3. r.edited \/ (desk[d].at = "write" /\ r.edited = desk[d].edited)
      <4>1. desk[d].edited \in BOOLEAN
        BY <1>2, <2>2, DeskFacts
      <4>2. CASE desk[d].at = "write"
        <5>1. mark <=> desk[d].edited
          BY <4>2
        <5>2. mark = desk[d].edited
          BY <4>1, <5>1, Zenon
        <5> QED
          BY <3>1, <4>2, <5>2, Zenon
      <4>3. CASE desk[d].at # "write"
        BY <3>1, <4>3, Zenon
      <4> QED
        BY <4>2, <4>3
    <3> HIDE DEF r
    <3>4. desk'[d].edited \/ (desk[d].at = "write" /\ desk'[d].edited = desk[d].edited)
      BY <3>2, <3>3, Zenon
    <3> QED
      BY <2>2, <3>1, <3>2, <3>4, NeverIdle
  <2> QED
    BY <2>1, <2>2
<1>5. Typed'
  <2>1. desk' \in [Desks -> {Idle} \cup Requests]
    BY <1>1, <1>4
  <2>2. edits' \in 0 .. MaxEdits
    BY <1>1, <1>2, DeskAssumption DEF Typed
  <2> QED
    BY <1>1, <1>2, <2>1, <2>2 DEF Typed
<1>6. \A e \in Desks : desk'[e] # Idle => AtItsStep(e)' /\ HasLines(e)'
  <2>1. SUFFICES ASSUME NEW e \in Desks, desk'[e] # Idle
                 PROVE  AtItsStep(e)' /\ HasLines(e)'
    OBVIOUS
  <2>2. desk[e] # Idle /\ AtItsStep(e) /\ HasLines(e)
    BY <1>4, <2>1 DEF Control
  <2>3. /\ desk'[e].at = desk[e].at /\ desk'[e].call = desk[e].call
        /\ desk'[e].on = desk[e].on /\ desk'[e].lines = desk[e].lines
        /\ desk'[e].total = desk[e].total
    BY <1>4, <2>2
  <2> QED
    BY <1>3, <2>2, <2>3 DEF AtItsStep, HasLines
<1>7. Control'
  BY <1>1, <1>3, <1>5, <1>6, OutsideKeepsControl
<1> QED
  BY <1>3, <1>4, <1>7

\* The process stops, at rest or between two writes: the quotes stay signed.
LEMMA DownKeepsControl ==
  ASSUME Control, Down, KeepsQuotes, Signed' = Signed, stranded' \subseteq Signed
  PROVE  Control' /\ \A d \in Desks : desk'[d] = Idle
<1>1. /\ desk' = [d \in Desks |-> Idle] /\ crashes < MaxCrashes /\ crashes' = crashes + 1
      /\ UNCHANGED <<listing, proofs, cache, orders, served, told, sent, resends, edits>>
  BY DEF Down
<1>2. Typed
  BY DEF Control
<1>3. crashes' \in 0 .. MaxCrashes /\ desk' \in [Desks -> {Idle} \cup Requests]
  BY <1>1, <1>2, DeskAssumption DEF Typed
<1>4. stranded' \in SUBSET QuoteIds
  BY DEF Signed
<1>5. Typed'
  BY <1>1, <1>2, <1>3, <1>4 DEF Typed, KeepsQuotes
<1>6. Control'
  BY <1>1, <1>5, OutsideKeepsControl
<1> QED
  BY <1>1, <1>6

\* Of two writes the first ends a quote.
LEMMA HalfWrittenDoes ==
  ASSUME Control, NEW d \in Desks, CrashBetweenWrites(d)
  PROVE  /\ Down /\ KeepsQuotes /\ Signed' = Signed
         /\ desk[d].on \in Signed /\ stranded' = stranded \cup {desk[d].on}
         /\ quotes'[desk[d].on].status \in {"superseded", "consumed"}
         /\ \A q \in Signed : q # desk[d].on => quotes'[q].status = quotes[q].status
<1>1. /\ desk[d].at \in {"write", "commit"} /\ Down /\ stranded' = stranded \cup {desk[d].on}
      /\ \/ desk[d].on # NoQuote /\ quotes' = [quotes EXCEPT ![desk[d].on].status = "superseded"]
         \/ desk[d].at = "commit" /\ quotes' = [quotes EXCEPT ![desk[d].on].status = "consumed"]
  BY DEF CrashBetweenWrites, Superseded, Consumed
<1>2. desk[d] # Idle
  BY <1>1, AtAStep DEF Stages
<1>3. Typed /\ AtItsStep(d)
  BY <1>2 DEF Control
<1>4. desk[d].on \in Signed
  BY <1>1, <1>3 DEF AtItsStep
<1>5. PICK st \in {"superseded", "consumed"} : quotes' = [quotes EXCEPT ![desk[d].on].status = st]
  BY <1>1
<1>6. /\ KeepsQuotes /\ Signed' = Signed /\ quotes'[desk[d].on].status = st
      /\ \A q \in Signed : q # desk[d].on => quotes'[q].status = quotes[q].status
  BY <1>3, <1>4, <1>5, StatusChanges
<1> QED
  BY <1>1, <1>4, <1>6

LEMMA InitIsControlled == Init => Control /\ Signed = {} /\ \A d \in Desks : desk[d] = Idle
<1>1. SUFFICES ASSUME Init PROVE Control /\ Signed = {} /\ \A d \in Desks : desk[d] = Idle
  OBVIOUS
<1>2. Signed = {}
  BY <1>1 DEF Init, Signed, Unsigned
<1>3. Numbered
  <2>1. 0 \in 0 .. MaxQuotes /\ Signed = 1 .. 0
    BY <1>2, DeskAssumption
  <2> QED
    BY <2>1 DEF Numbered
<1>4. \A d \in Desks : desk[d] = Idle
  BY <1>1 DEF Init
<1>5. [on |-> NoQuote, answer |-> NoAnswer] \in Kept
  BY DEF Kept
<1>6. Typed
  BY <1>1, <1>5, DeskAssumption DEF Init, Typed
<1> QED
  BY <1>1, <1>2, <1>3, <1>4, <1>6 DEF Control, QuotesAdd, PrevKnown, OrdersAreKnown, Init

-----------------------------------------------------------------------------
(* One answer per payment *)

LEMMA HandsOnly ==
  ASSUME Typed, NEW c \in Calls, NEW d \in Desks, desk[d] # Idle,
         \A e \in Desks : e # d => desk'[e] = desk[e],
         InHand(d, c)' => InHand(d, c)
  PROVE  \A e \in Desks : InHand(e, c)' => InHand(e, c)
BY DEF InHand

LEMMA ShapePaysOnce ==
  ASSUME Control, NEW d \in Desks, desk[d] # Idle, Elsewhere, Shape(d),
         NEW c \in Calls, Kind[c] # "order", PaidOnce(c)
  PROVE  PaidOnce(c)'
<1>1. Typed /\ AtItsStep(d)
  BY DEF Control
<1>2. \A e \in Desks : e # d => desk'[e] = desk[e]
  BY ShapeTypes
<1>3. desk[d].call \in Calls
  BY <1>1, DeskFacts
<1>4. CASE Advances(d)
  <2>1. UNCHANGED <<told, cache, proofs, served>> /\ desk'[d].call = desk[d].call
    BY <1>4 DEF Advances, Continues
  <2>2. InHand(d, c)' => InHand(d, c)
    BY <1>4, <2>1 DEF Advances, InHand
  <2>3. \A e \in Desks : InHand(e, c)' => InHand(e, c)
    BY <1>1, <1>2, <2>2, HandsOnly
  <2> QED
    BY <2>1, <2>3 DEF PaidOnce
<1>5. CASE Takes(d) /\ desk[d].call # c
  <2>1. /\ UNCHANGED <<told, cache>> /\ proofs' = proofs \cup {desk[d].call}
        /\ served'[c] = served[c] /\ desk'[d].call # c
    BY <1>1, <1>5 DEF Takes, Continues, Typed
  <2>2. InHand(d, c)' => InHand(d, c)
    BY <2>1 DEF InHand
  <2>3. \A e \in Desks : InHand(e, c)' => InHand(e, c)
    BY <1>1, <1>2, <2>2, HandsOnly
  <2> QED
    BY <1>5, <2>1, <2>3 DEF PaidOnce
<1>6. CASE Takes(d) /\ desk[d].call = c
  <2>1. /\ UNCHANGED <<told, cache>> /\ proofs' = proofs \cup {c} /\ c \notin proofs
        /\ served'[c] = served[c] + 1
    BY <1>1, <1>6 DEF Takes, Continues, Typed
  <2>2. served[c] = 0 /\ cache[c].answer = NoAnswer /\ \A e \in Desks : ~InHand(e, c)
    BY <2>1 DEF PaidOnce
  <2>3. \A e \in Desks : InHand(e, c)' => e = d
    BY <1>2, <2>2 DEF InHand
  <2> QED
    BY <2>1, <2>2, <2>3 DEF PaidOnce
<1>7. CASE Replies(d) \/ TurnsAway(d) \/ PlacesOrder(d)
  <2>1. PICK a \in Answers : Leaves(d, a)
    BY <1>1, <1>7, RepliesLeave
  <2>2. desk'[d] = Idle /\ UNCHANGED <<proofs, served>>
    BY <1>1, <1>7, RepliesLeave DEF Replies, TurnsAway, PlacesOrder
  <2>3. \A e \in Desks : InHand(e, c)' => e # d /\ InHand(e, c)
    BY <1>2, <2>2 DEF InHand
  <2>4. CASE desk[d].call # c
    <3>1. told'[c] = told[c] /\ cache'[c] = cache[c]
      BY <1>1, <2>1, <2>4 DEF Leaves, Typed
    <3> QED
      BY <2>2, <2>3, <3>1 DEF PaidOnce
  <2>5. CASE desk[d].call = c /\ TurnsAway(d)
    <3>1. PICK b \in Answers :
            /\ TurnAway(d, b)
            /\ \/ b.status \in Refusal
               \/ /\ cache[c].answer # NoAnswer
                  /\ b.status = cache[c].answer.status /\ b.quote = cache[c].answer.quote
      BY <2>5 DEF TurnsAway
    <3>2. told'[c] = told[c] \cup {b} /\ cache' = cache
      BY <1>1, <1>3, <2>5, <3>1 DEF TurnAway, Typed
    <3> QED
      BY <2>2, <2>3, <3>1, <3>2 DEF PaidOnce
  <2>6. CASE desk[d].call = c /\ Replies(d)
    <3>1. PICK b \in Answers : Answer(d, b) /\ b.status # 0
      BY <2>6 DEF Replies
    <3>2. InHand(d, c)
      BY <2>6 DEF Replies, InHand
    <3>3. /\ c \in proofs /\ cache[c].answer = NoAnswer
          /\ \A e \in Desks : InHand(e, c) => e = d
          /\ \A x \in told[c] : x.status \in Refusal
      BY <3>2 DEF PaidOnce
    <3>4. b # NoAnswer
      BY <3>1, AnswerFacts
    <3>5. told'[c] = told[c] \cup {b} /\ cache'[c].answer = b
      <4>1. /\ told' = [told EXCEPT ![c] = @ \cup {b}]
            /\ cache' = [cache EXCEPT ![c] = [on |-> desk[d].on, answer |-> b]]
        BY <2>6, <3>1, <3>3 DEF Answer
      <4>2. cache \in [Calls -> Kept] /\ told \in [Calls -> SUBSET Answers]
        BY <1>1 DEF Typed
      <4> QED
        BY <4>1, <4>2
    <3>6. \A e \in Desks : ~InHand(e, c)'
      BY <2>3, <3>3
    <3> QED
      BY <2>2, <3>3, <3>4, <3>5, <3>6 DEF PaidOnce
  <2>7. CASE desk[d].call = c /\ PlacesOrder(d)
    BY <1>1, <2>7 DEF PlacesOrder, AtItsStep
  <2> QED
    BY <1>7, <2>4, <2>5, <2>6, <2>7
<1> QED
  BY <1>4, <1>5, <1>6, <1>7 DEF Shape

\* Steps that take no proof and give no answer.
LEMMA OutsidePaysOnce ==
  ASSUME NEW c \in Calls, PaidOnce(c), UNCHANGED <<proofs, served, told, cache>>,
         \A e \in Desks : InHand(e, c)' => InHand(e, c)
  PROVE  PaidOnce(c)'
BY DEF PaidOnce

-----------------------------------------------------------------------------
(* How quotes end *)

LEMMA AccountedIs == QuotesAreAccounted <=> \A q \in Signed : Accounted(q)
BY DEF QuotesAreAccounted, Accounted, Succeeded, Ordered

LEMMA SameSuccession ==
  ASSUME KeepsQuotes, Signed' = Signed, NEW q
  PROVE  Succeeded(q)' <=> Succeeded(q)
BY DEF KeepsQuotes, Succeeded

LEMMA ShapeAccounts ==
  ASSUME Control, NEW d \in Desks, desk[d] # Idle, Elsewhere, Shape(d),
         \A q \in Signed : Accounted(q)
  PROVE  \A q \in Signed' : Accounted(q)'
<1>1. Typed /\ Numbered /\ PrevKnown /\ OrdersAreKnown /\ AtItsStep(d) /\ KeepsQuotes
  BY ShapeQuotes DEF Control
<1>0. stranded' = stranded /\ stranded \subseteq Signed
  BY <1>1 DEF Elsewhere, OrdersAreKnown
<1>2. CASE UNCHANGED <<quotes, orders>>
  BY <1>0, <1>2 DEF Accounted, Succeeded, Ordered, Signed
<1>3. CASE PlacesOrder(d)
  <2>1. /\ Signed' = Signed /\ quotes'[desk[d].on].status = "consumed"
        /\ \A q \in Signed : q # desk[d].on => quotes'[q].status = quotes[q].status
        /\ orders' = orders \cup {[call |-> desk[d].call, quote |-> desk[d].on]}
    BY <1>3 DEF PlacesOrder
  <2>2. SUFFICES ASSUME NEW q \in Signed PROVE Accounted(q)'
    BY <2>1
  <2>3. Succeeded(q)' <=> Succeeded(q)
    BY <1>1, <2>1, SameSuccession
  <2>4. Ordered(q)' <=> (Ordered(q) \/ q = desk[d].on)
    <3> DEFINE o == [call |-> desk[d].call, quote |-> desk[d].on]
    <3>1. o.quote = desk[d].on /\ orders' = orders \cup {o}
      BY <2>1
    <3> HIDE DEF o
    <3> QED
      BY <3>1, Zenon DEF Ordered
  <2> QED
    BY <1>0, <2>1, <2>3, <2>4 DEF Accounted
<1>4. CASE UNCHANGED orders /\ Signs(d)
  <2>0. PICK n : n = NextQuote
    OBVIOUS
  <2>1. /\ n \notin Signed /\ Signed' = Signed \cup {n} /\ quotes'[n].prev = desk[d].on
        /\ quotes'[n].status = "active"
        /\ \A q \in Signed : quotes'[q].prev = quotes[q].prev
        /\ \A q \in Signed : quotes'[q].status = IF q = desk[d].on THEN "superseded"
                                                ELSE quotes[q].status
        /\ n # NoQuote
    BY <1>1, <1>4, <2>0 DEF Signs, KeepsQuotes, NoQuote, QuoteIds
  <2>2. desk[d].on \in {NoQuote} \cup Signed
    BY <1>1 DEF AtItsStep
  <2>3. \A q : Ordered(q)' <=> Ordered(q)
    BY <1>4 DEF Ordered
  <2>4. \A q : Succeeded(q)' <=> (Succeeded(q) \/ q = desk[d].on)
    BY <2>1 DEF Succeeded
  <2>5. Accounted(n)'
    <3>1. ~Succeeded(n) /\ n # desk[d].on
      BY <1>1, <2>1, <2>2 DEF Succeeded, PrevKnown
    <3>2. ~Ordered(n)
      BY <1>1, <2>1 DEF Ordered, OrdersAreKnown
    <3> QED
      BY <1>0, <2>1, <2>3, <2>4, <3>1, <3>2 DEF Accounted
  <2>6. ASSUME NEW q \in Signed PROVE Accounted(q)'
    BY <1>0, <2>1, <2>3, <2>4, <2>6 DEF Accounted
  <2> QED
    BY <2>1, <2>5, <2>6
<1> QED
  BY <1>2, <1>3, <1>4 DEF Shape, Advances, Takes, Replies, TurnsAway

LEMMA ExpiryAccounts ==
  ASSUME Control, NEW q \in QuoteIds, QuoteExpires(q), \A r \in Signed : Accounted(r)
  PROVE  \A r \in Signed' : Accounted(r)'
<1>1. /\ KeepsQuotes /\ Signed' = Signed
      /\ q \in Signed /\ quotes[q].status = "active" /\ quotes'[q].status = "expired"
      /\ \A r \in Signed : r # q => quotes'[r].status = quotes[r].status
  BY ExpiryKeepsControl
<1>2. UNCHANGED <<orders, stranded>>
  BY DEF QuoteExpires
<1>3. SUFFICES ASSUME NEW r \in Signed PROVE Accounted(r)'
  BY <1>1
<1>4. (Succeeded(r)' <=> Succeeded(r)) /\ (Ordered(r)' <=> Ordered(r))
  BY <1>1, <1>2, SameSuccession DEF Ordered
<1> QED
  BY <1>1, <1>2, <1>4 DEF Accounted

\* A quote that the first of two writes ended is accounted for by the crash.
LEMMA CrashAccounts ==
  ASSUME Control, NEW d \in Desks, CrashBetweenWrites(d), \A q \in Signed : Accounted(q)
  PROVE  \A q \in Signed : Accounted(q)'
<1>1. /\ KeepsQuotes /\ Signed' = Signed
      /\ desk[d].on \in Signed /\ stranded' = stranded \cup {desk[d].on}
      /\ quotes'[desk[d].on].status \in {"superseded", "consumed"}
      /\ \A q \in Signed : q # desk[d].on => quotes'[q].status = quotes[q].status
  BY HalfWrittenDoes
<1>2. UNCHANGED orders
  BY DEF CrashBetweenWrites, Down
<1>3. SUFFICES ASSUME NEW q \in Signed PROVE Accounted(q)'
  OBVIOUS
<1>4. (Succeeded(q)' <=> Succeeded(q)) /\ (Ordered(q)' <=> Ordered(q))
  BY <1>1, <1>2, SameSuccession DEF Ordered
<1> QED
  BY <1>1, <1>4 DEF Accounted

-----------------------------------------------------------------------------
(* What a price may lose *)

\* List prices of lines, and what they come to.
LEMMA ListedFacts ==
  ASSUME NEW l \in Listings, NEW lines \in AllLines, Above(l, lines)
  PROVE  /\ ListedIn(l, lines) \in AllLines /\ TotalOf(ListedIn(l, lines)) \in Nat
         /\ TotalOf(lines) \in Nat
         /\ Below(l, lines) => TotalOf(lines) <= TotalOf(ListedIn(l, lines))
<1> DEFINE full == ListedIn(l, lines)
           D == DOMAIN lines
           f == [i \in D |-> LineTotal(lines[i])]
           g == [i \in D |-> LineTotal(full[i])]
<1>1. lines \in SomeLines /\ D # {} /\ IsFiniteSet(D) /\ D \in SUBSET Positions
  BY LineFacts DEF AllLines, SomeLines
<1>2. ASSUME NEW i \in D
      PROVE  /\ full[i] \in Priced /\ full[i].qty = lines[i].qty
             /\ full[i].unit = l[lines[i].sku].price
             /\ lines[i].qty \in Positive /\ lines[i].unit \in Positive
             /\ l[lines[i].sku].price \in Positive
  <2>1. lines[i] \in Priced /\ l[lines[i].sku].price \in Positive
    BY <1>1, LineFacts, ListFacts DEF Above
  <2>2. full[i] = [lines[i] EXCEPT !.unit = l[lines[i].sku].price]
    BY DEF ListedIn
  <2> QED
    BY <2>1, <2>2 DEF Priced
<1>3. full \in AllLines /\ DOMAIN full = D
  <2>1. DOMAIN full = D /\ full = [i \in D |-> full[i]]
    BY DEF ListedIn
  <2> HIDE DEF full
  <2>2. full \in [D -> Priced]
    BY <1>2, <2>1
  <2> QED
    BY <1>1, <2>1, <2>2 DEF AllLines, SomeLines
<1> HIDE DEF full
<1>4. ASSUME Below(l, lines), NEW i \in D
      PROVE  f[i] \in Int /\ g[i] \in Int /\ f[i] <= g[i]
  <2>1. lines[i].unit <= full[i].unit
    BY <1>2, <1>4 DEF Below
  <2>2. lines[i].unit * lines[i].qty <= full[i].unit * lines[i].qty
    BY <1>2, <2>1, ScaleUp DEF Positive
  <2>3. lines[i].unit * lines[i].qty \in Positive /\ full[i].unit * lines[i].qty \in Positive
    BY <1>2, ProductIsPositive
  <2> QED
    BY <1>2, <2>2, <2>3 DEF LineTotal, Positive
<1>5. TotalOf(lines) = SumFunctionOnSet(f, D) /\ TotalOf(full) = SumFunctionOnSet(g, D)
  BY <1>3 DEF TotalOf
<1> HIDE DEF f, g
<1>6. Below(l, lines) => TotalOf(lines) <= TotalOf(full)
  BY <1>1, <1>4, <1>5, SumOfSmaller
<1>7. TotalOf(full) \in Nat /\ TotalOf(lines) \in Nat
  BY <1>3, TotalFacts DEF Positive
<1> QED
  BY <1>3, <1>6, <1>7 DEF full

\* The same products and quantities have the same list price.
LEMMA SameList ==
  ASSUME NEW l, NEW lines \in AllLines, NEW new \in AllLines, DOMAIN new = DOMAIN lines,
         \A i \in DOMAIN lines : new[i].sku = lines[i].sku /\ new[i].qty = lines[i].qty
  PROVE  ListedIn(l, new) = ListedIn(l, lines)
<1>1. lines \in SomeLines /\ new \in SomeLines
  BY DEF AllLines
<1>2. \A i \in DOMAIN lines : [new[i] EXCEPT !.unit = l[new[i].sku].price]
                                = [lines[i] EXCEPT !.unit = l[lines[i].sku].price]
  <2>1. TAKE i \in DOMAIN lines
  <2>2. lines[i] \in Priced /\ new[i] \in Priced
    BY <1>1, LineFacts
  <2> QED
    BY <2>2 DEF Priced
<1> QED
  BY <1>2 DEF ListedIn

LEMMA AllowedFacts ==
  ASSUME NEW full \in Nat, NEW S \in SUBSET DOMAIN Campaigns
  PROVE  /\ IsFiniteSet(S) /\ Allowed(full, S) \in Int /\ Allowed(full, {}) = 0
         /\ \A i \in DOMAIN Campaigns :
              i \notin S => Allowed(full, S \cup {i})
                              = Allowed(full, S) + RuleDiscount(Campaigns[i], full)
<1> DEFINE f(T) == [i \in T |-> RuleDiscount(Campaigns[i], full)]
<1>1. \A i \in DOMAIN Campaigns : RuleDiscount(Campaigns[i], full) \in Int
  BY CampaignFacts, RuleFacts
<1>2. IsFiniteSet(S)
  BY CampaignFacts, FS_Subset
<1>3. Allowed(full, S) \in Int
  <2> DEFINE h == f(S)
  <2>1. \A i \in S : h[i] \in Int
    BY <1>1
  <2>2. Allowed(full, S) = SumFunctionOnSet(h, S)
    BY DEF Allowed
  <2> HIDE DEF h
  <2> QED
    BY <1>2, <2>1, <2>2, SumIsInt
<1>4. Allowed(full, {}) = 0
  BY SumOfNothing DEF Allowed
<1>5. ASSUME NEW i \in DOMAIN Campaigns, i \notin S
      PROVE  Allowed(full, S \cup {i}) = Allowed(full, S) + RuleDiscount(Campaigns[i], full)
  <2> DEFINE h == f(S \cup {i})
             k == f(S)
  <2>1. /\ \A j \in S \cup {i} : h[j] \in Int
        /\ \A j \in S : h[j] = k[j] /\ k[j] \in Int
        /\ h[i] = RuleDiscount(Campaigns[i], full)
    BY <1>1
  <2>2. Allowed(full, S \cup {i}) = SumFunctionOnSet(h, S \cup {i})
        /\ Allowed(full, S) = SumFunctionOnSet(k, S)
    BY DEF Allowed
  <2> HIDE DEF h, k
  <2>3. SumFunctionOnSet(h, S \cup {i}) = SumFunctionOnSet(h, S) + h[i]
    <3>1. \A j \in S \cup {i} : h[j] \in Int
      BY <2>1
    <3> QED
      BY <1>2, <1>5, <3>1, SumWith
  <2>4. SumFunctionOnSet(h, S) = SumFunctionOnSet(k, S)
    BY <1>2, <2>1, SumDependsOn
  <2>5. SumFunctionOnSet(k, S) \in Int /\ h[i] \in Int
    BY <1>2, <2>1, SumIsInt
  <2> QED
    BY <2>1, <2>2, <2>3, <2>4, <2>5
<1> QED
  BY <1>2, <1>3, <1>4, <1>5

\* The list price, before any campaign.
LEMMA ListPriceIsFair ==
  ASSUME NEW l \in Listings, NEW lines \in AllLines,
         \A i \in DOMAIN lines : /\ lines[i].sku \in DOMAIN l
                                 /\ lines[i].unit = l[lines[i].sku].price
  PROVE  Fair(l, lines, {}, FALSE) /\ {} \in Stacks /\ \A r \in Positive : AppliedBefore({}, r)
<1>1. lines \in SomeLines
  BY DEF AllLines
<1>2. \A i \in DOMAIN lines : /\ lines[i] \in Priced
                              /\ l[lines[i].sku].price \in Positive /\ l[lines[i].sku].min \in Positive
                              /\ l[lines[i].sku].price >= l[lines[i].sku].min
  BY <1>1, LineFacts, ListFacts
<1>3. Above(l, lines) /\ Below(l, lines)
  BY <1>2 DEF Above, Below, Positive
<1>4. ListedIn(l, lines) = lines
  <2>1. \A i \in DOMAIN lines : [lines[i] EXCEPT !.unit = l[lines[i].sku].price] = lines[i]
    BY <1>2 DEF Priced
  <2>2. lines = [i \in DOMAIN lines |-> lines[i]]
    BY <1>1, LineFacts
  <2> QED
    BY <2>1, <2>2 DEF ListedIn
<1>5. TotalOf(lines) \in Nat
  BY TotalFacts DEF Positive
<1>6. Allowed(TotalOf(lines), {}) = 0
  BY <1>5, AllowedFacts
<1>7. Within(l, lines, TotalOf(lines), {}, FALSE)
  BY <1>4, <1>5, <1>6 DEF Within
<1>8. {} \in Stacks /\ \A r \in Positive : AppliedBefore({}, r)
  BY DEF Stacks, AppliedBefore
<1> QED
  BY <1>3, <1>7, <1>8 DEF Fair

\* What the merchant's limit takes off a list price comes on top.
LEMMA LimitIsOnTop ==
  ASSUME NEW l \in Listings, NEW lines \in AllLines, NEW S \in SUBSET DOMAIN Campaigns,
         Fair(l, lines, S, FALSE)
  PROVE  Fair(l, lines, S, TRUE)
<1> DEFINE full == TotalOf(ListedIn(l, lines))
<1>1. full \in Nat /\ TotalOf(lines) \in Nat
  BY ListedFacts DEF Fair
<1>2. ApplyBps(full, MaxDiscountBps) \in Nat /\ Allowed(full, S) \in Int
  BY <1>1, DeskAssumption, BpsFacts, AllowedFacts
<1>3. full - TotalOf(lines) <= Allowed(full, S) + 0
  BY DEF Fair, Within
<1> HIDE DEF full
<1>4. full - TotalOf(lines) <= Allowed(full, S) + ApplyBps(full, MaxDiscountBps)
  BY <1>1, <1>2, <1>3
<1> QED
  BY <1>4 DEF Fair, Within, full

\* One more campaign, at the price its predecessors left, takes no more than it
\* would take off the list price.
LEMMA CampaignIsFair ==
  ASSUME NEW l \in Listings, NEW lines \in AllLines, NEW S, NEW rule \in DOMAIN Campaigns,
         AppliedBefore(S, rule), Fair(l, lines, S, FALSE),
         RuleDiscount(Campaigns[rule], TotalOf(lines)) > 0,
         NEW next, next = IF Campaigns[rule].exclusive THEN Len(Campaigns) + 1 ELSE rule + 1,
         NEW new, new = SpreadDiscount(MinsIn(l), lines, TotalOf(lines),
                                       RuleDiscount(Campaigns[rule], TotalOf(lines)))
  PROVE  /\ Fair(l, new, S \cup {rule}, FALSE) /\ S \cup {rule} \in Stacks
         /\ AppliedBefore(S \cup {rule}, next)
<1> DEFINE total == TotalOf(lines)
           discount == RuleDiscount(Campaigns[rule], total)
           full == TotalOf(ListedIn(l, lines))
           mins == MinsIn(l)
           more == RuleDiscount(Campaigns[rule], full)
<1>1. lines \in SomeLines /\ Above(l, lines) /\ Below(l, lines)
      /\ full - total <= Allowed(full, S)
  <2>1. full - total <= Allowed(full, S) + 0
    BY DEF Fair, Within
  <2>2. S \in SUBSET DOMAIN Campaigns /\ full \in Nat
    BY ListedFacts DEF AppliedBefore, Stacks, Fair
  <2>3. Allowed(full, S) \in Int
    BY <2>2, AllowedFacts
  <2> QED
    BY <2>1, <2>3 DEF Fair, AllLines
<1>2. total \in Nat /\ full \in Nat /\ total <= full
  BY <1>1, ListedFacts
<1>3. /\ rule \in Nat /\ rule <= Len(Campaigns) /\ Campaigns[rule] \in Campaign
      /\ Len(Campaigns) \in Nat /\ DOMAIN Campaigns \subseteq Nat
  BY CampaignFacts
<1>4. discount \in Int /\ discount > 0 /\ more \in Int /\ discount <= more
  BY <1>2, <1>3, RuleFacts
<1>5. \A i \in DOMAIN lines : /\ mins[lines[i].sku] = l[lines[i].sku].min
                              /\ mins[lines[i].sku] \in Positive /\ l[lines[i].sku].min \in Positive
                              /\ l[lines[i].sku].price \in Positive /\ lines[i].unit \in Positive
                              /\ lines[i].unit >= mins[lines[i].sku]
                              /\ lines[i].sku \in DOMAIN l
  BY <1>1, ListFacts, LineFacts DEF Above, MinsIn
<1>6. new = SpreadDiscount(mins, lines, total, discount)
  OBVIOUS
<1> HIDE DEF discount, mins
<1>7. /\ new \in AllLines /\ DOMAIN new = DOMAIN lines
      /\ \A i \in DOMAIN lines :
           /\ new[i].sku = lines[i].sku /\ new[i].qty = lines[i].qty
           /\ new[i].unit >= mins[lines[i].sku] /\ new[i].unit <= lines[i].unit
      /\ total - TotalOf(new) <= Higher(0, discount)
  BY <1>4, <1>5, <1>6, SpreadFacts
<1>8. new \in SomeLines /\ \A i \in DOMAIN lines : new[i].unit \in Positive
  BY <1>7, LineFacts DEF AllLines
<1>9. Above(l, new) /\ Below(l, new)
  <2>1. SUFFICES ASSUME NEW i \in DOMAIN lines
                 PROVE  /\ new[i].sku \in DOMAIN l /\ new[i].unit >= l[new[i].sku].min
                        /\ new[i].unit <= l[new[i].sku].price
    BY <1>7 DEF Above, Below
  <2>2. lines[i].unit <= l[lines[i].sku].price
    BY <1>1 DEF Below
  <2> QED
    BY <1>5, <1>7, <1>8, <2>2 DEF Positive
<1>10. ListedIn(l, new) = ListedIn(l, lines)
  BY <1>7, SameList
<1>11. TotalOf(new) \in Nat
  BY <1>7, TotalFacts DEF Positive
<1>12. S \in SUBSET DOMAIN Campaigns /\ rule \notin S
       /\ \A i \in S : i \in Nat /\ i < rule /\ ~Campaigns[i].exclusive
  BY <1>3 DEF AppliedBefore, Stacks
<1>13. Allowed(full, S \cup {rule}) = Allowed(full, S) + more /\ Allowed(full, S) \in Int
  BY <1>2, <1>12, AllowedFacts
<1>14. full - TotalOf(new) <= Allowed(full, S \cup {rule}) + 0
  <2>1. Higher(0, discount) = discount
    BY <1>4 DEF Higher
  <2> HIDE DEF total, full, more
  <2> QED
    BY <1>1, <1>2, <1>4, <1>7, <1>11, <1>13, <2>1
<1>15. S \cup {rule} \in Stacks
  <2>1. \A i, j \in S \cup {rule} : Campaigns[i].exclusive => j <= i
    BY <1>3, <1>12
  <2> QED
    BY <1>12, <2>1 DEF Stacks
<1>16. AppliedBefore(S \cup {rule}, next)
  <2>1. CASE Campaigns[rule].exclusive
    BY <1>3, <1>12, <1>15, <2>1 DEF AppliedBefore
  <2>2. CASE ~Campaigns[rule].exclusive
    BY <1>3, <1>12, <1>15, <2>2 DEF AppliedBefore
  <2> QED
    BY <2>1, <2>2
<1>17. Within(l, new, TotalOf(new), S \cup {rule}, FALSE)
  BY <1>10, <1>14 DEF Within
<1> QED
  BY <1>7, <1>9, <1>15, <1>16, <1>17 DEF Fair

\* A proposal takes no more than the merchant's limit off the list price.
LEMMA ProposalIsFair ==
  ASSUME NEW l \in Listings, NEW lines \in AllLines, NEW S \in SUBSET DOMAIN Campaigns,
         Fair(l, lines, S, FALSE), NEW bps \in Int,
         NEW new, new = ApplyBoundedDiscount(MinsIn(l), lines, TotalOf(lines), bps, MaxDiscountBps)
  PROVE  Fair(l, new, S, TRUE)
<1> DEFINE total == TotalOf(lines)
           capped == Lower(Higher(bps, 0), MaxDiscountBps)
           full == TotalOf(ListedIn(l, lines))
           mins == MinsIn(l)
<1>1. lines \in SomeLines /\ Above(l, lines) /\ Below(l, lines)
      /\ full - total <= Allowed(full, S) + 0
  BY DEF Fair, AllLines, Within
<1>2. total \in Nat /\ full \in Nat /\ total <= full
  BY <1>1, ListedFacts
<1>3. capped \in Nat /\ capped <= MaxDiscountBps /\ MaxDiscountBps \in Nat
  BY DeskAssumption DEF Lower, Higher
<1>4. \A i \in DOMAIN lines : /\ mins[lines[i].sku] = l[lines[i].sku].min
                              /\ mins[lines[i].sku] \in Positive /\ l[lines[i].sku].min \in Positive
                              /\ l[lines[i].sku].price \in Positive /\ lines[i].unit \in Positive
                              /\ lines[i].unit >= mins[lines[i].sku]
                              /\ lines[i].sku \in DOMAIN l
  BY <1>1, ListFacts, LineFacts DEF Above, MinsIn
<1>5. new = ApplyBoundedDiscount(mins, lines, total, bps, MaxDiscountBps)
  OBVIOUS
<1> HIDE DEF mins
<1>6. /\ new \in AllLines /\ DOMAIN new = DOMAIN lines
      /\ \A i \in DOMAIN lines :
           /\ new[i].sku = lines[i].sku /\ new[i].qty = lines[i].qty
           /\ new[i].unit >= mins[lines[i].sku] /\ new[i].unit <= lines[i].unit
      /\ total - TotalOf(new) <= ApplyBps(total, capped)
  BY <1>4, <1>5, BoundedFacts
<1> HIDE DEF capped
<1>7. new \in SomeLines /\ \A i \in DOMAIN lines : new[i].unit \in Positive
  BY <1>6, LineFacts DEF AllLines
<1>8. Above(l, new) /\ Below(l, new)
  <2>1. SUFFICES ASSUME NEW i \in DOMAIN lines
                 PROVE  /\ new[i].sku \in DOMAIN l /\ new[i].unit >= l[new[i].sku].min
                        /\ new[i].unit <= l[new[i].sku].price
    BY <1>6 DEF Above, Below
  <2>2. lines[i].unit <= l[lines[i].sku].price
    BY <1>1 DEF Below
  <2> QED
    BY <1>4, <1>6, <1>7, <2>2 DEF Positive
<1>9. ListedIn(l, new) = ListedIn(l, lines)
  BY <1>6, SameList
<1>10. TotalOf(new) \in Nat /\ Allowed(full, S) \in Int
  BY <1>2, <1>6, TotalFacts, AllowedFacts DEF Positive
<1>11. /\ ApplyBps(total, capped) \in Nat /\ ApplyBps(full, MaxDiscountBps) \in Nat
       /\ ApplyBps(total, capped) <= ApplyBps(full, MaxDiscountBps)
  <2> HIDE DEF total, full
  <2>1. ApplyBps(total, capped) \in Nat /\ ApplyBps(total, capped) <= ApplyBps(full, capped)
    BY <1>2, <1>3, BpsFacts
  <2>2. ApplyBps(full, capped) \in Nat /\ ApplyBps(full, capped) <= ApplyBps(full, MaxDiscountBps)
        /\ ApplyBps(full, MaxDiscountBps) \in Nat
    BY <1>2, <1>3, BpsFacts
  <2> QED
    BY <2>1, <2>2
<1>12. full - TotalOf(new) <= Allowed(full, S) + ApplyBps(full, MaxDiscountBps)
  <2> HIDE DEF total, full
  <2> QED
    BY <1>1, <1>2, <1>6, <1>10, <1>11
<1>13. Within(l, new, TotalOf(new), S, TRUE)
  BY <1>9, <1>12 DEF Within
<1> QED
  BY <1>6, <1>8, <1>13 DEF Fair

LEMMA OtherPrice ==
  ASSUME KeepsQuotes, UNCHANGED listing, NEW e \in Desks, desk'[e] = desk[e],
         AtItsStep(e), PriceIsRight(e), WriteIsRight(e)
  PROVE  PriceIsRight(e)' /\ WriteIsRight(e)'
<1>1. desk[e].on # NoQuote => quotes'[desk[e].on].total = quotes[desk[e].on].total
  BY DEF AtItsStep, KeepsQuotes
<1> QED
  BY <1>1 DEF PriceIsRight, WriteIsRight

LEMMA NewPrice ==
  ASSUME NEW d \in Desks, Continues(d), UNCHANGED <<listing, quotes>>,
         ~desk[d].edited => Above(listing, desk'[d].lines),
         ~desk[d].edited /\ desk[d].on = NoQuote =>
            /\ desk'[d].at = "campaign" =>
                  \E S \in Stacks : /\ AppliedBefore(S, desk'[d].rule)
                                    /\ Fair(listing, desk'[d].lines, S, FALSE)
            /\ desk'[d].at = "sign" =>
                  \E S \in Stacks : Fair(listing, desk'[d].lines, S, TRUE),
         desk[d].on # NoQuote => Gain(quotes[desk[d].on].total, desk'[d].total)
  PROVE  PriceIsRight(d)'
BY DEF Continues, PriceIsRight, Gain

LEMMA MinsAre == Mins = MinsIn(listing)
BY DEF Mins, MinsIn

LEMMA ReadPricesKeepsPrice ==
  ASSUME Control, NEW d \in Desks, desk[d] # Idle, ReadPrices(d), desk'[d] # Idle
  PROVE  PriceIsRight(d)'
<1> DEFINE lines == ListLines(Available)
<1>1. Typed /\ AtItsStep(d) /\ desk[d].at = "read" /\ UNCHANGED <<listing, quotes>>
  BY DEF Control, ReadPrices
<1>2. desk[d].on = NoQuote /\ desk[d].rule \in Positive /\ listing \in Listings
  BY <1>1, DeskFacts DEF AtItsStep, Typed
<1>3. ~\E a \in Answers : Answer(d, a) /\ a.status = 422
  BY <1>1, AnswerLeaves, Left
<1>4. /\ Continues(d) /\ Available # {} /\ desk'[d].lines = lines
      /\ desk'[d].rule = desk[d].rule
  BY <1>1, <1>3, ReadPricesDoes
<1>5. lines \in AllLines /\ Fair(listing, lines, {}, FALSE) /\ {} \in Stacks
      /\ AppliedBefore({}, desk[d].rule)
  BY <1>1, <1>2, <1>4, ListLinesFacts, ListPriceIsFair
<1> HIDE DEF lines
<1>6. Fair(listing, lines, {}, TRUE) /\ Above(listing, lines)
  <2>1. {} \in SUBSET DOMAIN Campaigns
    OBVIOUS
  <2> QED
    BY <1>2, <1>5, <2>1, LimitIsOnTop DEF Fair
<1> QED
  BY <1>1, <1>2, <1>4, <1>5, <1>6, NewPrice

LEMMA ApplyCampaignKeepsPrice ==
  ASSUME Control, NEW d \in Desks, desk[d] # Idle, PriceIsRight(d), ApplyCampaign(d), desk'[d] # Idle
  PROVE  PriceIsRight(d)'
<1> DEFINE rule == desk[d].rule
           discount == RuleDiscount(Campaigns[rule], desk[d].total)
           lines == SpreadDiscount(Mins, desk[d].lines, desk[d].total, discount)
<1>1. Typed /\ AtItsStep(d) /\ HasLines(d) /\ desk[d].at = "campaign"
      /\ UNCHANGED <<listing, quotes>> /\ listing \in Listings
  BY DEF Control, ApplyCampaign, Typed
<1>2. /\ desk[d].on = NoQuote /\ desk[d].lines \in AllLines
      /\ desk[d].total = TotalOf(desk[d].lines)
  BY <1>1 DEF AtItsStep, HasLines, Adds
<1>3. ~\E a \in Answers : Answer(d, a) /\ a.status = 422
  BY <1>1, AnswerLeaves, Left
<1>4. rule \in DOMAIN Campaigns
      /\ \/ /\ Continues(d) /\ desk'[d].at = "campaign" /\ desk'[d].rule = rule + 1
            /\ desk'[d].lines = desk[d].lines
         \/ /\ Continues(d) /\ desk'[d].at = "campaign" /\ discount > 0
            /\ lines \in AllLines /\ Stocked(desk[d].lines)
            /\ desk'[d].lines = lines /\ desk'[d].rule = AfterRule(d, TRUE)
  <2>1. \/ \E a \in Answers : Answer(d, a) /\ a.status = 422
        \/ /\ Continues(d) /\ desk'[d].at = "campaign"
           /\ desk'[d].rule = rule + 1
           /\ desk'[d].lines = desk[d].lines /\ desk'[d].total = desk[d].total
        \/ /\ Continues(d) /\ desk'[d].at = "campaign"
           /\ discount > 0 /\ Stocked(desk[d].lines) /\ Lowers(d, lines)
           /\ lines \in AllLines /\ desk'[d].lines = lines
           /\ desk'[d].total = TotalOf(lines) /\ desk'[d].rule = AfterRule(d, TRUE)
    BY <1>1, ApplyCampaignDoes
  <2>2. rule \in DOMAIN Campaigns
    BY <1>1, ApplyCampaignDoes
  <2> QED
    BY <1>3, <2>1, <2>2
<1> HIDE DEF lines, discount, rule
<1>5. CASE /\ Continues(d) /\ desk'[d].at = "campaign" /\ desk'[d].rule = rule + 1
           /\ desk'[d].lines = desk[d].lines
  <2>1. ASSUME ~desk[d].edited
        PROVE  /\ Above(listing, desk[d].lines)
               /\ \E S \in Stacks : /\ AppliedBefore(S, rule + 1)
                                    /\ Fair(listing, desk[d].lines, S, FALSE)
    <3>1. PICK S \in Stacks : /\ AppliedBefore(S, rule) /\ Fair(listing, desk[d].lines, S, FALSE)
                              /\ Above(listing, desk[d].lines)
      BY <1>1, <1>2, <2>1 DEF PriceIsRight, rule
    <3>2. rule \in Nat /\ Len(Campaigns) \in Nat /\ \A i \in S : i \in Nat
      BY <1>4, CampaignFacts DEF Stacks
    <3>3. AppliedBefore(S, rule + 1)
      BY <3>1, <3>2 DEF AppliedBefore
    <3> QED
      BY <3>1, <3>3
  <2> QED
    BY <1>1, <1>2, <1>5, <2>1, NewPrice
<1>6. CASE /\ Continues(d) /\ desk'[d].at = "campaign" /\ discount > 0
           /\ lines \in AllLines /\ Stocked(desk[d].lines)
           /\ desk'[d].lines = lines /\ desk'[d].rule = AfterRule(d, TRUE)
  <2>1. ASSUME ~desk[d].edited
        PROVE  /\ Above(listing, lines)
               /\ \E S \in Stacks : /\ AppliedBefore(S, desk'[d].rule)
                                    /\ Fair(listing, lines, S, FALSE)
    <3>1. PICK S \in Stacks : AppliedBefore(S, rule) /\ Fair(listing, desk[d].lines, S, FALSE)
      BY <1>1, <1>2, <2>1 DEF PriceIsRight, rule
    <3>2. desk'[d].rule = IF Campaigns[rule].exclusive THEN Len(Campaigns) + 1 ELSE rule + 1
      BY <1>6 DEF AfterRule, rule
    <3>3. lines = SpreadDiscount(MinsIn(listing), desk[d].lines, TotalOf(desk[d].lines),
                                 RuleDiscount(Campaigns[rule], TotalOf(desk[d].lines)))
          /\ RuleDiscount(Campaigns[rule], TotalOf(desk[d].lines)) > 0
      BY <1>2, <1>6, MinsAre DEF lines, discount
    <3> DEFINE next == desk'[d].rule
    <3>4. next = IF Campaigns[rule].exclusive THEN Len(Campaigns) + 1 ELSE rule + 1
      BY <3>2
    <3> HIDE DEF next
    <3>5. /\ Fair(listing, lines, S \cup {rule}, FALSE) /\ S \cup {rule} \in Stacks
          /\ AppliedBefore(S \cup {rule}, next)
      BY <1>1, <1>2, <1>4, <3>1, <3>3, <3>4, CampaignIsFair
    <3>6. Above(listing, lines)
      BY <3>5 DEF Fair
    <3> QED
      BY <3>5, <3>6 DEF next
  <2> QED
    BY <1>1, <1>2, <1>6, <2>1, NewPrice
<1> QED
  BY <1>4, <1>5, <1>6

LEMMA ProposeKeepsPrice ==
  ASSUME Control, NEW d \in Desks, desk[d] # Idle, PriceIsRight(d), NEW bps \in Int,
         Propose(d, bps), desk'[d] # Idle
  PROVE  PriceIsRight(d)'
<1> DEFINE lines == ApplyBoundedDiscount(Mins, desk[d].lines, desk[d].total, bps, MaxDiscountBps)
<1>1. Typed /\ AtItsStep(d) /\ HasLines(d) /\ desk[d].at = "campaign"
      /\ UNCHANGED <<listing, quotes>> /\ listing \in Listings
  BY DEF Control, Propose, Typed
<1>2. /\ desk[d].on = NoQuote /\ desk[d].lines \in AllLines
      /\ desk[d].total = TotalOf(desk[d].lines)
  BY <1>1 DEF AtItsStep, HasLines, Adds
<1>3. ~\E a \in Answers : Answer(d, a) /\ a.status = 422
  BY <1>1, AnswerLeaves, Left
<1>4. Continues(d) /\ desk'[d].at = "sign" /\ desk'[d].lines = lines
  BY <1>1, <1>3, ProposeDoes DEF GoesOn
<1>5. lines = ApplyBoundedDiscount(MinsIn(listing), desk[d].lines, TotalOf(desk[d].lines),
                                   bps, MaxDiscountBps)
  BY <1>2, MinsAre
<1> HIDE DEF lines
<1>6. ASSUME ~desk[d].edited
      PROVE  Above(listing, lines) /\ \E S \in Stacks : Fair(listing, lines, S, TRUE)
  <2>1. PICK S \in Stacks : Fair(listing, desk[d].lines, S, FALSE)
    BY <1>1, <1>2, <1>6 DEF PriceIsRight
  <2>2. S \in SUBSET DOMAIN Campaigns
    BY DEF Stacks
  <2>3. Fair(listing, lines, S, TRUE)
    BY <1>1, <1>2, <1>5, <2>1, <2>2, ProposalIsFair
  <2> QED
    BY <2>3 DEF Fair
<1> QED
  BY <1>1, <1>2, <1>4, <1>6, NewPrice

LEMMA FallBackKeepsPrice ==
  ASSUME Control, NEW d \in Desks, desk[d] # Idle, PriceIsRight(d), FallBack(d)
  PROVE  PriceIsRight(d)'
<1>1. Typed /\ AtItsStep(d) /\ HasLines(d) /\ desk[d].at = "campaign"
      /\ UNCHANGED <<listing, quotes>> /\ listing \in Listings
  BY DEF Control, FallBack, Typed
<1>2. /\ desk[d].on = NoQuote /\ desk[d].lines \in AllLines
      /\ desk[d].total = TotalOf(desk[d].lines)
  BY <1>1 DEF AtItsStep, HasLines, Adds
<1>3. Continues(d) /\ desk'[d].at = "sign" /\ desk'[d].lines = desk[d].lines
  BY <1>1, FallBackDoes DEF Moves, GoesOn
<1>4. ASSUME ~desk[d].edited
      PROVE  Above(listing, desk[d].lines)
             /\ \E S \in Stacks : Fair(listing, desk[d].lines, S, TRUE)
  <2>1. PICK S \in Stacks : Fair(listing, desk[d].lines, S, FALSE)
    BY <1>1, <1>2, <1>4 DEF PriceIsRight
  <2>2. S \in SUBSET DOMAIN Campaigns
    BY DEF Stacks
  <2>3. Fair(listing, desk[d].lines, S, TRUE)
    BY <1>1, <1>2, <2>1, <2>2, LimitIsOnTop
  <2> QED
    BY <2>3 DEF Fair
<1> QED
  BY <1>1, <1>2, <1>3, <1>4, NewPrice

\* A counter-offer gives its fee at least and half of what is asked for at most.
LEMMA CounterKeepsPrice ==
  ASSUME Control, NEW d \in Desks, desk[d] # Idle, Counter(d), desk'[d] # Idle
  PROVE  PriceIsRight(d)'
<1> DEFINE row == quotes[desk[d].on]
           lines == CounterOffer(Mins, row.lines, row.total, AskedBps, MaxDiscountBps)
<1>1. Typed /\ AtItsStep(d) /\ QuotesAdd /\ desk[d].at = "counter"
      /\ UNCHANGED <<listing, quotes>> /\ listing \in Listings
  BY DEF Control, Counter, Typed
<1>2. desk[d].on # NoQuote /\ desk[d].on \in Signed
  BY <1>1 DEF AtItsStep
<1>3. row.lines \in AllLines /\ row.lines \in SomeLines /\ row.total = TotalOf(row.lines)
  BY <1>2, <1>1 DEF QuotesAdd, Adds, AllLines
<1>4. ~\E a \in Answers : Answer(d, a) /\ a.status \in {200, 500}
  BY <1>1, AnswerLeaves, Left
<1>5. /\ Stocked(row.lines) /\ row.total - TotalOf(lines) >= Fee
      /\ GoesOn(d, "sign", lines, TotalOf(lines), desk[d].rule)
  BY <1>1, <1>2, <1>4, CounterDoes
<1> HIDE DEF row
<1>6. \A i \in DOMAIN row.lines : /\ Mins[row.lines[i].sku] = listing[row.lines[i].sku].min
                                  /\ Mins[row.lines[i].sku] \in Positive
  BY <1>1, <1>3, <1>5, StockedFacts
<1>7. /\ lines \in AllLines /\ DOMAIN lines = DOMAIN row.lines
      /\ \A i \in DOMAIN row.lines :
           lines[i].sku = row.lines[i].sku /\ lines[i].unit >= Mins[row.lines[i].sku]
      /\ row.total - TotalOf(lines) <= ApplyBps(row.total, Halved(AskedBps, MaxDiscountBps))
  BY <1>3, <1>6, CounterFacts
<1>8. Continues(d) /\ desk'[d].at = "sign" /\ desk'[d].lines = lines
      /\ desk'[d].total = TotalOf(lines)
  BY <1>5 DEF GoesOn
<1> HIDE DEF lines
<1>9. Above(listing, lines)
  BY <1>5, <1>6, <1>7 DEF Above, Stocked
<1>10. Gain(row.total, TotalOf(lines))
  <2>1. row.total \in Nat /\ TotalOf(lines) \in Nat /\ Fee \in Nat
    BY <1>3, <1>7, TotalFacts, DeskAssumption DEF Positive
  <2>2. ApplyBps(row.total, Halved(AskedBps, MaxDiscountBps)) \in Nat
    <3>1. Halved(AskedBps, MaxDiscountBps) \in Nat
      BY DeskAssumption DEF Halved, Lower
    <3> QED
      BY <2>1, <3>1, BpsFacts, Zenon
  <2> QED
    BY <1>5, <1>7, <2>1, <2>2 DEF Gain
<1> QED
  BY <1>1, <1>2, <1>8, <1>9, <1>10, NewPrice DEF row

LEMMA StepKeepsPrice ==
  ASSUME Control, NEW d \in Desks, PriceIsRight(d), Step(d), desk'[d] # Idle
  PROVE  PriceIsRight(d)'
<1>1. desk[d] # Idle /\ Shape(d)
  BY StepShapes DEF Shape
<1>2. CASE LookUp(d) \/ TakeProof(d) \/ StartNegotiation(d) \/ LoadOrder(d)
  <2>1. desk[d].at \in {"gate", "proof", "negotiate", "order"}
    BY <1>2 DEF LookUp, TakeProof, StartNegotiation, LoadOrder
  <2>2. desk'[d].at \notin {"campaign", "sign"}
    <3>1. Advances(d) \/ Takes(d)
      BY <1>1, RepliesLeave DEF Shape, Control
    <3> QED
      BY <2>1, <3>1 DEF Advances, Takes
  <2> QED
    BY <2>2 DEF PriceIsRight
<1>9. CASE LastLook(d)
  <2>1. desk[d].at = "sign"
    BY <1>9 DEF LastLook
  <2>2. Advances(d) \/ Takes(d)
    BY <1>1, RepliesLeave DEF Shape, Control
  <2> QED
    BY <2>1, <2>2 DEF Advances, Takes, PriceIsRight
<1>3. CASE Sign(d) \/ NoStock(d) \/ PlaceOrder(d)
  <2>1. desk[d].at \in {"write", "commit"}
    BY <1>3 DEF Sign, NoStock, PlaceOrder
  <2>2. ~(Advances(d) \/ Takes(d))
    BY <2>1 DEF Advances, Takes
  <2> QED
    BY <1>1, <2>2, RepliesLeave DEF Shape, Control
<1>4. CASE ReadPrices(d)
  BY <1>1, <1>4, ReadPricesKeepsPrice
<1>5. CASE ApplyCampaign(d)
  BY <1>1, <1>5, ApplyCampaignKeepsPrice
<1>6. CASE \E bps \in Proposals : Propose(d, bps)
  BY <1>1, <1>6, ProposeKeepsPrice, DeskAssumption
<1>7. CASE FallBack(d)
  BY <1>1, <1>7, FallBackKeepsPrice
<1>8. CASE Counter(d)
  BY <1>1, <1>8, CounterKeepsPrice
<1> QED
  BY <1>2, <1>3, <1>4, <1>5, <1>6, <1>7, <1>8, <1>9 DEF Step

\* The last look makes the price in hand the one to write, at its catalogue.
LEMMA LastLookIsRight ==
  ASSUME Control, NEW d \in Desks, PriceIsRight(d), LastLook(d), desk'[d] # Idle
  PROVE  WriteIsRight(d)'
<1>1. Typed /\ desk[d].at = "sign" /\ UNCHANGED quotes
  BY DEF Control, LastLook
<1>2. ~\E a \in Answers : Answer(d, a) /\ a.status \in {422, 500}
  BY <1>1, AtAStep, AnswerLeaves, Left DEF Stages
<1>3. /\ AboveMinimum(d) /\ desk'[d].under = listing
      /\ GoesOn(d, "write", desk[d].lines, desk[d].total, desk[d].rule)
  BY <1>1, <1>2, LastLookDoes
<1>4. /\ desk'[d].lines = desk[d].lines /\ desk'[d].total = desk[d].total
      /\ desk'[d].on = desk[d].on /\ desk'[d].edited = desk[d].edited
  BY <1>3 DEF GoesOn, Continues
<1>5. desk[d].total >= MinTotalFor(MinsIn(listing), desk[d].lines)
  BY <1>3, MinsAre DEF AboveMinimum
<1> QED
  BY <1>1, <1>3, <1>4, <1>5 DEF WriteIsRight, PriceIsRight

\* No other step leads to a write.
LEMMA StepKeepsWrite ==
  ASSUME Control, NEW d \in Desks, PriceIsRight(d), Step(d), desk'[d] # Idle
  PROVE  WriteIsRight(d)'
<1>1. Typed /\ desk[d] # Idle /\ Shape(d)
  BY StepShapes DEF Shape, Control
<1>2. Advances(d) \/ Takes(d)
  BY <1>1, RepliesLeave DEF Shape
<1>3. CASE desk[d].at # "sign"
  <2>1. desk'[d].at # "write"
    BY <1>2, <1>3 DEF Advances, Takes
  <2> QED
    BY <2>1 DEF WriteIsRight
<1>4. CASE desk[d].at = "sign"
  <2>1. LastLook(d)
    BY <1>4 DEF Step, LookUp, TakeProof, ReadPrices, ApplyCampaign, Propose, FallBack,
                StartNegotiation, Counter, Sign, LoadOrder, NoStock, PlaceOrder
  <2> QED
    BY <2>1, LastLookIsRight
<1> QED
  BY <1>3, <1>4

LEMMA OldQuote ==
  ASSUME KeepsQuotes, PrevKnown, NEW q \in Signed, QuoteIsRight(q)
  PROVE  QuoteIsRight(q)'
<1>1. /\ quotes'[q].lines = quotes[q].lines /\ quotes'[q].total = quotes[q].total
      /\ quotes'[q].prev = quotes[q].prev /\ quotes'[q].listing = quotes[q].listing
      /\ quotes'[q].edited = quotes[q].edited
  BY DEF KeepsQuotes
<1>2. MinsOf(q)' = MinsOf(q)
  BY <1>1 DEF MinsOf
<1>3. quotes[q].prev # NoQuote => quotes'[quotes[q].prev].total = quotes[quotes[q].prev].total
  BY DEF KeepsQuotes, PrevKnown
<1> QED
  BY <1>1, <1>2, <1>3 DEF QuoteIsRight

\* A quote is signed at the price in hand, which the last look has found high enough.
LEMMA NewQuote ==
  ASSUME Control, NEW d \in Desks, WriteIsRight(d), desk[d].at = "write", Signs(d), NEW n, n = NextQuote
  PROVE  QuoteIsRight(n)'
<1>1. /\ quotes'[n].lines = desk[d].lines /\ quotes'[n].total = desk[d].total
      /\ quotes'[n].prev = desk[d].on /\ quotes'[n].listing = desk[d].under
      /\ quotes'[n].edited = desk[d].edited
  BY DEF Signs
<1>2. AtItsStep(d)
  BY AtAStep DEF Control, Stages
<1>3. MinsOf(n)' = MinsIn(desk[d].under)
  BY <1>1 DEF MinsOf, MinsIn
<1>4. desk[d].on # NoQuote => quotes'[desk[d].on].total = quotes[desk[d].on].total
  BY <1>2 DEF AtItsStep, Signs, KeepsQuotes
<1> QED
  BY <1>1, <1>3, <1>4 DEF QuoteIsRight, WriteIsRight

LEMMA InitIsRight == Init => IInv
<1>1. SUFFICES ASSUME Init PROVE IInv
  OBVIOUS
<1>2. Control /\ Signed = {} /\ \A d \in Desks : desk[d] = Idle
  BY <1>1, InitIsControlled
<1>3. ASSUME NEW c \in Calls PROVE PaidOnce(c)
  <2>1. /\ served[c] = 0 /\ c \notin proofs /\ cache[c].answer = NoAnswer /\ told[c] = {}
    BY <1>1 DEF Init
  <2>2. \A e \in Desks : ~InHand(e, c)
    BY <1>2 DEF InHand
  <2> QED
    BY <2>1, <2>2 DEF PaidOnce
<1> QED
  BY <1>2, <1>3 DEF IInv

\* A step at a desk keeps all of it.
LEMMA StepIsRight ==
  ASSUME IInv, NEW d \in Desks, Step(d)
  PROVE  IInv'
<1>1. Control /\ PrevKnown /\ desk[d] # Idle /\ Elsewhere /\ Shape(d)
      /\ PriceIsRight(d) /\ WriteIsRight(d)
  BY StepShapes DEF IInv, Control, Shape
<1>2. Control' /\ KeepsQuotes /\ (Signed' = Signed \/ Signs(d)) /\ UNCHANGED listing
      /\ \A e \in Desks : e # d => desk'[e] = desk[e]
  BY <1>1, ShapeKeepsControl, ShapeQuotes, ShapeTypes DEF Elsewhere
<1>3. \A c \in Calls : Kind[c] # "order" => PaidOnce(c)'
  BY <1>1, ShapePaysOnce DEF IInv
<1>4. \A q \in Signed' : Accounted(q)'
  BY <1>1, ShapeAccounts DEF IInv
<1>5. ASSUME NEW e \in Desks, desk'[e] # Idle
      PROVE  PriceIsRight(e)' /\ WriteIsRight(e)'
  <2>1. CASE e = d
    <3>1. desk'[d] # Idle
      BY <1>5, <2>1
    <3>2. PriceIsRight(d)' /\ WriteIsRight(d)'
      BY <1>1, <3>1, StepKeepsPrice, StepKeepsWrite
    <3> QED
      BY <2>1, <3>2
  <2>2. CASE e # d
    <3>1. desk'[e] = desk[e] /\ AtItsStep(e) /\ PriceIsRight(e) /\ WriteIsRight(e)
      BY <1>2, <1>5, <2>2 DEF IInv, Control
    <3> QED
      BY <1>2, <3>1, OtherPrice
  <2> QED
    BY <2>1, <2>2
<1>6. \A q \in Signed' : QuoteIsRight(q)'
  <2>1. \A q \in Signed : QuoteIsRight(q)'
    BY <1>1, <1>2, OldQuote DEF IInv
  <2>2. CASE Signed' = Signed
    BY <2>1, <2>2
  <2>3. CASE Signs(d) /\ Signed' # Signed
    <3>1. desk[d].at = "write"
      BY <1>1, <2>3 DEF Shape, Advances, Takes, Replies, TurnsAway, PlacesOrder, Signed
    <3>2. PICK n : n = NextQuote
      OBVIOUS
    <3>3. Signed' = Signed \cup {n}
      BY <2>3, <3>2 DEF Signs
    <3>4. QuoteIsRight(n)'
      BY <1>1, <2>3, <3>1, <3>2, NewQuote
    <3> QED
      BY <2>1, <3>3, <3>4
  <2> QED
    BY <1>2, <2>2, <2>3
<1> QED
  BY <1>2, <1>3, <1>4, <1>5, <1>6 DEF IInv

\* So does what comes from elsewhere.
LEMMA OutsideIsRight ==
  ASSUME IInv, Control', KeepsQuotes, Signed' = Signed, UNCHANGED <<proofs, served, told, cache>>,
         \A c \in Calls, e \in Desks : InHand(e, c)' => InHand(e, c),
         \A q \in Signed : Accounted(q)',
         \A e \in Desks : desk'[e] # Idle => PriceIsRight(e)' /\ WriteIsRight(e)'
  PROVE  IInv'
<1>1. \A c \in Calls : Kind[c] # "order" => PaidOnce(c)'
  BY OutsidePaysOnce DEF IInv
<1>2. \A q \in Signed : QuoteIsRight(q)'
  BY OldQuote DEF IInv, Control
<1> QED
  BY <1>1, <1>2 DEF IInv

LEMMA SameAccounts ==
  ASSUME KeepsQuotes, Signed' = Signed, UNCHANGED <<quotes, orders, stranded>>, \A q \in Signed : Accounted(q)
  PROVE  \A q \in Signed : Accounted(q)'
BY DEF Accounted, Succeeded, Ordered

LEMMA SendIsRight ==
  ASSUME IInv, NEW c \in Calls, NEW on \in QuoteIds \cup {NoQuote}, NEW d \in Desks,
         Send(c, on, d)
  PROVE  IInv'
<1>1. /\ Control' /\ KeepsQuotes /\ Signed' = Signed
      /\ desk'[d].at \in {"gate", "order"}
      /\ \A e \in Desks : e # d => desk'[e] = desk[e]
  BY SendKeepsControl DEF IInv
<1>2. UNCHANGED <<listing, quotes, proofs, cache, orders, served, told, stranded>>
  BY DEF Send
<1>3. \A b \in Calls, e \in Desks : InHand(e, b)' => InHand(e, b)
  BY <1>1 DEF InHand
<1>4. \A q \in Signed : Accounted(q)'
  BY <1>1, <1>2, SameAccounts DEF IInv
<1>5. ASSUME NEW e \in Desks, desk'[e] # Idle
      PROVE  PriceIsRight(e)' /\ WriteIsRight(e)'
  <2>1. CASE e = d
    BY <1>1, <2>1 DEF PriceIsRight, WriteIsRight
  <2>2. CASE e # d
    <3>1. desk'[e] = desk[e] /\ AtItsStep(e) /\ PriceIsRight(e) /\ WriteIsRight(e)
      BY <1>1, <1>5, <2>2 DEF IInv, Control
    <3> QED
      BY <1>1, <1>2, <3>1, OtherPrice
  <2> QED
    BY <2>1, <2>2
<1> QED
  BY <1>1, <1>2, <1>3, <1>4, <1>5, OutsideIsRight

LEMMA ExpiryIsRight ==
  ASSUME IInv, NEW q \in QuoteIds, QuoteExpires(q)
  PROVE  IInv'
<1>1. Control' /\ KeepsQuotes /\ Signed' = Signed
  BY ExpiryKeepsControl DEF IInv
<1>2. UNCHANGED <<listing, proofs, cache, orders, desk, served, told>>
  BY DEF QuoteExpires
<1>3. \A b \in Calls, e \in Desks : InHand(e, b)' => InHand(e, b)
  BY <1>2 DEF InHand
<1>4. \A r \in Signed : Accounted(r)'
  BY <1>1, ExpiryAccounts DEF IInv
<1>5. ASSUME NEW e \in Desks, desk'[e] # Idle
      PROVE  PriceIsRight(e)' /\ WriteIsRight(e)'
  BY <1>1, <1>2, <1>5, OtherPrice DEF IInv, Control
<1> QED
  BY <1>1, <1>2, <1>3, <1>4, <1>5, OutsideIsRight

LEMMA EditIsRight ==
  ASSUME IInv, NEW l \in Listings, Edit(l)
  PROVE  IInv'
<1>1. /\ Control' /\ KeepsQuotes /\ Signed' = Signed
      /\ \A d \in Desks : (desk[d] = Idle <=> desk'[d] = Idle)
      /\ \A d \in Desks : desk[d] # Idle =>
            /\ desk'[d].at = desk[d].at /\ desk'[d].call = desk[d].call
            /\ desk'[d].on = desk[d].on /\ desk'[d].lines = desk[d].lines
            /\ desk'[d].total = desk[d].total /\ desk'[d].rule = desk[d].rule
            /\ desk'[d].under = desk[d].under
            /\ desk'[d].edited \/ (desk[d].at = "write" /\ desk'[d].edited = desk[d].edited)
  BY EditKeepsControl DEF IInv
<1>2. UNCHANGED <<quotes, proofs, cache, orders, served, told, stranded>>
  BY DEF Edit
<1>3. \A b \in Calls, e \in Desks : InHand(e, b)' => InHand(e, b)
  BY <1>1 DEF InHand
<1>4. \A r \in Signed : Accounted(r)'
  BY <1>1, <1>2, SameAccounts DEF IInv
<1>5. ASSUME NEW e \in Desks, desk'[e] # Idle
      PROVE  PriceIsRight(e)' /\ WriteIsRight(e)'
  <2>1. /\ PriceIsRight(e) /\ WriteIsRight(e)
        /\ desk'[e].at = desk[e].at /\ desk'[e].on = desk[e].on
        /\ desk'[e].lines = desk[e].lines /\ desk'[e].total = desk[e].total
        /\ desk'[e].under = desk[e].under
        /\ desk'[e].edited \/ (desk[e].at = "write" /\ desk'[e].edited = desk[e].edited)
    BY <1>1, <1>5 DEF IInv
  <2>2. AtItsStep(e) /\ KeepsQuotes
    BY <1>1, <1>5 DEF IInv, Control
  <2>3. CASE desk[e].at # "write"
    BY <1>2, <2>1, <2>3 DEF PriceIsRight, WriteIsRight
  <2>4. CASE desk[e].at = "write"
    <3>1. PriceIsRight(e)'
      BY <2>1, <2>4 DEF PriceIsRight
    <3>2. desk[e].edited => desk'[e].edited
      BY <2>1
    <3>3. WriteIsRight(e)'
      BY <1>2, <2>1, <2>4, <3>2 DEF WriteIsRight
    <3> QED
      BY <3>1, <3>3
  <2> QED
    BY <2>3, <2>4
<1> QED
  BY <1>1, <1>2, <1>3, <1>4, <1>5, OutsideIsRight

LEMMA CrashIsRight ==
  ASSUME IInv, Crash
  PROVE  IInv'
<1>1. Down /\ UNCHANGED <<quotes, stranded>>
  BY DEF Crash
<1>2. KeepsQuotes /\ Signed' = Signed /\ stranded' \subseteq Signed
  BY <1>1, SameQuotes DEF IInv, Control, OrdersAreKnown
<1>3. Control' /\ \A d \in Desks : desk'[d] = Idle
  BY <1>1, <1>2, DownKeepsControl DEF IInv
<1>4. UNCHANGED <<proofs, cache, orders, served, told>>
  BY <1>1 DEF Down
<1>5. \A b \in Calls, e \in Desks : InHand(e, b)' => InHand(e, b)
  BY <1>3 DEF InHand
<1>6. \A r \in Signed : Accounted(r)'
  BY <1>1, <1>2, <1>4, SameAccounts DEF IInv
<1> QED
  BY <1>2, <1>3, <1>4, <1>5, <1>6, OutsideIsRight

LEMMA HalfWrittenIsRight ==
  ASSUME IInv, NEW d \in Desks, CrashBetweenWrites(d)
  PROVE  IInv'
<1>1. /\ Down /\ KeepsQuotes /\ Signed' = Signed
      /\ desk[d].on \in Signed /\ stranded' = stranded \cup {desk[d].on}
  BY HalfWrittenDoes DEF IInv
<1>2. stranded' \subseteq Signed
  BY <1>1 DEF IInv, Control, OrdersAreKnown
<1>3. Control' /\ \A e \in Desks : desk'[e] = Idle
  BY <1>1, <1>2, DownKeepsControl DEF IInv
<1>4. UNCHANGED <<proofs, cache, orders, served, told>>
  BY <1>1 DEF Down
<1>5. \A b \in Calls, e \in Desks : InHand(e, b)' => InHand(e, b)
  BY <1>3 DEF InHand
<1>6. \A r \in Signed : Accounted(r)'
  BY CrashAccounts DEF IInv
<1> QED
  BY <1>1, <1>3, <1>4, <1>5, <1>6, OutsideIsRight

LEMMA NextIsRight == IInv /\ [Next]_vars => IInv'
<1>1. SUFFICES ASSUME IInv, [Next]_vars PROVE IInv'
  OBVIOUS
<1>2. CASE UNCHANGED vars
  <2>1. UNCHANGED <<listing, quotes, proofs, cache, orders, desk, served, told, sent, resends, edits, crashes, stranded>>
    BY <1>2 DEF vars
  <2>2. Control'
    BY <1>1, <2>1 DEF IInv, Control, Typed, Numbered, QuotesAdd, PrevKnown, OrdersAreKnown,
                      AtItsStep, HasLines, Signed
  <2>3. KeepsQuotes /\ Signed' = Signed
    BY <1>1, <2>1, SameQuotes DEF IInv, Control
  <2>4. \A b \in Calls, e \in Desks : InHand(e, b)' => InHand(e, b)
    BY <2>1 DEF InHand
  <2>5. \A r \in Signed : Accounted(r)'
    BY <1>1, <2>1, <2>3, SameAccounts DEF IInv
  <2>6. \A e \in Desks : desk'[e] # Idle => PriceIsRight(e)' /\ WriteIsRight(e)'
    BY <1>1, <2>1, <2>3, OtherPrice DEF IInv, Control
  <2> QED
    BY <1>1, <2>1, <2>2, <2>3, <2>4, <2>5, <2>6, OutsideIsRight
<1>3. CASE \E c \in Calls, on \in QuoteIds \cup {NoQuote}, d \in Desks : Send(c, on, d)
  BY <1>1, <1>3, SendIsRight
<1>4. CASE \E d \in Desks : Step(d)
  BY <1>1, <1>4, StepIsRight
<1>5. CASE \E q \in QuoteIds : QuoteExpires(q)
  BY <1>1, <1>5, ExpiryIsRight
<1>6. CASE \E l \in Listings : Edit(l)
  BY <1>1, <1>6, EditIsRight
<1>7. CASE Crash
  BY <1>1, <1>7, CrashIsRight
<1>8. CASE \E d \in Desks : CrashBetweenWrites(d)
  BY <1>1, <1>8, HalfWrittenIsRight
<1> QED
  BY <1>1, <1>2, <1>3, <1>4, <1>5, <1>6, <1>7, <1>8 DEF Next

-----------------------------------------------------------------------------
(* The theorems *)

\* Control, payments, successions and prices are as IInv says, always (quotes.ts,
\* payments.ts, campaignPricing.ts).
THEOREM Inductive == Spec => []IInv
<1>1. Init => IInv
  BY InitIsRight
<1>2. IInv /\ [Next]_vars => IInv'
  BY NextIsRight
<1> QED
  BY <1>1, <1>2, PTL DEF Spec

LEMMA TypesFollow == Typed => TypeOK
<1>1. SUFFICES ASSUME Typed PROVE TypeOK
  OBVIOUS
<1>2. ASSUME NEW lines \in SomeLines
      PROVE  \E D \in SUBSET DOMAIN Basket : lines \in [D -> Line]
  <2>1. PICK D \in SUBSET Positions : lines \in [D -> Priced]
    BY <1>2 DEF SomeLines
  <2>2. Priced \subseteq Line
    BY DEF Priced, Line, Positive
  <2> QED
    BY <2>1, <2>2 DEF Positions
<1>3. ASSUME NEW q \in QuoteIds, quotes[q] # Unsigned
      PROVE  \E D \in SUBSET DOMAIN Basket : quotes[q] \in Quote(D)
  <2>1. quotes[q] \in SignedQuotes
    BY <1>1, <1>3 DEF Typed
  <2>2. PICK D \in SUBSET DOMAIN Basket : quotes[q].lines \in [D -> Line]
    BY <1>2, <2>1 DEF SignedQuotes
  <2> QED
    BY <2>1, <2>2 DEF SignedQuotes, Quote
<1>4. ASSUME NEW d \in Desks, desk[d] # Idle
      PROVE  \E D \in SUBSET DOMAIN Basket : desk[d] \in Request(D)
  <2>1. desk[d] \in Requests
    BY <1>1, <1>4 DEF Typed
  <2>2. PICK D \in SUBSET DOMAIN Basket : desk[d].lines \in [D -> Line]
    BY <1>2, <2>1 DEF Requests
  <2> QED
    BY <2>1, <2>2 DEF Requests, Request, Positive
<1> QED
  BY <1>1, <1>3, <1>4 DEF Typed, TypeOK, Kept

\* No quote is signed below its floor: it adds up, it is worth at least its minimum
\* prices together, and line by line unless the catalogue was edited on the way
\* (quotes.ts: spreadDiscount, createQuote).
THEOREM FloorsAreKept == Spec => []FloorsHold
<1>1. IInv => FloorsHold
  <2>1. SUFFICES ASSUME IInv PROVE FloorsHold
    OBVIOUS
  <2>2. Typed /\ QuotesAdd /\ TypeOK
    BY <2>1, TypesFollow DEF IInv, Control
  <2>3. ASSUME NEW q \in Signed
        PROVE  /\ quotes[q].total = TotalOf(quotes[q].lines)
               /\ quotes[q].total >= MinTotalFor(MinsOf(q), quotes[q].lines)
               /\ ~quotes[q].edited =>
                     \A i \in DOMAIN quotes[q].lines :
                         quotes[q].lines[i].unit >= MinsOf(q)[quotes[q].lines[i].sku]
    <3>1. QuoteIsRight(q) /\ Adds(quotes[q].lines, quotes[q].total)
      BY <2>1, <2>2 DEF IInv, QuotesAdd
    <3>2. ~quotes[q].edited => Above(quotes[q].listing, quotes[q].lines)
      BY <3>1 DEF QuoteIsRight
    <3>3. ASSUME ~quotes[q].edited, NEW i \in DOMAIN quotes[q].lines
          PROVE  quotes[q].lines[i].unit >= MinsOf(q)[quotes[q].lines[i].sku]
      BY <3>2, <3>3 DEF Above, MinsOf
    <3> QED
      BY <3>1, <3>3 DEF QuoteIsRight, Adds
  <2> QED
    BY <2>2, <2>3 DEF FloorsHold
<1> QED
  BY <1>1, Inductive, PTL

\* Nobody is given more than the campaigns, the merchant's limit or half of what
\* was asked for allow, and a negotiation is worth its fee (campaignPricing.ts,
\* quotes.ts: applyBoundedDiscount, app.ts: negotiate).
THEOREM DiscountsStayAuthorized == Spec => []DiscountsAreAuthorized
<1>1. IInv => DiscountsAreAuthorized
  <2>1. SUFFICES ASSUME IInv, NEW q \in Signed
                 PROVE  IF quotes[q].prev = NoQuote
                        THEN ~quotes[q].edited =>
                               LET full == TotalOf(Listed(q))
                                   off == full - quotes[q].total
                               IN  /\ off >= 0
                                   /\ \E S \in Stacks :
                                        off <= SumFunctionOnSet([i \in S |-> RuleDiscount(Campaigns[i], full)], S)
                                                 + ApplyBps(full, MaxDiscountBps)
                        ELSE LET before == quotes[quotes[q].prev].total
                             IN  before - quotes[q].total \in
                                   Fee .. ApplyBps(before, Halved(AskedBps, MaxDiscountBps))
    BY DEF DiscountsAreAuthorized
  <2>2. Typed /\ QuoteIsRight(q) /\ Adds(quotes[q].lines, quotes[q].total)
    BY <2>1 DEF IInv, Control, QuotesAdd
  <2>3. CASE quotes[q].prev # NoQuote
    BY <2>2, <2>3 DEF QuoteIsRight, Gain
  <2>4. CASE quotes[q].prev = NoQuote
    <3> DEFINE l == quotes[q].listing
               lines == quotes[q].lines
               full == TotalOf(ListedIn(l, lines))
    <3>1. SUFFICES ASSUME ~quotes[q].edited
                   PROVE  /\ full - quotes[q].total >= 0
                          /\ \E S \in Stacks :
                               full - quotes[q].total <= Allowed(full, S) + ApplyBps(full, MaxDiscountBps)
      <4>1. ListedIn(l, lines) = Listed(q)
        BY DEF ListedIn, Listed
      <4> QED
        BY <2>4, <3>1, <4>1 DEF Allowed
    <3>2. PICK S \in Stacks : Fair(l, lines, S, TRUE)
      BY <2>2, <2>4, <3>1 DEF QuoteIsRight
    <3>3. l \in Listings /\ quotes[q].total = TotalOf(lines)
      BY <2>2, SignedFacts DEF Adds
    <3> HIDE DEF l, lines
    <3>4. full \in Nat /\ TotalOf(lines) \in Nat /\ TotalOf(lines) <= full
      BY <3>2, <3>3, ListedFacts DEF Fair
    <3>5. full - TotalOf(lines) <= Allowed(full, S) + ApplyBps(full, MaxDiscountBps)
      BY <3>2 DEF Fair, Within
    <3> HIDE DEF full
    <3> QED
      BY <3>3, <3>4, <3>5
  <2> QED
    BY <2>3, <2>4
<1> QED
  BY <1>1, Inductive, PTL

\* A payment is worked for once at most and heard of with one answer, whatever is
\* sent again, overlaps or dies (payments.ts: the payment gate).
THEOREM PaymentsAreAnsweredOnce == Spec => []OneAnswerPerPayment
<1>1. IInv => OneAnswerPerPayment
  <2>1. SUFFICES ASSUME IInv, NEW c \in Calls, Kind[c] # "order"
                 PROVE  /\ served[c] <= 1
                        /\ \A a, b \in {x \in told[c] : x.status \notin {402, 409}} :
                              a.status = b.status /\ a.quote = b.quote
    BY DEF OneAnswerPerPayment
  <2>2. PaidOnce(c)
    BY <2>1 DEF IInv
  <2> QED
    BY <2>2 DEF PaidOnce, Refusal
<1> QED
  BY <1>1, Inductive, PTL

\* A quote with a successor or an order is not usable any more, and one that ended
\* has its successor or its order, unless the process stopped between the write
\* that ended it and the next (quotes.ts: createQuote, app.ts: order).
THEOREM QuotesStayAccounted == Spec => []QuotesAreAccounted
<1>1. IInv => QuotesAreAccounted
  BY AccountedIs DEF IInv
<1> QED
  BY <1>1, Inductive, PTL

-----------------------------------------------------------------------------
(* Order *)

\* Of finitely many integers one is least.
LEMMA LeastOf ==
  ASSUME NEW S, IsFiniteSet(S), S # {}, NEW f, \A x \in S : f[x] \in Int
  PROVE  \E x \in S : \A y \in S : f[x] <= f[y]
<1> DEFINE Bad == {T \in SUBSET S : T # {} /\ \A x \in T : \E y \in T : ~(f[x] <= f[y])}
<1>1. SUFFICES ASSUME S \in Bad  PROVE FALSE
  OBVIOUS
<1>2. PICK T \in Bad : \A U \in Bad : U \subseteq T => U = T
  <2>1. Bad \subseteq SUBSET S /\ Bad # {}
    BY <1>1
  <2> HIDE DEF Bad
  <2> QED
    BY <2>1, LeastSet
<1>3. PICK x : x \in T
  BY <1>2
<1> DEFINE U == T \ {x}
<1>4. U \notin Bad /\ U \subseteq T /\ T \subseteq S
  BY <1>2, <1>3
<1>5. CASE U = {}
  <2>1. \A y \in T : y = x
    BY <1>5
  <2> QED
    BY <1>2, <1>3, <1>4, <2>1
<1>6. CASE U # {}
  <2>1. PICK u \in U : \A y \in U : f[u] <= f[y]
    BY <1>4, <1>6
  <2>2. \A y \in T : y = x \/ y \in U
    OBVIOUS
  <2>3. f[x] \in Int /\ f[u] \in Int /\ \A y \in T : f[y] \in Int
    BY <1>3, <1>4, <2>1
  <2>4. CASE f[x] <= f[u]
    <3>1. \A y \in T : f[x] <= f[y]
      BY <2>1, <2>2, <2>3, <2>4
    <3> QED
      BY <1>2, <1>3, <3>1
  <2>5. CASE ~(f[x] <= f[u])
    <3>1. \A y \in T : f[u] <= f[y]
      BY <2>1, <2>2, <2>3, <2>5
    <3> QED
      BY <1>2, <2>1, <3>1
  <2> QED
    BY <2>4, <2>5
<1> QED
  BY <1>5, <1>6

\* Two keys order a set.
Keyed(S, key, second) ==
  IsFiniteSet(S) /\ S \in SUBSET Nat /\ \A k \in S : key[k] \in Int /\ second[k] \in Int

\* There is a foremost one by two keys.
LEMMA ForemostFacts ==
  ASSUME NEW S, NEW key, NEW second, Keyed(S, key, second), S # {}
  PROVE  LET k == Foremost(S, key, second)
         IN  /\ k \in S
             /\ \A j \in S : /\ Precedes(key, second, k, j)
                                \/ (~Precedes(key, second, j, k) /\ k <= j)
                             /\ ~Precedes(key, second, j, k)
                             /\ key[k] <= key[j]
                             /\ key[k] = key[j] => second[k] <= second[j]
<1>1. IsFiniteSet(S) /\ S \in SUBSET Nat /\ \A k \in S : key[k] \in Int /\ second[k] \in Int
  BY DEF Keyed
<1>2. PICK x \in S : \A y \in S : key[x] <= key[y]
  BY <1>1, LeastOf
<1> DEFINE T == {y \in S : key[y] = key[x]}
<1>3. IsFiniteSet(T) /\ x \in T /\ \A y \in T : second[y] \in Int
  BY <1>1, FS_Subset
<1>4. PICK u \in T : \A y \in T : second[u] <= second[y]
  <2> HIDE DEF T
  <2> QED
    BY <1>3, LeastOf
<1> DEFINE U == {y \in T : second[y] = second[u]}
<1>5. PICK k \in U : \A y \in U : k <= y
  <2>1. U \in SUBSET Nat /\ u \in U
    BY <1>1, <1>4
  <2> HIDE DEF U
  <2> QED
    BY <2>1, LeastNumber
<1>6. k \in S /\ key[k] = key[x] /\ second[k] = second[u]
  BY <1>5
<1>7. \A j \in S : Precedes(key, second, k, j) \/ (~Precedes(key, second, j, k) /\ k <= j)
  <2>1. TAKE j \in S
  <2>2. key[x] <= key[j] /\ key[j] \in Int /\ key[k] \in Int /\ second[j] \in Int /\ second[k] \in Int
    BY <1>1, <1>2, <1>6
  <2>3. key[j] = key[k] => second[k] <= second[j]
    BY <1>4, <1>6
  <2>4. key[j] = key[k] /\ second[j] = second[k] => k <= j
    BY <1>5, <1>6
  <2> QED
    BY <1>6, <2>2, <2>3, <2>4 DEF Precedes
<1> DEFINE c == Foremost(S, key, second)
<1>8. /\ c \in S
      /\ \A j \in S : Precedes(key, second, c, j) \/ (~Precedes(key, second, j, c) /\ c <= j)
  BY <1>6, <1>7, Zenon DEF Foremost
<1> HIDE DEF c, T, U
<1>9. \A j \in S : /\ ~Precedes(key, second, j, c)
                   /\ key[c] <= key[j] /\ (key[c] = key[j] => second[c] <= second[j])
  <2>1. TAKE j \in S
  <2>2. key[j] \in Int /\ key[c] \in Int /\ second[j] \in Int /\ second[c] \in Int
    BY <1>1, <1>8
  <2>3. Precedes(key, second, c, j) \/ ~Precedes(key, second, j, c)
    BY <1>8
  <2> QED
    BY <2>2, <2>3 DEF Precedes
<1> QED
  BY <1>8, <1>9, Zenon DEF c

Sorted(order, key, second) ==
  \A m, n \in DOMAIN order : m < n =>
      order[m] # order[n] /\ ~Precedes(key, second, order[n], order[m])

\* A finite set can be sorted by two keys.
LEMMA SortingExists ==
  ASSUME NEW S, NEW key, NEW second, Keyed(S, key, second)
  PROVE  \E order \in [1 .. Cardinality(S) -> S] : Sorted(order, key, second)
<1> DEFINE Bad == {T \in SUBSET S :
                     \A order \in [1 .. Cardinality(T) -> T] : ~Sorted(order, key, second)}
<1>1. SUFFICES ASSUME S \in Bad  PROVE FALSE
  OBVIOUS
<1>2. PICK T \in Bad : \A U \in Bad : U \subseteq T => U = T
  <2>1. Bad \subseteq SUBSET S /\ Bad # {} /\ IsFiniteSet(S)
    BY <1>1 DEF Keyed
  <2> HIDE DEF Bad
  <2> QED
    BY <2>1, LeastSet
<1>3. /\ T \in SUBSET S /\ Keyed(T, key, second)
      /\ \A order \in [1 .. Cardinality(T) -> T] : ~Sorted(order, key, second)
  <2>1. T \in SUBSET S /\ \A order \in [1 .. Cardinality(T) -> T] : ~Sorted(order, key, second)
    BY <1>2
  <2>2. Keyed(T, key, second)
    BY <2>1, FS_Subset DEF Keyed
  <2> QED
    BY <2>1, <2>2
<1>4. IsFiniteSet(T) /\ Cardinality(T) \in Nat
  BY <1>3, FS_CardinalityType DEF Keyed
<1>5. CASE T = {}
  <2>1. Cardinality(T) = 0
    BY <1>5, FS_EmptySet
  <2>2. [n \in 1 .. 0 |-> 0] \in [1 .. Cardinality(T) -> T]
    <3>1. 1 .. 0 = {}
      OBVIOUS
    <3> QED
      BY <1>5, <2>1, <3>1
  <2>3. Sorted([n \in 1 .. 0 |-> 0], key, second)
    BY DEF Sorted
  <2> QED
    BY <1>3, <2>2, <2>3
<1>6. CASE T # {}
  <2>1. PICK x \in T : \A j \in T : ~Precedes(key, second, j, x)
    <3>1. Keyed(T, key, second) /\ T # {}
      BY <1>3, <1>6
    <3> QED
      BY <3>1, ForemostFacts, Zenon
  <2> DEFINE U == T \ {x}
             c == Cardinality(T)
  <2>2. U \notin Bad /\ U \in SUBSET S
    BY <1>2, <1>3, <2>1
  <2>3. PICK f \in [1 .. Cardinality(U) -> U] : Sorted(f, key, second)
    BY <2>2
  <2>4. Cardinality(U) = c - 1 /\ c - 1 \in Nat /\ c \in Nat
    <3>1. Cardinality(T) # 0
      BY <1>4, <1>6, FS_EmptySet
    <3>2. Cardinality(U) = IF x \in T THEN c - 1 ELSE c
      BY <1>4, FS_RemoveElement, Zenon
    <3> QED
      BY <1>4, <2>1, <3>1, <3>2
  <2> HIDE DEF U, c
  <2> DEFINE g == [n \in 1 .. c |-> IF n = 1 THEN x ELSE f[n - 1]]
  <2>5. c \in Nat /\ f \in [1 .. c - 1 -> U]
    BY <2>3, <2>4
  <2>6. \A n \in 1 .. c : g[n] = IF n = 1 THEN x ELSE f[n - 1]
    OBVIOUS
  <2>7. \A n \in 1 .. c : n # 1 => n - 1 \in 1 .. c - 1 /\ f[n - 1] \in U
    <3>1. TAKE n \in 1 .. c
    <3>2. HAVE n # 1
    <3>3. n - 1 \in 1 .. c - 1
      BY <2>4, <3>2
    <3> QED
      BY <2>5, <3>3
  <2>8. g \in [1 .. c -> T]
    BY <2>1, <2>6, <2>7 DEF U
  <2>9. Sorted(g, key, second)
    <3>1. SUFFICES ASSUME NEW m \in 1 .. c, NEW n \in 1 .. c, m < n
                   PROVE  g[m] # g[n] /\ ~Precedes(key, second, g[n], g[m])
      BY DEF Sorted
    <3>2. n # 1 /\ g[n] = f[n - 1] /\ f[n - 1] \in U
      BY <2>5, <2>6, <2>7, <3>1
    <3>3. CASE m = 1
      BY <2>1, <2>6, <3>2, <3>3 DEF U
    <3>4. CASE m # 1
      <4>1. m - 1 \in 1 .. c - 1 /\ n - 1 \in 1 .. c - 1 /\ m - 1 < n - 1 /\ g[m] = f[m - 1]
        BY <2>5, <2>6, <2>7, <3>1, <3>2, <3>4
      <4>2. f[m - 1] # f[n - 1] /\ ~Precedes(key, second, f[n - 1], f[m - 1])
        BY <2>3, <2>5, <4>1 DEF Sorted
      <4> QED
        BY <3>2, <4>1, <4>2
    <3> QED
      BY <3>3, <3>4
  <2> QED
    BY <1>3, <2>8, <2>9 DEF c
<1> QED
  BY <1>5, <1>6
-----------------------------------------------------------------------------
(* Negotiated lines *)

\* Negotiating lowers each line's price by a rule of its own price.
LEMMA NegotiatedFacts ==
  ASSUME NEW lines, Worth(lines), DOMAIN lines # {},
         \A i \in DOMAIN lines : /\ MinPrice[lines[i].sku] \in Positive
                                 /\ lines[i].unit >= MinPrice[lines[i].sku]
  PROVE  \E k \in Nat, t \in Positive :
            Negotiated(lines) = [i \in DOMAIN lines |-> [lines[i] EXCEPT !.unit =
               Lowered(lines[i].unit, MinPrice[lines[i].sku], k, t)]]
<1> DEFINE t == TotalOf(lines)
           m == MinTotalFor(MinPrice, lines)
           half == Halved(RequestedBps, LimitBps)
           discount == ApplyBps(t, Lower(Higher(half, 0), LimitBps))
           target == Higher(m, t - Higher(0, discount))
           k == t - target
<1>1. t \in Positive /\ m \in Nat /\ m <= t
  BY TotalIsPositive, MinimumIsBelow
<1>2. half \in Int
  BY TaskAssumption DEF Halved, Lower
<1>3. Lower(Higher(half, 0), LimitBps) \in Int
  <2> HIDE DEF half
  <2> QED
    BY <1>2, TaskAssumption DEF Lower, Higher
<1>4. discount \in Int
  <2> DEFINE bps == Lower(Higher(half, 0), LimitBps)
  <2>1. bps \in Int
    BY <1>3
  <2> HIDE DEF bps, t
  <2>2. (t * bps) \div 10000 \in Int
    BY <1>1, <2>1 DEF Positive
  <2> QED
    BY <2>2 DEF ApplyBps, bps
<1>5. k \in Nat
  <2> HIDE DEF discount, t, m
  <2> QED
    BY <1>1, <1>4 DEF Higher, Positive
<1>6. Negotiated(lines) = SpreadDiscount(MinPrice, lines, t, discount)
  BY Zenon DEF Negotiated, CounterOffer, ApplyBoundedDiscount
<1>7. SpreadDiscount(MinPrice, lines, t, discount) =
        [i \in DOMAIN lines |-> [lines[i] EXCEPT !.unit =
            lines[i].unit - UnitShare(lines[i], MinPrice[lines[i].sku], k, t)]]
  BY DEF SpreadDiscount
<1> HIDE DEF k, t, discount
<1>8. ASSUME NEW i \in DOMAIN lines
      PROVE  lines[i].unit - UnitShare(lines[i], MinPrice[lines[i].sku], k, t)
               = Lowered(lines[i].unit, MinPrice[lines[i].sku], k, t)
  <2> DEFINE u == lines[i].unit
             q == lines[i].qty
  <2>1. u \in Positive /\ q \in Positive
    BY DEF Worth
  <2> HIDE DEF u, q
  <2>2. k * u \in Nat /\ k * (u * q) = (k * u) * q
    BY <1>5, <2>1 DEF Positive
  <2>3. (k * (u * q)) \div (t * q) = (k * u) \div t
    BY <1>1, <2>1, <2>2, QuantityCancels
  <2>4. UnitShare(lines[i], MinPrice[lines[i].sku], k, t)
          = Lower((k * (u * q)) \div (t * q), u - MinPrice[lines[i].sku])
    BY Zenon DEF UnitShare, LineTotal, u, q
  <2> QED
    BY <2>3, <2>4, Zenon DEF Lowered, u
<1>9. Negotiated(lines) = [i \in DOMAIN lines |-> [lines[i] EXCEPT !.unit =
               Lowered(lines[i].unit, MinPrice[lines[i].sku], k, t)]]
  BY <1>6, <1>7, <1>8, Zenon
<1> QED
  BY <1>1, <1>5, <1>9

-----------------------------------------------------------------------------
(* The inductive invariant of a task *)

Row == [sku : Goods, qty : Positive, essential : BOOLEAN]
PricedLine == [sku : Goods, qty : Positive, unit : Positive]
Offered(p) == [shop : Shops, lines : UNION {[D -> PricedLine] : D \in SUBSET DOMAIN p}]

\* A shop's lines are rows of the list at prices no lower than their minimum,
\* and what it takes for a product is the same on every row.
Honest(p, o) ==
  /\ \A i \in DOMAIN o.lines : /\ o.lines[i].sku = p[i].sku /\ o.lines[i].qty = p[i].qty
                               /\ o.lines[i].unit >= MinPrice[o.lines[i].sku]
  /\ \A i, j \in DOMAIN o.lines : o.lines[i].sku = o.lines[j].sku =>
                                    o.lines[i].unit = o.lines[j].unit
  /\ DOMAIN o.lines # {}

HonestOffers(p) == {o \in Offered(p) : Honest(p, o)}

OneOfEach(s) == \A k, l \in DOMAIN s : s[k] = s[l] => k = l
OnePerShop(os) == \A k, l \in DOMAIN os : os[k].shop = os[l].shop => k = l

TaskTyped ==
  /\ status \in Statuses
  /\ plan \in Seq(Row)
  /\ left \in Seq(Shops)
  /\ offers \in Seq(HonestOffers(plan))
  /\ OnePerShop(offers)

\* No shop is asked twice, quotes are for the approved list, and the options
\* are those built from it and the quotes.
TaskInv ==
  /\ TaskTyped
  /\ status \in {"planning", "awaiting_list_approval", "discovering"} => offers = <<>>
  /\ status = "quoting" =>
       OneOfEach(left) /\ \A k \in DOMAIN offers, n \in DOMAIN left : offers[k].shop # left[n]
  /\ \/ options = <<>> /\ selected = {}
     \/ /\ options = BuildOptions(plan, offers) /\ status \in {"options_ready", "awaiting_approval"}
        /\ \A o \in selected : \E n \in DOMAIN options : o = options[n]

LEMMA AssumedFacts ==
  /\ \A k \in Goods : MinPrice[k] \in Positive
  /\ \A p \in Plans : p \in Seq(Row)
  /\ \A s \in Shops : \A shelf \in Shelves[s] : \A k \in DOMAIN shelf :
       k \in Goods /\ shelf[k].price \in Positive /\ shelf[k].price >= MinPrice[k]
<1>1. \A k \in Goods : MinPrice[k] \in Positive
  BY TaskAssumption DEF Positive
<1>2. \A p \in Plans : p \in Seq(Row)
  BY TaskAssumption, Zenon DEF Row, Positive
<1>3. ASSUME NEW s \in Shops, NEW shelf \in Shelves[s], NEW k \in DOMAIN shelf
      PROVE  k \in Goods /\ shelf[k].price \in Positive /\ shelf[k].price >= MinPrice[k]
  <2>1. k \in Goods /\ shelf[k].price \in Nat /\ shelf[k].price >= MinPrice[k]
    BY TaskAssumption
  <2> QED
    BY <1>1, <2>1 DEF Positive
<1> QED
  BY <1>1, <1>2, <1>3

LEMMA PlanFacts ==
  ASSUME NEW p \in Seq(Row)
  PROVE  /\ DOMAIN p = 1 .. Len(p) /\ Len(p) \in Nat /\ IsFiniteSet(DOMAIN p)
         /\ \A i \in DOMAIN p : /\ p[i] \in Row /\ p[i].sku \in Goods /\ p[i].qty \in Positive
                                /\ p[i].essential \in BOOLEAN
<1>1. DOMAIN p = 1 .. Len(p) /\ Len(p) \in Nat
  BY LenProperties
<1>2. \A i \in DOMAIN p : p[i] \in Row
  BY <1>1, ElementOfSeq
<1>3. IsFiniteSet(DOMAIN p)
  BY <1>1, FS_Interval
<1> QED
  BY <1>1, <1>2, <1>3 DEF Row

LEMMA HonestFacts ==
  ASSUME NEW p \in Seq(Row), NEW o \in HonestOffers(p)
  PROVE  /\ o \in Offered(p) /\ Honest(p, o) /\ o.shop \in Shops
         /\ DOMAIN o.lines \subseteq DOMAIN p /\ DOMAIN o.lines # {}
         /\ o.lines \in [DOMAIN o.lines -> PricedLine]
         /\ Worth(o.lines)
         /\ \A i \in DOMAIN o.lines :
              /\ o.lines[i].sku = p[i].sku /\ o.lines[i].qty = p[i].qty
              /\ MinPrice[o.lines[i].sku] \in Positive /\ o.lines[i].unit >= MinPrice[o.lines[i].sku]
              /\ o.lines[i].unit \in Positive /\ o.lines[i].qty \in Positive
<1>1. o \in Offered(p) /\ Honest(p, o)
  BY DEF HonestOffers
<1>2. o.shop \in Shops /\ o.lines \in UNION {[D -> PricedLine] : D \in SUBSET DOMAIN p}
  BY <1>1 DEF Offered
<1>3. PICK D \in SUBSET DOMAIN p : o.lines \in [D -> PricedLine]
  BY <1>2
<1>4. DOMAIN o.lines = D /\ \A i \in D : o.lines[i] \in PricedLine
  BY <1>3
<1>5. IsFiniteSet(D)
  BY <1>3, PlanFacts, FS_Subset
<1>6. \A i \in D : o.lines[i].sku \in Goods /\ o.lines[i].unit \in Positive /\ o.lines[i].qty \in Positive
  BY <1>4 DEF PricedLine
<1>7. Worth(o.lines)
  BY <1>4, <1>5, <1>6 DEF Worth
<1>8. \A i \in D : MinPrice[o.lines[i].sku] \in Positive
  BY <1>6, AssumedFacts
<1> QED
  BY <1>1, <1>2, <1>3, <1>4, <1>6, <1>7, <1>8 DEF Honest

LEMMA OffersFacts ==
  ASSUME TaskTyped
  PROVE  /\ plan \in Seq(Row) /\ offers \in Seq(HonestOffers(plan)) /\ left \in Seq(Shops)
         /\ DOMAIN offers = 1 .. Len(offers) /\ Len(offers) \in Nat
         /\ IsFiniteSet(DOMAIN offers) /\ DOMAIN offers \in SUBSET Nat
         /\ \A k \in DOMAIN offers : offers[k] \in HonestOffers(plan) /\ offers[k].shop \in Shops
         /\ OnePerShop(offers)
<1>1. plan \in Seq(Row) /\ offers \in Seq(HonestOffers(plan)) /\ left \in Seq(Shops) /\ OnePerShop(offers)
  BY DEF TaskTyped
<1>2. DOMAIN offers = 1 .. Len(offers) /\ Len(offers) \in Nat
  BY <1>1, LenProperties
<1>3. \A k \in DOMAIN offers : offers[k] \in HonestOffers(plan)
  BY <1>1, <1>2, ElementOfSeq
<1>4. \A k \in DOMAIN offers : offers[k].shop \in Shops
  BY <1>1, <1>3, HonestFacts
<1>5. IsFiniteSet(DOMAIN offers)
  BY <1>2, FS_Interval
<1>6. DOMAIN offers \in SUBSET Nat
  BY <1>2
<1> QED
  BY <1>1, <1>2, <1>3, <1>4, <1>5, <1>6

LEMMA NoOffersFacts ==
  ASSUME NEW p
  PROVE  <<>> \in Seq(HonestOffers(p)) /\ OnePerShop(<<>>)
BY DEF OnePerShop

LEMMA TailFacts ==
  ASSUME left \in Seq(Shops), left # <<>>, OneOfEach(left)
  PROVE  /\ Tail(left) \in Seq(Shops) /\ OneOfEach(Tail(left)) /\ Head(left) \in Shops
         /\ \A n \in DOMAIN Tail(left) : Tail(left)[n] # Head(left) /\ \E m \in DOMAIN left : Tail(left)[n] = left[m]
<1>1. /\ Tail(left) \in Seq(Shops) /\ Len(Tail(left)) = Len(left) - 1 /\ Len(left) \in Nat
      /\ \A n \in 1 .. Len(Tail(left)) : Tail(left)[n] = left[n + 1]
      /\ Head(left) = left[1] /\ Head(left) \in Shops /\ Len(left) >= 1
  BY HeadTailProperties, LenProperties, EmptySeq
<1>2. DOMAIN left = 1 .. Len(left) /\ DOMAIN Tail(left) = 1 .. Len(Tail(left))
  BY <1>1, LenProperties
<1>3. \A n \in DOMAIN Tail(left) : /\ n + 1 \in DOMAIN left /\ 1 \in DOMAIN left /\ n + 1 # 1
                                   /\ Tail(left)[n] = left[n + 1]
  BY <1>1, <1>2
<1>4. OneOfEach(Tail(left))
  <2>1. SUFFICES ASSUME NEW k \in DOMAIN Tail(left), NEW l \in DOMAIN Tail(left),
                        Tail(left)[k] = Tail(left)[l]
                 PROVE  k = l
    BY DEF OneOfEach
  <2>2. k + 1 = l + 1
    BY <1>3, <2>1 DEF OneOfEach
  <2> QED
    BY <1>2, <2>2
<1>5. \A n \in DOMAIN Tail(left) : Tail(left)[n] # Head(left)
  BY <1>1, <1>3 DEF OneOfEach
<1> QED
  BY <1>1, <1>3, <1>4, <1>5

LEMMA InitIsSound == TaskInit => TaskInv
<1>1. SUFFICES ASSUME TaskInit PROVE TaskInv
  OBVIOUS
<1>2. status = "planning" /\ plan = <<>> /\ left = <<>> /\ offers = <<>> /\ options = <<>> /\ selected = {}
  BY <1>1 DEF TaskInit
<1>3. plan \in Seq(Row) /\ left \in Seq(Shops) /\ status \in Statuses
  BY <1>2 DEF Statuses
<1>4. TaskTyped
  BY <1>2, <1>3, NoOffersFacts DEF TaskTyped
<1> QED
  BY <1>2, <1>4 DEF TaskInv

\* Before the shops are asked there is nothing but a list.
LEMMA ListOnly ==
  ASSUME TaskInv, status' \in Statuses, plan' \in Seq(Row), left' \in Seq(Shops),
         offers' = <<>>, options' = options, selected' = selected, options = <<>>,
         status' = "quoting" => OneOfEach(left')
  PROVE  TaskInv'
<1>1. TaskTyped'
  <2>1. offers' \in Seq(HonestOffers(plan')) /\ OnePerShop(offers')
    BY NoOffersFacts
  <2> QED
    BY <2>1 DEF TaskTyped
<1>2. options' = <<>> /\ selected' = {}
  BY DEF TaskInv
<1>3. DOMAIN offers' = {}
  OBVIOUS
<1> QED
  BY <1>1, <1>2, <1>3 DEF TaskInv

LEMMA PlanReadyIsSound == ASSUME TaskInv, NEW p \in Plans, PlanReady(p) PROVE TaskInv'
<1>1. /\ status = "planning" /\ status' = "awaiting_list_approval" /\ plan' = p
      /\ left' = left /\ offers' = offers /\ options' = options /\ selected' = selected
  BY DEF PlanReady
<1>2. offers = <<>> /\ options = <<>> /\ left \in Seq(Shops)
  BY <1>1 DEF TaskInv, TaskTyped
<1>3. p \in Seq(Row) /\ status' \in Statuses
  BY <1>1, AssumedFacts DEF Statuses
<1> QED
  BY <1>1, <1>2, <1>3, ListOnly

LEMMA ApprovePlanIsSound ==
  ASSUME TaskInv, NEW rows \in SUBSET DOMAIN plan, ApprovePlan(rows)
  PROVE  TaskInv'
<1>1. /\ status = "awaiting_list_approval" /\ status' = "discovering"
      /\ left' = left /\ offers' = offers /\ options' = options /\ selected' = selected
  BY DEF ApprovePlan
<1>2. offers = <<>> /\ options = <<>> /\ left \in Seq(Shops) /\ plan \in Seq(Row)
  BY <1>1 DEF TaskInv, TaskTyped
<1>3. PICK row \in [1 .. Cardinality(rows) -> rows] : plan' = [n \in DOMAIN row |-> plan[row[n]]]
  BY DEF ApprovePlan
<1>4. Cardinality(rows) \in Nat
  BY <1>2, PlanFacts, FS_Subset, FS_CardinalityType
<1>5. \A n \in 1 .. Cardinality(rows) : plan[row[n]] \in Row
  BY <1>2, <1>3, PlanFacts
<1>6. plan' \in Seq(Row)
  <2>1. plan' = [n \in 1 .. Cardinality(rows) |-> plan[row[n]]]
    BY <1>3
  <2> QED
    BY <1>4, <1>5, <2>1, IsASeq
<1> QED
  BY <1>1, <1>2, <1>6, ListOnly DEF Statuses

LEMMA DiscoverIsSound ==
  ASSUME TaskInv, NEW found \in SUBSET Shops, Discover(found), IsFiniteSet(found)
  PROVE  TaskInv'
<1>1. /\ status = "discovering" /\ status' = "quoting"
      /\ plan' = plan /\ offers' = offers /\ options' = options /\ selected' = selected
  BY DEF Discover
<1>2. offers = <<>> /\ options = <<>> /\ plan \in Seq(Row)
  BY <1>1 DEF TaskInv, TaskTyped
<1>3. PICK order \in [1 .. Cardinality(found) -> found] : ByDistance(order) /\ left' = order
  BY DEF Discover
<1>4. Cardinality(found) \in Nat
  BY FS_CardinalityType
<1>5. left' \in Seq(Shops)
  BY <1>3, <1>4
<1>6. OneOfEach(left')
  <2>1. SUFFICES ASSUME NEW k \in DOMAIN order, NEW l \in DOMAIN order, order[k] = order[l]
                 PROVE  k = l
    BY <1>3 DEF OneOfEach
  <2>2. k \in Int /\ l \in Int /\ ~(k < l) /\ ~(l < k)
    BY <1>3, <1>4, <2>1 DEF ByDistance
  <2> QED
    BY <2>2
<1> QED
  BY <1>1, <1>2, <1>5, <1>6, ListOnly DEF Statuses

\* A step that leaves the list and the quotes alone.
LEMMA SameOffers ==
  ASSUME TaskInv, plan' = plan, offers' = offers, left' \in Seq(Shops), status' \in Statuses
  PROVE  TaskTyped'
BY DEF TaskInv, TaskTyped

LEMMA FailIsSound == ASSUME TaskInv, Fail PROVE TaskInv'
<1>1. /\ status \in {"planning", "discovering", "quoting", "researching"} /\ status' = "failed"
      /\ plan' = plan /\ left' = left /\ offers' = offers /\ options' = options /\ selected' = selected
  BY DEF Fail
<1>2. left' \in Seq(Shops) /\ status' \in Statuses
  BY <1>1 DEF TaskInv, TaskTyped, Statuses
<1>3. TaskTyped'
  BY <1>1, <1>2, SameOffers
<1>4. options' = <<>> /\ selected' = {}
  BY <1>1 DEF TaskInv
<1> QED
  BY <1>1, <1>3, <1>4 DEF TaskInv

LEMMA NoOfferIsSound == ASSUME TaskInv, NEW s \in Shops, NoOffer(s) PROVE TaskInv'
<1>1. /\ status = "quoting" /\ left # <<>> /\ status' = status /\ left' = Tail(left)
      /\ plan' = plan /\ offers' = offers /\ options' = options /\ selected' = selected
  BY DEF NoOffer, Asking
<1>2. left \in Seq(Shops) /\ OneOfEach(left) /\ status \in Statuses
  BY <1>1 DEF TaskInv, TaskTyped
<1>3. TaskTyped'
  BY <1>1, <1>2, TailFacts, SameOffers
<1>4. options' = <<>> /\ selected' = {}
  BY <1>1 DEF TaskInv
<1>5. OneOfEach(left') /\ \A k \in DOMAIN offers', n \in DOMAIN left' : offers'[k].shop # left'[n]
  BY <1>1, <1>2, TailFacts DEF TaskInv
<1> QED
  BY <1>1, <1>3, <1>4, <1>5 DEF TaskInv

\* A basket quote is honest: it has the list prices of one shelf.
LEMMA BasketIsHonest ==
  ASSUME TaskTyped, NEW s \in Shops, NEW shelf \in Shelves[s], OnShelf(s, shelf) # {}
  PROVE  [shop |-> s, lines |-> BasketQuote(s, shelf)] \in HonestOffers(plan)
<1> DEFINE D == OnShelf(s, shelf)
           lines == BasketQuote(s, shelf)
           o == [shop |-> s, lines |-> lines]
<1>1. D \in SUBSET DOMAIN plan /\ D # {}
  BY DEF OnShelf, Wanted
<1>2. ASSUME NEW i \in D
      PROVE  /\ plan[i].sku \in Goods /\ plan[i].qty \in Positive
             /\ shelf[plan[i].sku].price \in Positive
             /\ shelf[plan[i].sku].price >= MinPrice[plan[i].sku]
  <2>1. plan[i].sku \in DOMAIN shelf
    BY DEF OnShelf
  <2>2. plan[i].sku \in Goods /\ plan[i].qty \in Positive
    BY <1>1, OffersFacts, PlanFacts
  <2> QED
    BY <2>1, <2>2, AssumedFacts
<1>3. lines = [i \in D |-> [sku |-> plan[i].sku, qty |-> plan[i].qty,
                            unit |-> shelf[plan[i].sku].price]]
  BY DEF BasketQuote
<1> HIDE DEF D, lines
<1>4. lines \in [D -> PricedLine] /\ DOMAIN lines = D
  BY <1>2, <1>3 DEF PricedLine
<1>5. \A i \in D : /\ lines[i].sku = plan[i].sku /\ lines[i].qty = plan[i].qty
                   /\ lines[i].unit = shelf[plan[i].sku].price
  BY <1>3
<1>6. Honest(plan, o)
  <2>1. o.lines = lines
    OBVIOUS
  <2> HIDE DEF o
  <2> QED
    BY <1>1, <1>2, <1>4, <1>5, <2>1 DEF Honest
<1>7. o \in Offered(plan)
  BY <1>1, <1>4 DEF Offered
<1> QED
  BY <1>6, <1>7 DEF HonestOffers, lines

LEMMA AppendFacts ==
  ASSUME NEW S, NEW s \in Seq(S), NEW e \in S
  PROVE  /\ Append(s, e) \in Seq(S)
         /\ DOMAIN Append(s, e) = 1 .. Len(s) + 1 /\ DOMAIN s = 1 .. Len(s) /\ Len(s) \in Nat
         /\ \A k \in DOMAIN s : Append(s, e)[k] = s[k]
         /\ Append(s, e)[Len(s) + 1] = e
BY LenProperties, AppendProperties

LEMMA GatherQuoteIsSound ==
  ASSUME TaskInv, NEW s \in Shops, NEW shelf \in Shelves[s], GatherQuote(s, shelf)
  PROVE  TaskInv'
<1> DEFINE o == [shop |-> s, lines |-> BasketQuote(s, shelf)]
<1>1. /\ status = "quoting" /\ left # <<>> /\ s = Head(left) /\ OnShelf(s, shelf) # {}
      /\ status' = status /\ left' = Tail(left) /\ offers' = Append(offers, o)
      /\ plan' = plan /\ options' = options /\ selected' = selected
  BY DEF GatherQuote, Asking
<1>2. /\ TaskTyped /\ left \in Seq(Shops) /\ OneOfEach(left) /\ status \in Statuses
      /\ plan \in Seq(Row)
      /\ \A k \in DOMAIN offers, n \in DOMAIN left : offers[k].shop # left[n]
  BY <1>1 DEF TaskInv, TaskTyped
<1>3. o \in HonestOffers(plan) /\ o.shop = s
  BY <1>1, <1>2, BasketIsHonest
<1> HIDE DEF o
<1>4. offers \in Seq(HonestOffers(plan)) /\ OnePerShop(offers)
  BY <1>2, OffersFacts
<1>5. /\ offers' \in Seq(HonestOffers(plan))
      /\ DOMAIN offers' = 1 .. Len(offers) + 1 /\ DOMAIN offers = 1 .. Len(offers) /\ Len(offers) \in Nat
      /\ \A k \in DOMAIN offers : offers'[k] = offers[k]
      /\ offers'[Len(offers) + 1] = o
  BY <1>1, <1>3, <1>4, AppendFacts
<1>6. \A k \in DOMAIN offers' : k \in DOMAIN offers \/ k = Len(offers) + 1
  BY <1>5
<1>7. 1 \in DOMAIN left /\ s = left[1]
  BY <1>1, <1>2, LenProperties, EmptySeq, HeadTailProperties
<1>8. OnePerShop(offers')
  BY <1>2, <1>3, <1>4, <1>5, <1>6, <1>7 DEF OnePerShop
<1>9. TaskTyped'
  BY <1>1, <1>2, <1>5, <1>8, TailFacts DEF TaskTyped
<1>10. OneOfEach(left') /\ \A k \in DOMAIN offers', n \in DOMAIN left' : offers'[k].shop # left'[n]
  BY <1>1, <1>2, <1>3, <1>5, <1>6, TailFacts
<1>11. options' = <<>> /\ selected' = {}
  BY <1>1 DEF TaskInv
<1> QED
  BY <1>1, <1>9, <1>10, <1>11 DEF TaskInv

LEMMA EndQuotingIsSound == ASSUME TaskInv, EndQuoting PROVE TaskInv'
<1>1. /\ status = "quoting" /\ status' \in {"failed", "researching"}
      /\ left' = [k \in DOMAIN offers |-> offers[k].shop]
      /\ plan' = plan /\ offers' = offers /\ options' = options /\ selected' = selected
  BY DEF EndQuoting
<1>2. left' \in Seq(Shops) /\ status' \in Statuses
  BY <1>1, OffersFacts DEF TaskInv, Statuses
<1>3. TaskTyped'
  BY <1>1, <1>2, SameOffers
<1>4. options' = <<>> /\ selected' = {}
  BY <1>1 DEF TaskInv
<1> QED
  BY <1>1, <1>3, <1>4 DEF TaskInv

LEMMA KeepOfferIsSound == ASSUME TaskInv, KeepOffer PROVE TaskInv'
<1>1. /\ status = "researching" /\ left # <<>> /\ status' = status /\ left' = Tail(left)
      /\ plan' = plan /\ offers' = offers /\ options' = options /\ selected' = selected
  BY DEF KeepOffer
<1>2. left' \in Seq(Shops) /\ status' \in Statuses
  BY <1>1, HeadTailProperties DEF TaskInv, TaskTyped
<1>3. TaskTyped'
  BY <1>1, <1>2, SameOffers
<1>4. options' = <<>> /\ selected' = {}
  BY <1>1 DEF TaskInv
<1> QED
  BY <1>1, <1>3, <1>4 DEF TaskInv

LEMMA OptionsReadyIsSound == ASSUME TaskInv, OptionsReady PROVE TaskInv'
<1>1. /\ status = "researching" /\ options' = BuildOptions(plan, offers)
      /\ status' = IF options' = <<>> THEN "failed" ELSE "options_ready"
      /\ plan' = plan /\ left' = left /\ offers' = offers /\ selected' = selected
  BY DEF OptionsReady
<1>2. left' \in Seq(Shops) /\ status' \in Statuses
  BY <1>1 DEF TaskInv, TaskTyped, Statuses
<1>3. TaskTyped'
  BY <1>1, <1>2, SameOffers
<1>4. selected' = {}
  BY <1>1 DEF TaskInv
<1>5. BuildOptions(plan, offers)' = BuildOptions(plan, offers)
  BY <1>1
<1> QED
  BY <1>1, <1>3, <1>4, <1>5 DEF TaskInv

LEMMA SelectOptionIsSound ==
  ASSUME TaskInv, NEW n \in DOMAIN options, SelectOption(n)
  PROVE  TaskInv'
<1>1. /\ status = "options_ready" /\ status' = "awaiting_approval" /\ selected' = {options[n]}
      /\ plan' = plan /\ left' = left /\ offers' = offers /\ options' = options
  BY DEF SelectOption
<1>2. left' \in Seq(Shops) /\ status' \in Statuses
  BY <1>1 DEF TaskInv, TaskTyped, Statuses
<1>3. TaskTyped'
  BY <1>1, <1>2, SameOffers
<1>4. options = BuildOptions(plan, offers)
  BY DEF TaskInv
<1>5. BuildOptions(plan, offers)' = BuildOptions(plan, offers)
  BY <1>1
<1> QED
  BY <1>1, <1>3, <1>4, <1>5 DEF TaskInv

\* A negotiated quote is for the same rows at prices no higher, and honest.
LEMMA NegotiatedIsHonest ==
  ASSUME TaskTyped, NEW k \in DOMAIN offers
  PROVE  LET old == offers[k].lines
             new == Negotiated(old)
         IN  /\ DOMAIN new = DOMAIN old
             /\ \A i \in DOMAIN old : /\ new[i].sku = old[i].sku /\ new[i].qty = old[i].qty
                                      /\ new[i].unit \in Positive /\ new[i].unit <= old[i].unit
             /\ [offers[k] EXCEPT !.lines = new] \in HonestOffers(plan)
<1> DEFINE o == offers[k]
           old == o.lines
           D == DOMAIN old
           min(i) == MinPrice[old[i].sku]
<1>1. /\ plan \in Seq(Row) /\ o \in HonestOffers(plan)
      /\ o \in Offered(plan) /\ Honest(plan, o) /\ D \subseteq DOMAIN plan /\ D # {}
      /\ old \in [D -> PricedLine] /\ Worth(old)
      /\ \A i \in D : /\ old[i].sku = plan[i].sku /\ old[i].qty = plan[i].qty
                      /\ min(i) \in Positive /\ old[i].unit >= min(i)
                      /\ old[i].unit \in Positive /\ old[i].qty \in Positive
  BY OffersFacts, HonestFacts
<1> HIDE DEF o
<1>2. PICK d \in Nat, t \in Positive :
         Negotiated(old) = [i \in D |-> [old[i] EXCEPT !.unit = Lowered(old[i].unit, min(i), d, t)]]
  BY <1>1, NegotiatedFacts
<1> DEFINE new == Negotiated(old)
           low(i) == Lowered(old[i].unit, min(i), d, t)
<1>3. ASSUME NEW i \in D
      PROVE  low(i) \in Positive /\ min(i) <= low(i) /\ low(i) <= old[i].unit
  <2>1. /\ old[i].unit \in Positive /\ min(i) \in Positive /\ min(i) <= old[i].unit
        /\ d \in Nat /\ t \in Positive
    BY <1>1
  <2> HIDE DEF old, min
  <2> QED
    BY <2>1, LoweredFacts
<1>4. \A i \in D : new[i] = [old[i] EXCEPT !.unit = low(i)]
  BY <1>2
<1>5. DOMAIN new = D
  BY <1>2
<1> HIDE DEF new, low
<1>6. ASSUME NEW i \in D
      PROVE  /\ new[i] \in PricedLine /\ new[i].sku = old[i].sku /\ new[i].qty = old[i].qty
             /\ new[i].unit = low(i)
  <2>1. old[i] \in PricedLine /\ low(i) \in Positive
    BY <1>1, <1>3
  <2> HIDE DEF old
  <2> QED
    BY <1>4, <2>1 DEF PricedLine
<1>7. ASSUME NEW i \in D, NEW j \in D, old[i].sku = old[j].sku
      PROVE  low(i) = low(j)
  <2>1. old[i].unit = old[j].unit
    BY <1>1, <1>7 DEF Honest
  <2> QED
    BY <1>7, <2>1 DEF low
<1> DEFINE n == [o EXCEPT !.lines = new]
<1>8. n.lines = new /\ n.shop = o.shop /\ n \in Offered(plan)
  <2>1. new \in [D -> PricedLine]
    <3>1. new = [i \in D |-> [old[i] EXCEPT !.unit = low(i)]]
      BY <1>2 DEF new, low
    <3> QED
      BY <1>4, <1>6, <3>1
  <2> HIDE DEF D
  <2>2. o \in [shop : Shops, lines : UNION {[E -> PricedLine] : E \in SUBSET DOMAIN plan}]
    BY <1>1 DEF Offered
  <2>3. new \in UNION {[E -> PricedLine] : E \in SUBSET DOMAIN plan}
    BY <1>1, <2>1
  <2> QED
    BY <2>2, <2>3 DEF Offered
<1>9. Honest(plan, n)
  <2>1. n.lines = new
    BY <1>8
  <2>2. \A i \in D : new[i].sku = plan[i].sku /\ new[i].qty = plan[i].qty
    BY <1>1, <1>6
  <2>3. \A i \in D : new[i].unit >= MinPrice[new[i].sku]
    <3>1. TAKE i \in D
    <3>2. low(i) \in Positive /\ min(i) \in Positive /\ min(i) <= low(i)
      BY <1>1, <1>3
    <3>3. new[i].unit = low(i) /\ MinPrice[new[i].sku] = min(i)
      BY <1>6
    <3> QED
      BY <3>2, <3>3 DEF Positive
  <2>4. \A i, j \in D : new[i].sku = new[j].sku => new[i].unit = new[j].unit
    BY <1>6, <1>7
  <2> HIDE DEF n, D
  <2> QED
    BY <1>1, <1>5, <2>1, <2>2, <2>3, <2>4 DEF Honest
<1>10. n \in HonestOffers(plan)
  BY <1>8, <1>9 DEF HonestOffers
<1> QED
  BY <1>3, <1>5, <1>6, <1>10 DEF new, o

\* The quotes after a negotiation.
LEMMA NegotiateOfferDoes ==
  ASSUME TaskInv, NEW k \in DOMAIN offers, NegotiateOffer(k)
  PROVE  /\ status = "researching" /\ left # <<>>
         /\ offers' = [offers EXCEPT ![k].lines = Negotiated(@)] /\ left' = Tail(left)
         /\ status' = status /\ plan' = plan /\ options' = options /\ selected' = selected
         /\ DOMAIN offers' = DOMAIN offers
         /\ offers'[k] = [offers[k] EXCEPT !.lines = Negotiated(offers[k].lines)]
         /\ \A l \in DOMAIN offers : /\ offers'[l].shop = offers[l].shop
                                     /\ l # k => offers'[l] = offers[l]
                                     /\ offers'[l] \in HonestOffers(plan)
<1>1. /\ status = "researching" /\ left # <<>>
      /\ offers' = [offers EXCEPT ![k].lines = Negotiated(@)] /\ left' = Tail(left)
      /\ status' = status /\ plan' = plan /\ options' = options /\ selected' = selected
  BY DEF NegotiateOffer, Negotiable
<1>2. TaskTyped
  BY DEF TaskInv
<1>3. /\ DOMAIN offers' = DOMAIN offers
      /\ offers'[k] = [offers[k] EXCEPT !.lines = Negotiated(offers[k].lines)]
      /\ \A l \in DOMAIN offers : l # k => offers'[l] = offers[l]
  BY <1>1
<1>4. offers'[k] \in HonestOffers(plan)
  BY <1>2, <1>3, NegotiatedIsHonest
<1>5. offers'[k].shop = offers[k].shop
  <2>1. offers[k] \in [shop : Shops, lines : UNION {[D -> PricedLine] : D \in SUBSET DOMAIN plan}]
    BY <1>2, OffersFacts, HonestFacts DEF Offered
  <2> QED
    BY <1>3, <2>1
<1> QED
  BY <1>1, <1>2, <1>3, <1>4, <1>5, OffersFacts

LEMMA NegotiateOfferIsSound ==
  ASSUME TaskInv, NEW k \in DOMAIN offers, NegotiateOffer(k)
  PROVE  TaskInv'
<1>1. /\ status = "researching" /\ left # <<>> /\ left' = Tail(left)
      /\ status' = status /\ plan' = plan /\ options' = options /\ selected' = selected
      /\ offers' = [offers EXCEPT ![k].lines = Negotiated(@)]
      /\ DOMAIN offers' = DOMAIN offers
      /\ \A l \in DOMAIN offers : /\ offers'[l].shop = offers[l].shop
                                  /\ offers'[l] \in HonestOffers(plan)
  BY NegotiateOfferDoes
<1>2. /\ TaskTyped /\ left \in Seq(Shops) /\ status \in Statuses /\ OnePerShop(offers)
      /\ DOMAIN offers = 1 .. Len(offers) /\ Len(offers) \in Nat
  BY OffersFacts DEF TaskInv, TaskTyped
<1>3. offers' \in Seq(HonestOffers(plan'))
  <2>1. offers' = [l \in 1 .. Len(offers) |-> offers'[l]]
    BY <1>1, <1>2
  <2>2. \A l \in 1 .. Len(offers) : offers'[l] \in HonestOffers(plan')
    BY <1>1, <1>2
  <2> QED
    BY <1>2, <2>1, <2>2, IsASeq
<1>4. OnePerShop(offers')
  BY <1>1, <1>2 DEF OnePerShop
<1>5. left' \in Seq(Shops) /\ plan' \in Seq(Row)
  BY <1>1, <1>2, HeadTailProperties, OffersFacts
<1>6. TaskTyped'
  BY <1>1, <1>2, <1>3, <1>4, <1>5 DEF TaskTyped
<1>7. options' = <<>> /\ selected' = {}
  BY <1>1 DEF TaskInv
<1> QED
  BY <1>1, <1>6, <1>7 DEF TaskInv

LEMMA TaskNextIsSound == TaskInv /\ [TaskNext]_taskVars => TaskInv'
<1>1. SUFFICES ASSUME TaskInv, [TaskNext]_taskVars PROVE TaskInv'
  OBVIOUS
<1>2. ASSUME NEW p \in Plans, PlanReady(p) PROVE TaskInv'
  BY <1>1, <1>2, PlanReadyIsSound
<1>3. ASSUME NEW rows \in SUBSET DOMAIN plan, ApprovePlan(rows) PROVE TaskInv'
  BY <1>1, <1>3, ApprovePlanIsSound
<1>4. ASSUME NEW found \in SUBSET Shops, Discover(found) PROVE TaskInv'
  BY <1>1, <1>4, DiscoverIsSound, ShopAssumption, FS_Subset
<1>5. ASSUME NEW s \in Shops, NoOffer(s) PROVE TaskInv'
  BY <1>1, <1>5, NoOfferIsSound
<1>6. ASSUME NEW s \in Shops, NEW shelf \in Shelves[s], GatherQuote(s, shelf) PROVE TaskInv'
  BY <1>1, <1>6, GatherQuoteIsSound
<1>7. ASSUME NEW k \in DOMAIN offers, NegotiateOffer(k) PROVE TaskInv'
  BY <1>1, <1>7, NegotiateOfferIsSound
<1>8. ASSUME NEW n \in DOMAIN options, SelectOption(n) PROVE TaskInv'
  BY <1>1, <1>8, SelectOptionIsSound
<1>9. Fail \/ EndQuoting \/ KeepOffer \/ OptionsReady => TaskInv'
  BY <1>1, FailIsSound, EndQuotingIsSound, KeepOfferIsSound, OptionsReadyIsSound
<1>10. CASE UNCHANGED taskVars
  <2>1. /\ status' = status /\ plan' = plan /\ left' = left /\ offers' = offers
        /\ options' = options /\ selected' = selected
    BY <1>10 DEF taskVars
  <2>2. BuildOptions(plan, offers)' = BuildOptions(plan, offers)
    BY <2>1
  <2> QED
    BY <1>1, <2>1, <2>2 DEF TaskInv, TaskTyped
<1> QED
  BY <1>1, <1>2, <1>3, <1>4, <1>5, <1>6, <1>7, <1>8, <1>9, <1>10, Zenon DEF TaskNext

\* In every state of a task: no shop is asked or quotes twice, quotes are honest,
\* and the options are those of the approved list and the quotes as they stand.
THEOREM TaskInductive == TaskSpec => []TaskInv
<1>1. TaskInit => TaskInv
  BY InitIsSound
<1>2. TaskInv /\ [TaskNext]_taskVars => TaskInv'
  BY TaskNextIsSound
<1> QED
  BY <1>1, <1>2, PTL DEF TaskSpec

-----------------------------------------------------------------------------
(* What quotes serve, and what negotiating does to it *)

LEMMA ServingIs ==
  ASSUME NEW lines, NEW item, NEW u
  PROVE  u \in ServingUnits(lines, item) <=>
           \E n \in DOMAIN lines : Serves(lines[n], item) /\ u = lines[n].unit
BY DEF ServingUnits

LEMMA ServableFacts ==
  ASSUME NEW i \in Servable
  PROVE  i \in DOMAIN plan /\ \E k \in DOMAIN offers : k \in Servers(i)
BY DEF Servable, Servers

\* There is a lowest price for what can be served.
LEMMA LowestFacts ==
  ASSUME TaskTyped, NEW i \in Servable
  PROVE  /\ \E k \in Servers(i) : LowestUnit(i) \in ServingUnits(offers[k].lines, plan[i])
         /\ \A k \in Servers(i) : \A v \in ServingUnits(offers[k].lines, plan[i]) :
              v \in Nat /\ LowestUnit(i) <= v
         /\ LowestUnit(i) \in Nat
<1> DEFINE units == UNION {ServingUnits(offers[k].lines, plan[i]) : k \in Servers(i)}
<1>1. \A k \in Servers(i) : k \in DOMAIN offers /\ ServingUnits(offers[k].lines, plan[i]) # {}
  BY DEF Servers
<1>2. ASSUME NEW k \in Servers(i), NEW v \in ServingUnits(offers[k].lines, plan[i])
      PROVE  v \in Nat
  <2>1. PICK n \in DOMAIN offers[k].lines : v = offers[k].lines[n].unit
    BY <1>2, ServingIs
  <2>2. offers[k] \in HonestOffers(plan) /\ plan \in Seq(Row)
    BY <1>1, OffersFacts
  <2>3. offers[k].lines[n].unit \in Positive
    BY <2>1, <2>2, HonestFacts
  <2> QED
    BY <2>1, <2>3 DEF Positive
<1>3. units \in SUBSET Nat /\ units # {}
  BY <1>1, <1>2, ServableFacts
<1>4. \E u \in units : \A v \in units : u <= v
  <2> HIDE DEF units
  <2> QED
    BY <1>3, LeastNumber
<1>5. \E u \in units : \A k \in Servers(i) : \A v \in ServingUnits(offers[k].lines, plan[i]) : u <= v
  BY <1>4
<1>6. LowestUnit(i) \in units /\ \A k \in Servers(i) :
        \A v \in ServingUnits(offers[k].lines, plan[i]) : LowestUnit(i) <= v
  BY <1>5, Zenon DEF LowestUnit
<1> QED
  BY <1>2, <1>3, <1>6

LowestIs(i) ==
  /\ LowestUnit(i) \in Nat
  /\ \A k \in Servers(i) : \A v \in ServingUnits(offers[k].lines, plan[i]) :
        v \in Nat /\ LowestUnit(i) <= v

LEMMA LowestAlways == TaskTyped => \A i \in Servable : LowestIs(i)
BY LowestFacts DEF LowestIs

\* The same rows at prices no higher.
Undercuts(new, old) ==
  /\ DOMAIN new = DOMAIN old
  /\ \A i \in DOMAIN old : /\ new[i].sku = old[i].sku /\ new[i].qty = old[i].qty
                           /\ new[i].unit \in Nat /\ old[i].unit \in Nat /\ new[i].unit <= old[i].unit

LEMMA UndercutFacts ==
  ASSUME NEW new, NEW old, Undercuts(new, old), NEW item
  PROVE  /\ ServingUnits(new, item) = {} <=> ServingUnits(old, item) = {}
         /\ \A v \in ServingUnits(old, item) : \E w \in ServingUnits(new, item) : w <= v
         /\ {l.sku : l \in Range(new)} = {l.sku : l \in Range(old)}
<1>1. DOMAIN new = DOMAIN old /\ \A n \in DOMAIN old :
         /\ Serves(new[n], item) <=> Serves(old[n], item)
         /\ new[n].sku = old[n].sku /\ new[n].unit <= old[n].unit
  BY DEF Undercuts, Serves
<1>2. ASSUME NEW v \in ServingUnits(old, item)
      PROVE  \E w \in ServingUnits(new, item) : w <= v
  <2>1. PICK n \in DOMAIN old : Serves(old[n], item) /\ v = old[n].unit
    BY <1>2, ServingIs
  <2>2. new[n].unit \in ServingUnits(new, item) /\ new[n].unit <= v
    BY <1>1, <2>1, ServingIs
  <2> QED
    BY <2>2
<1>3. ASSUME NEW w \in ServingUnits(new, item) PROVE ServingUnits(old, item) # {}
  <2>1. PICK n \in DOMAIN new : Serves(new[n], item)
    BY <1>3, ServingIs
  <2>2. old[n].unit \in ServingUnits(old, item)
    BY <1>1, <2>1, ServingIs
  <2> QED
    BY <2>2
<1>4. {l.sku : l \in Range(new)} = {l.sku : l \in Range(old)}
  BY <1>1 DEF Range
<1> QED
  BY <1>2, <1>3, <1>4

\* After a step of a task under research every quote undercuts the one before.
LEMMA ResearchUndercuts ==
  ASSUME TaskInv, [TaskNext]_taskVars, status = "researching"
  PROVE  /\ plan' = plan /\ DOMAIN offers' = DOMAIN offers
         /\ \A l \in DOMAIN offers : /\ offers'[l].shop = offers[l].shop
                                     /\ Undercuts(offers'[l].lines, offers[l].lines)
<1>1. ASSUME NEW l \in DOMAIN offers PROVE Undercuts(offers[l].lines, offers[l].lines)
  <2>1. \A i \in DOMAIN offers[l].lines : offers[l].lines[i].unit \in Positive
    BY <1>1, OffersFacts, HonestFacts DEF TaskInv
  <2>2. \A i \in DOMAIN offers[l].lines : /\ offers[l].lines[i].unit \in Nat
                                          /\ offers[l].lines[i].unit <= offers[l].lines[i].unit
    BY <2>1 DEF Positive
  <2> QED
    BY <2>2, Zenon DEF Undercuts
<1>2. CASE plan' = plan /\ offers' = offers
  BY <1>1, <1>2
<1>3. ASSUME NEW k \in DOMAIN offers, NegotiateOffer(k)
      PROVE  /\ plan' = plan /\ DOMAIN offers' = DOMAIN offers
             /\ \A l \in DOMAIN offers : /\ offers'[l].shop = offers[l].shop
                                         /\ Undercuts(offers'[l].lines, offers[l].lines)
  <2> DEFINE old == offers[k].lines
             new == Negotiated(old)
  <2>1. /\ plan' = plan /\ DOMAIN offers' = DOMAIN offers
        /\ offers'[k] = [offers[k] EXCEPT !.lines = new]
        /\ \A l \in DOMAIN offers : /\ offers'[l].shop = offers[l].shop
                                    /\ l # k => offers'[l] = offers[l]
    BY <1>3, NegotiateOfferDoes
  <2>2. /\ DOMAIN new = DOMAIN old
        /\ \A i \in DOMAIN old : /\ new[i].sku = old[i].sku /\ new[i].qty = old[i].qty
                                 /\ new[i].unit \in Positive /\ new[i].unit <= old[i].unit
    BY <1>3, NegotiatedIsHonest, Zenon DEF TaskInv
  <2>3. \A i \in DOMAIN old : old[i].unit \in Nat
    BY <1>1 DEF Undercuts
  <2>4. \A i \in DOMAIN old : new[i].unit \in Nat
    BY <2>2 DEF Positive
  <2> HIDE DEF new
  <2>5. Undercuts(new, old)
    BY <2>2, <2>3, <2>4, Zenon DEF Undercuts
  <2>6. offers'[k].lines = new
    <3>1. offers[k] \in [shop : Shops, lines : UNION {[D -> PricedLine] : D \in SUBSET DOMAIN plan}]
      BY <1>3, OffersFacts, HonestFacts DEF Offered, TaskInv
    <3> QED
      BY <2>1, <3>1
  <2> HIDE DEF old
  <2>7. \A l \in DOMAIN offers : Undercuts(offers'[l].lines, offers[l].lines)
    BY <1>1, <2>1, <2>5, <2>6 DEF old
  <2> QED
    BY <2>1, <2>7
<1>4. CASE UNCHANGED taskVars
  BY <1>2, <1>4 DEF taskVars
<1>5. CASE TaskNext
  <2>1. Fail \/ EndQuoting \/ KeepOffer \/ OptionsReady => plan' = plan /\ offers' = offers
    BY DEF Fail, EndQuoting, KeepOffer, OptionsReady
  <2>2. /\ \A p \in Plans : ~PlanReady(p)
        /\ \A rows \in SUBSET DOMAIN plan : ~ApprovePlan(rows)
        /\ \A found \in SUBSET Shops : ~Discover(found)
        /\ \A s \in Shops : ~NoOffer(s) /\ \A shelf \in Shelves[s] : ~GatherQuote(s, shelf)
        /\ \A n \in DOMAIN options : ~SelectOption(n)
    BY DEF PlanReady, ApprovePlan, Discover, NoOffer, GatherQuote, Asking, SelectOption
  <2> QED
    BY <1>2, <1>3, <1>5, <2>1, <2>2, Zenon DEF TaskNext
<1> QED
  BY <1>4, <1>5

\* Negotiating makes no row dearer and takes none out of reach, whatever shops
\* there are and whatever they take: every new quote undercuts the one it
\* supersedes, and so does the lowest price (orchestrator.ts:449-464).
THEOREM NegotiationIsFree == TaskSpec => NegotiationNeverCosts
<1> DEFINE NoDearer == status = "researching" =>
         /\ Servable' = Servable
         /\ \A k \in DOMAIN offers : offers'[k].shop = offers[k].shop
                                     /\ {l.sku : l \in Range(offers'[k].lines)}
                                          = {l.sku : l \in Range(offers[k].lines)}
         /\ \A i \in Servable : LowestUnit(i)' <= LowestUnit(i)
<1>0. (TaskTyped => \A i \in Servable : LowestIs(i))'
  BY LowestAlways, PTL
<1>1. ASSUME TaskInv, TaskInv', [TaskNext]_taskVars PROVE [NoDearer]_taskVars
  <2>1. SUFFICES ASSUME status = "researching" PROVE NoDearer
    BY Zenon
  <2>2. /\ plan' = plan /\ DOMAIN offers' = DOMAIN offers
        /\ \A l \in DOMAIN offers : /\ offers'[l].shop = offers[l].shop
                                    /\ Undercuts(offers'[l].lines, offers[l].lines)
    BY <1>1, <2>1, ResearchUndercuts
  <2>3. \A k \in DOMAIN offers, i \in DOMAIN plan :
          /\ ServingUnits(offers'[k].lines, plan[i]) = {} <=> ServingUnits(offers[k].lines, plan[i]) = {}
          /\ \A v \in ServingUnits(offers[k].lines, plan[i]) :
                \E w \in ServingUnits(offers'[k].lines, plan[i]) : w <= v
          /\ {l.sku : l \in Range(offers'[k].lines)} = {l.sku : l \in Range(offers[k].lines)}
    BY <2>2, UndercutFacts
  <2>4. \A i \in DOMAIN plan : Servers(i)' = Servers(i)
    BY <2>2, <2>3 DEF Servers
  <2>5. Servable' = Servable
    BY <2>2, <2>4 DEF Servable
  <2>6. ASSUME NEW i \in Servable PROVE LowestUnit(i)' <= LowestUnit(i)
    <3>1. i \in DOMAIN plan /\ i \in Servable'
      BY <2>5, <2>6, ServableFacts
    <3>2. TaskTyped /\ TaskTyped'
      BY <1>1 DEF TaskInv
    <3>3. PICK k \in Servers(i) : LowestUnit(i) \in ServingUnits(offers[k].lines, plan[i])
      BY <2>6, <3>2, LowestFacts
    <3>4. k \in DOMAIN offers /\ k \in Servers(i)'
      BY <2>4, <3>1, <3>3 DEF Servers
    <3>5. PICK w \in ServingUnits(offers'[k].lines, plan[i]) : w <= LowestUnit(i)
      BY <2>3, <3>1, <3>3, <3>4
    <3>6. LowestUnit(i)' \in Nat /\ \A m \in Servers(i)' :
             \A v \in ServingUnits(offers'[m].lines, plan'[i]) : v \in Nat /\ LowestUnit(i)' <= v
      <4>1. LowestIs(i)'
        BY <1>0, <3>1, <3>2
      <4> QED
        BY <4>1 DEF LowestIs
    <3>7. w \in Nat /\ LowestUnit(i)' <= w
      BY <2>2, <3>4, <3>5, <3>6
    <3>8. LowestUnit(i) \in Nat
      BY <2>6, <3>2, LowestFacts
    <3> QED
      BY <3>5, <3>6, <3>7, <3>8
  <2>7. \A k \in DOMAIN offers : offers'[k].shop = offers[k].shop
                                  /\ {l.sku : l \in Range(offers'[k].lines)}
                                       = {l.sku : l \in Range(offers[k].lines)}
    BY <2>2, UndercutFacts
  <2> QED
    BY <2>5, <2>6, <2>7
<1> QED
  BY <1>1, TaskInductive, PTL DEF TaskSpec, NegotiationNeverCosts

-----------------------------------------------------------------------------
(* What a quote supplies *)

LEMMA QuoteLineFacts ==
  ASSUME TaskTyped, NEW k \in DOMAIN offers, NEW sku, LinesFor(offers[k], sku) # {}
  PROVE  \E n \in DOMAIN offers[k].lines : /\ offers[k].lines[n].sku = sku
                                           /\ QuoteLine(offers[k], sku) = offers[k].lines[n]
<1> DEFINE S == LinesFor(offers[k], sku)
<1>1. DOMAIN offers[k].lines \subseteq DOMAIN plan /\ DOMAIN plan \in SUBSET Nat
  BY OffersFacts, HonestFacts, PlanFacts
<1>2. S \in SUBSET Nat /\ S # {}
  BY <1>1 DEF LinesFor
<1>3. \E n \in S : \A m \in S : n <= m
  <2> HIDE DEF S
  <2> QED
    BY <1>2, LeastNumber
<1> DEFINE n == CHOOSE j \in S : \A m \in S : j <= m
<1>4. n \in S
  BY <1>3
<1>5. QuoteLine(offers[k], sku) = offers[k].lines[n]
  BY DEF QuoteLine
<1> HIDE DEF n
<1> QED
  BY <1>4, <1>5 DEF LinesFor

\* An offer that supplies a row has one price for it.
LEMMA SuppliesFacts ==
  ASSUME TaskTyped, NEW k \in DOMAIN offers, NEW i \in DOMAIN plan, Supplies(offers[k], plan[i])
  PROVE  /\ k \in Servers(i) /\ i \in Servable
         /\ Unit(plan, offers, i, k) \in Nat
         /\ ServingUnits(offers[k].lines, plan[i]) = {Unit(plan, offers, i, k)}
         /\ PriceAt(offers[k].lines, i) = Unit(plan, offers, i, k) * plan[i].qty
         /\ PriceAt(offers[k].lines, i) \in Nat
<1> DEFINE lines == offers[k].lines
           unit == Unit(plan, offers, i, k)
<1>1. PICK n \in DOMAIN lines : lines[n].sku = plan[i].sku /\ QuoteLine(offers[k], plan[i].sku) = lines[n]
  BY QuoteLineFacts DEF Supplies
<1>2. lines[n].qty >= plan[i].qty
  BY <1>1 DEF Supplies
<1>3. unit = lines[n].unit
  BY <1>1 DEF Unit
<1>4. Serves(lines[n], plan[i])
  BY <1>1, <1>2 DEF Serves
<1>5. unit \in ServingUnits(lines, plan[i])
  BY <1>3, <1>4, ServingIs
<1>6. ASSUME NEW v \in ServingUnits(lines, plan[i]) PROVE v = unit
  <2>1. PICK m \in DOMAIN lines : Serves(lines[m], plan[i]) /\ v = lines[m].unit
    BY <1>6, ServingIs
  <2>2. lines[m].sku = lines[n].sku
    BY <1>1, <2>1 DEF Serves
  <2>3. Honest(plan, offers[k])
    BY OffersFacts, HonestFacts
  <2> QED
    BY <1>3, <2>1, <2>2, <2>3 DEF Honest
<1>7. ServingUnits(lines, plan[i]) = {unit}
  BY <1>5, <1>6
<1>8. unit \in Nat /\ plan[i].qty \in Nat
  BY <1>3, OffersFacts, HonestFacts, PlanFacts DEF Positive
<1> HIDE DEF unit
<1>9. PriceAt(lines, i) = unit * plan[i].qty
  <2>1. (CHOOSE u \in ServingUnits(lines, plan[i]) : TRUE) = unit
    BY <1>7
  <2> QED
    BY <2>1 DEF PriceAt
<1>10. k \in Servers(i) /\ i \in Servable
  BY <1>7 DEF Servers, Servable
<1>11. unit * plan[i].qty \in Nat
  BY <1>8
<1> QED
  BY <1>7, <1>8, <1>9, <1>10, <1>11 DEF unit

\* Of a list with no product twice a quote supplies every row it serves.
LEMMA ServersSupply ==
  ASSUME TaskTyped, NoRowTwice, NEW i \in DOMAIN plan, NEW k \in Servers(i)
  PROVE  k \in DOMAIN offers /\ Supplies(offers[k], plan[i])
<1> DEFINE lines == offers[k].lines
<1>1. k \in DOMAIN offers /\ ServingUnits(lines, plan[i]) # {}
  BY DEF Servers
<1>2. PICK n \in DOMAIN lines : Serves(lines[n], plan[i])
  BY <1>1, ServingIs
<1>3. LinesFor(offers[k], plan[i].sku) # {}
  BY <1>2 DEF LinesFor, Serves
<1>4. PICK m \in DOMAIN lines : lines[m].sku = plan[i].sku /\ QuoteLine(offers[k], plan[i].sku) = lines[m]
  BY <1>1, <1>3, QuoteLineFacts
<1>5. m \in DOMAIN plan /\ lines[m].sku = plan[m].sku /\ lines[m].qty = plan[m].qty
  BY <1>1, OffersFacts, HonestFacts
<1>6. m = i
  BY <1>4, <1>5 DEF NoRowTwice
<1>7. plan[i].qty \in Nat
  BY OffersFacts, PlanFacts DEF Positive
<1> QED
  BY <1>1, <1>3, <1>4, <1>5, <1>6, <1>7 DEF Supplies

LEMMA FulfillableFacts ==
  ASSUME TaskTyped
  PROVE  /\ Fulfillable(plan, offers) \subseteq Servable /\ Servable \subseteq DOMAIN plan
         /\ IsFiniteSet(Servable) /\ IsFiniteSet(Fulfillable(plan, offers))
         /\ NoRowTwice => Fulfillable(plan, offers) = Servable
         /\ \A i \in Fulfillable(plan, offers) :
              /\ Candidates(offers, plan[i]) # {} /\ Candidates(offers, plan[i]) \subseteq Servers(i)
              /\ IsFiniteSet(Candidates(offers, plan[i])) /\ Candidates(offers, plan[i]) \in SUBSET Nat
              /\ NoRowTwice => Candidates(offers, plan[i]) = Servers(i)
              /\ \A k \in Candidates(offers, plan[i]) : /\ k \in DOMAIN offers
                                                        /\ Supplies(offers[k], plan[i])
<1>1. \A i \in Fulfillable(plan, offers) : i \in DOMAIN plan /\ Candidates(offers, plan[i]) # {}
  BY DEF Fulfillable
<1>2. \A i \in DOMAIN plan : \A k \in Candidates(offers, plan[i]) :
        k \in DOMAIN offers /\ Supplies(offers[k], plan[i]) /\ k \in Servers(i) /\ i \in Servable
  BY SuppliesFacts DEF Candidates
<1>3. ASSUME NoRowTwice, NEW i \in DOMAIN plan
      PROVE  \A k \in Servers(i) : k \in Candidates(offers, plan[i])
  BY <1>3, ServersSupply DEF Candidates
<1>4. NoRowTwice => \A i \in Servable : i \in Fulfillable(plan, offers)
  BY <1>3, ServableFacts DEF Fulfillable
<1>5. Servable \subseteq DOMAIN plan
  BY ServableFacts
<1>6. Fulfillable(plan, offers) \subseteq Servable
  BY <1>1, <1>2
<1>7. IsFiniteSet(Servable) /\ IsFiniteSet(Fulfillable(plan, offers))
  BY <1>5, <1>6, OffersFacts, PlanFacts, FS_Subset
<1>8. \A i \in Fulfillable(plan, offers) :
        IsFiniteSet(Candidates(offers, plan[i])) /\ Candidates(offers, plan[i]) \in SUBSET Nat
  <2>1. \A i \in DOMAIN plan : Candidates(offers, plan[i]) \in SUBSET DOMAIN offers
    BY <1>2
  <2>2. IsFiniteSet(DOMAIN offers) /\ DOMAIN offers \in SUBSET Nat
    BY OffersFacts
  <2> QED
    BY <1>1, <2>1, <2>2, FS_Subset
<1> QED
  BY <1>1, <1>2, <1>3, <1>4, <1>5, <1>6, <1>7, <1>8

-----------------------------------------------------------------------------
(* An option built from a route serves the list *)

\* A route buys rows from offers that supply them.
IsRoute(route) ==
  /\ DOMAIN route \subseteq Fulfillable(plan, offers)
  /\ \A i \in DOMAIN route : route[i] \in Candidates(offers, plan[i])

LEMMA RouteFacts ==
  ASSUME TaskTyped, NEW route, IsRoute(route)
  PROVE  /\ IsFiniteSet(DOMAIN route) /\ DOMAIN route \subseteq Servable
         /\ \A i \in DOMAIN route : /\ i \in DOMAIN plan /\ route[i] \in DOMAIN offers
                                    /\ Supplies(offers[route[i]], plan[i])
         /\ StopsOf(route) \in SUBSET DOMAIN offers /\ IsFiniteSet(StopsOf(route))
         /\ Cardinality(StopsOf(route)) \in Nat
<1>1. IsFiniteSet(DOMAIN route) /\ DOMAIN route \subseteq Servable
  BY FulfillableFacts, FS_Subset DEF IsRoute
<1>2. \A i \in DOMAIN route : /\ i \in DOMAIN plan /\ route[i] \in DOMAIN offers
                              /\ Supplies(offers[route[i]], plan[i])
  BY FulfillableFacts DEF IsRoute
<1>3. StopsOf(route) \in SUBSET DOMAIN offers
  BY <1>2 DEF StopsOf, Range
<1>4. IsFiniteSet(StopsOf(route)) /\ Cardinality(StopsOf(route)) \in Nat
  BY <1>3, OffersFacts, FS_Subset, FS_CardinalityType
<1> QED
  BY <1>1, <1>2, <1>3, <1>4

\* Whether a stop of the route is essential.
Essential(route, k) == \E i \in DOMAIN route : route[i] = k /\ plan[i].essential
Late(route) == [k \in StopsOf(route) |-> IF Stop(plan, offers, route, k).essential THEN 0 ELSE 1]

\* A stop of a route, field by field.
IsStop(stop, route, k) ==
  /\ stop.shop = offers[k].shop /\ stop.quote = offers[k].lines
  /\ stop.items = {i \in DOMAIN route : route[i] = k}
  /\ stop.essential = Essential(route, k)
  /\ stop.subtotal = SumFunctionOnSet(
       [i \in stop.items |-> Unit(plan, offers, i, k) * plan[i].qty], stop.items)

LEMMA StopIs ==
  ASSUME NEW route, NEW k
  PROVE  IsStop(Stop(plan, offers, route, k), route, k)
<1>1. (\E i \in {j \in DOMAIN route : route[j] = k} : plan[i].essential) = Essential(route, k)
  BY DEF Essential
<1> QED
  BY <1>1 DEF Stop, IsStop

LEMMA DistanceFacts ==
  ASSUME TaskTyped, NEW k \in DOMAIN offers
  PROVE  Distances(offers)[k] = Distance[offers[k].shop] /\ Distances(offers)[k] \in Nat
BY OffersFacts, ShopAssumption DEF Distances, DistanceOf

\* The stops are sorted, each of them once.
LEMMA SortedStopsFacts ==
  ASSUME TaskTyped, NEW route, IsRoute(route)
  PROVE  LET order == SortedStops(plan, offers, route)
             c == Cardinality(StopsOf(route))
         IN  /\ order \in [1 .. c -> StopsOf(route)] /\ c \in Nat
             /\ Sorted(order, Late(route), Distances(offers))
             /\ \A k \in StopsOf(route) : \E n \in 1 .. c : order[n] = k
<1> DEFINE K == StopsOf(route)
           c == Cardinality(K)
           order == SortedStops(plan, offers, route)
<1>1. K \in SUBSET DOMAIN offers /\ IsFiniteSet(K) /\ c \in Nat
  BY RouteFacts
<1>2. Keyed(K, Late(route), Distances(offers))
  <2>1. K \in SUBSET Nat
    BY <1>1, OffersFacts
  <2>2. \A k \in K : Late(route)[k] \in Int
    BY DEF Late
  <2>3. \A k \in K : Distances(offers)[k] \in Int
    BY <1>1, DistanceFacts
  <2> QED
    BY <1>1, <2>1, <2>2, <2>3 DEF Keyed
<1>3. \E f \in [1 .. c -> K] : Sorted(f, Late(route), Distances(offers))
  BY <1>2, SortingExists
<1>4. order \in [1 .. c -> K] /\ Sorted(order, Late(route), Distances(offers))
  <2>1. order = CHOOSE f \in [1 .. c -> K] : Sorted(f, Late(route), Distances(offers))
    BY Zenon DEF SortedStops, Sorted, Late
  <2> HIDE DEF order
  <2> QED
    BY <1>3, <2>1
<1> HIDE DEF order, K
<1>5. ASSUME NEW k \in K PROVE \E n \in 1 .. c : order[n] = k
  <2>1. \A m, n \in 1 .. c : order[m] = order[n] => m = n
    <3>1. SUFFICES ASSUME NEW m \in 1 .. c, NEW n \in 1 .. c, order[m] = order[n], m # n PROVE FALSE
      OBVIOUS
    <3>2. m \in Int /\ n \in Int /\ (m < n \/ n < m) /\ DOMAIN order = 1 .. c
      BY <1>4, <3>1
    <3> QED
      BY <1>4, <3>1, <3>2 DEF Sorted
  <2>2. order \in Injection(1 .. c, K)
    BY <1>4, <2>1 DEF Injection, IsInjective
  <2>3. Cardinality(1 .. c) = c
    BY <1>1, FS_Interval
  <2>4. order \in Surjection(1 .. c, K)
    BY <1>1, <2>2, <2>3, FS_Injection
  <2> QED
    BY <2>4 DEF Surjection
<1> QED
  BY <1>1, <1>4, <1>5 DEF order, K

\* An option lists the stops of its route in an order.
Lists(option, kind, route, order) ==
  LET shops == option.shops
      c == Cardinality(StopsOf(route))
  IN  /\ order \in [1 .. c -> StopsOf(route)]
      /\ option.kind = kind /\ DOMAIN shops = 1 .. c
      /\ Sorted(order, Late(route), Distances(offers))
      /\ \A k \in StopsOf(route) : \E n \in 1 .. c : order[n] = k
      /\ \A n \in 1 .. c : order[n] \in DOMAIN offers /\ IsStop(shops[n], route, order[n])
      /\ option.total = SumFunctionOnSet([n \in 1 .. c |-> shops[n].subtotal], 1 .. c)

LEMMA OptionIs ==
  ASSUME TaskTyped, NEW kind, NEW route, IsRoute(route)
  PROVE  \E order : Lists(Option(kind, plan, offers, route), kind, route, order)
<1> DEFINE order == SortedStops(plan, offers, route)
           c == Cardinality(StopsOf(route))
           shops == [n \in DOMAIN order |-> Stop(plan, offers, route, order[n])]
           option == Option(kind, plan, offers, route)
<1>1. /\ order \in [1 .. c -> StopsOf(route)]
      /\ Sorted(order, Late(route), Distances(offers))
      /\ \A k \in StopsOf(route) : \E n \in 1 .. c : order[n] = k
  BY SortedStopsFacts
<1>2. StopsOf(route) \in SUBSET DOMAIN offers
  BY RouteFacts
<1>3. /\ option.kind = kind /\ option.shops = shops
      /\ option.total = SumFunctionOnSet([n \in DOMAIN shops |-> shops[n].subtotal], DOMAIN shops)
  BY DEF Option
<1>4. DOMAIN shops = 1 .. c /\ \A n \in 1 .. c : shops[n] = Stop(plan, offers, route, order[n])
  BY <1>1
<1> HIDE DEF shops, order, option
<1>5. ASSUME NEW n \in 1 .. c PROVE order[n] \in DOMAIN offers /\ IsStop(shops[n], route, order[n])
  <2>1. order[n] \in DOMAIN offers
    BY <1>1, <1>2
  <2>2. IsStop(Stop(plan, offers, route, order[n]), route, order[n])
    BY StopIs
  <2> QED
    BY <1>4, <2>1, <2>2, Zenon
<1>6. option.total = SumFunctionOnSet([n \in 1 .. c |-> shops[n].subtotal], 1 .. c)
  BY <1>3, <1>4
<1> QED
  BY <1>1, <1>3, <1>4, <1>5, <1>6, Zenon DEF option, Lists

\* What an option must be to serve the list.
ServesTheList(option) ==
  LET shops == option.shops
      rows == UNION {shops[m].items : m \in DOMAIN shops}
  IN  /\ rows \subseteq Servable /\ (NoRowTwice => rows = Servable)
      /\ \A m, h \in DOMAIN shops : m < h =>
            /\ shops[m].shop # shops[h].shop
            /\ shops[m].items \cap shops[h].items = {}
            /\ shops[h].essential => shops[m].essential
            /\ shops[m].essential = shops[h].essential =>
                  Distance[shops[m].shop] <= Distance[shops[h].shop]
      /\ \A m \in DOMAIN shops :
            /\ [shop |-> shops[m].shop, lines |-> shops[m].quote] \in Range(offers)
            /\ shops[m].items # {}
            /\ \A i \in shops[m].items : ServingUnits(shops[m].quote, plan[i]) # {}
      /\ option.total =
            SumFunctionOnSet([m \in DOMAIN shops |->
                SumFunctionOnSet([i \in shops[m].items |-> PriceAt(shops[m].quote, i)],
                                 shops[m].items)], DOMAIN shops)

LEMMA LateIs ==
  ASSUME NEW route, NEW k \in StopsOf(route)
  PROVE  Late(route)[k] = IF Essential(route, k) THEN 0 ELSE 1
<1>1. Stop(plan, offers, route, k).essential = Essential(route, k)
  BY StopIs, Zenon DEF IsStop
<1> QED
  BY <1>1 DEF Late

\* Every route's option serves the list, if it serves every row there is.
LEMMA OptionServes ==
  ASSUME TaskTyped, NEW kind, NEW route, IsRoute(route),
         NoRowTwice => DOMAIN route = Fulfillable(plan, offers)
  PROVE  ServesTheList(Option(kind, plan, offers, route))
<1> DEFINE option == Option(kind, plan, offers, route)
           shops == option.shops
           c == Cardinality(StopsOf(route))
           rows == UNION {shops[m].items : m \in DOMAIN shops}
           prices(m) == [i \in shops[m].items |-> PriceAt(shops[m].quote, i)]
<1>0. PICK order : Lists(option, kind, route, order)
  BY OptionIs
<1> HIDE DEF option
<1>1. /\ DOMAIN shops = 1 .. c /\ order \in [1 .. c -> StopsOf(route)]
      /\ Sorted(order, Late(route), Distances(offers))
      /\ \A k \in StopsOf(route) : \E n \in 1 .. c : order[n] = k
      /\ \A n \in 1 .. c : order[n] \in DOMAIN offers /\ IsStop(shops[n], route, order[n])
      /\ option.total = SumFunctionOnSet([n \in 1 .. c |-> shops[n].subtotal], 1 .. c)
  BY <1>0 DEF Lists
<1>2. \A n \in 1 .. c : shops[n].items = {i \in DOMAIN route : route[i] = order[n]}
  BY <1>1 DEF IsStop
<1>3. rows = DOMAIN route
  <2>1. \A i \in DOMAIN route : route[i] \in StopsOf(route)
    BY DEF StopsOf, Range
  <2>2. ASSUME NEW i \in DOMAIN route PROVE \E n \in 1 .. c : i \in shops[n].items
    <3>1. PICK n \in 1 .. c : order[n] = route[i]
      BY <1>1, <2>1
    <3> QED
      BY <1>2, <3>1
  <2>3. DOMAIN shops = 1 .. c
    BY <1>1
  <2> HIDE DEF c, shops
  <2>4. DOMAIN route \subseteq rows
    BY <2>2, <2>3
  <2>5. \A n \in 1 .. c : shops[n].items \subseteq DOMAIN route
    BY <1>2
  <2>6. rows \subseteq DOMAIN route
    BY <2>3, <2>5
  <2> QED
    BY <2>4, <2>6
<1>4. DOMAIN route \subseteq Servable /\ (NoRowTwice => DOMAIN route = Servable)
  BY RouteFacts, FulfillableFacts
<1>5. ASSUME NEW m \in 1 .. c, NEW h \in 1 .. c, m < h
      PROVE  /\ shops[m].shop # shops[h].shop
             /\ shops[m].items \cap shops[h].items = {}
             /\ shops[h].essential => shops[m].essential
             /\ shops[m].essential = shops[h].essential =>
                   Distance[shops[m].shop] <= Distance[shops[h].shop]
  <2>1. order[m] # order[h] /\ ~Precedes(Late(route), Distances(offers), order[h], order[m])
    BY <1>1, <1>5 DEF Sorted
  <2>2. /\ order[m] \in DOMAIN offers /\ order[h] \in DOMAIN offers
        /\ order[m] \in StopsOf(route) /\ order[h] \in StopsOf(route)
        /\ shops[m].shop = offers[order[m]].shop /\ shops[h].shop = offers[order[h]].shop
        /\ shops[m].essential = Essential(route, order[m])
        /\ shops[h].essential = Essential(route, order[h])
    BY <1>1, <1>5 DEF IsStop
  <2>3. shops[m].shop # shops[h].shop
    BY <2>1, <2>2, OffersFacts DEF OnePerShop
  <2>4. shops[m].items \cap shops[h].items = {}
    BY <1>2, <2>1
  <2>5. /\ Late(route)[order[m]] = IF shops[m].essential THEN 0 ELSE 1
        /\ Late(route)[order[h]] = IF shops[h].essential THEN 0 ELSE 1
    <3>1. /\ Late(route)[order[m]] = IF Essential(route, order[m]) THEN 0 ELSE 1
          /\ Late(route)[order[h]] = IF Essential(route, order[h]) THEN 0 ELSE 1
      BY <2>2, LateIs
    <3> QED
      BY <2>2, <3>1
  <2>6. /\ Distances(offers)[order[m]] = Distance[shops[m].shop] /\ Distances(offers)[order[m]] \in Nat
        /\ Distances(offers)[order[h]] = Distance[shops[h].shop] /\ Distances(offers)[order[h]] \in Nat
    BY <2>2, DistanceFacts
  <2>7. shops[h].essential => shops[m].essential
    BY <2>1, <2>5 DEF Precedes
  <2>8. shops[m].essential = shops[h].essential =>
          Late(route)[order[m]] = Late(route)[order[h]]
    BY <2>5
  <2>9. shops[m].essential = shops[h].essential =>
          Distance[shops[m].shop] <= Distance[shops[h].shop]
    BY <2>1, <2>6, <2>8 DEF Precedes
  <2> QED
    BY <2>3, <2>4, <2>7, <2>9
<1>6. ASSUME NEW m \in 1 .. c
      PROVE  /\ [shop |-> shops[m].shop, lines |-> shops[m].quote] \in Range(offers)
             /\ shops[m].items # {}
             /\ \A i \in shops[m].items : ServingUnits(shops[m].quote, plan[i]) # {}
             /\ shops[m].subtotal = SumFunctionOnSet(prices(m), shops[m].items)
  <2> DEFINE k == order[m]
  <2>1. /\ k \in DOMAIN offers /\ k \in StopsOf(route)
        /\ shops[m].shop = offers[k].shop /\ shops[m].quote = offers[k].lines
        /\ shops[m].subtotal = SumFunctionOnSet(
             [i \in shops[m].items |-> Unit(plan, offers, i, k) * plan[i].qty], shops[m].items)
    BY <1>1, <1>6 DEF IsStop
  <2>2. shops[m].items = {i \in DOMAIN route : route[i] = k}
    BY <1>2, <1>6
  <2> HIDE DEF k
  <2>3. offers[k] = [shop |-> shops[m].shop, lines |-> shops[m].quote]
    <3>1. offers[k] \in [shop : Shops, lines : UNION {[D -> PricedLine] : D \in SUBSET DOMAIN plan}]
      BY <2>1, OffersFacts, HonestFacts DEF Offered
    <3> QED
      BY <2>1, <3>1
  <2>4. shops[m].items # {}
    BY <2>1, <2>2 DEF StopsOf, Range
  <2>5. ASSUME NEW i \in shops[m].items
        PROVE  /\ ServingUnits(shops[m].quote, plan[i]) # {}
               /\ PriceAt(shops[m].quote, i) = Unit(plan, offers, i, k) * plan[i].qty
    <3>1. i \in DOMAIN plan /\ Supplies(offers[k], plan[i])
      BY <2>2, RouteFacts
    <3> QED
      BY <2>1, <3>1, SuppliesFacts
  <2>6. IsFiniteSet(shops[m].items)
    BY <2>2, RouteFacts, FS_Subset
  <2>7. SumFunctionOnSet([i \in shops[m].items |-> Unit(plan, offers, i, k) * plan[i].qty], shops[m].items)
          = SumFunctionOnSet(prices(m), shops[m].items)
    <3> DEFINE f == [i \in shops[m].items |-> Unit(plan, offers, i, k) * plan[i].qty]
               g == prices(m)
               S == shops[m].items
    <3>1. \A i \in S : f[i] = g[i]
      BY <2>5
    <3> HIDE DEF f, g, S
    <3>2. IsFiniteSet(S)
      BY <2>6 DEF S
    <3>3. SumFunctionOnSet(f, S) = SumFunctionOnSet(g, S)
      BY <3>1, <3>2, SumDependsOn
    <3> QED
      BY <3>3 DEF f, g, S
  <2>8. [shop |-> shops[m].shop, lines |-> shops[m].quote] \in Range(offers)
    BY <2>1, <2>3 DEF Range
  <2> QED
    BY <2>1, <2>4, <2>5, <2>7, <2>8
<1>7. option.total = SumFunctionOnSet([m \in 1 .. c |-> SumFunctionOnSet(prices(m), shops[m].items)], 1 .. c)
  <2>1. [m \in 1 .. c |-> shops[m].subtotal]
          = [m \in 1 .. c |-> SumFunctionOnSet(prices(m), shops[m].items)]
    BY <1>6
  <2> QED
    BY <1>1, <2>1, Zenon
<1>8. rows \subseteq Servable /\ (NoRowTwice => rows = Servable)
  BY <1>3, <1>4
<1> QED
  BY <1>1, <1>5, <1>6, <1>7, <1>8, Zenon DEF ServesTheList, option

-----------------------------------------------------------------------------
(* The cheapest route and the one of the best quality *)

\* What a row costs at each of its candidates, and how good the shops are.
UnitsAt(i) == [k \in Candidates(offers, plan[i]) |-> Unit(plan, offers, i, k)]
Worse == [k \in DOMAIN offers |-> -Quality[offers[k].shop]]

LEMMA KeysAre ==
  ASSUME TaskTyped, NEW i \in Fulfillable(plan, offers), NEW k \in Candidates(offers, plan[i])
  PROVE  /\ i \in DOMAIN plan /\ k \in DOMAIN offers /\ Supplies(offers[k], plan[i])
         /\ UnitsAt(i)[k] = Unit(plan, offers, i, k) /\ Unit(plan, offers, i, k) \in Nat
         /\ Worse[k] = -Quality[offers[k].shop] /\ Quality[offers[k].shop] \in Nat
         /\ Distances(offers)[k] \in Nat
<1>1. i \in DOMAIN plan /\ k \in DOMAIN offers /\ Supplies(offers[k], plan[i])
  BY FulfillableFacts DEF Fulfillable
<1>2. UnitsAt(i)[k] = Unit(plan, offers, i, k)
  BY DEF UnitsAt
<1>3. Unit(plan, offers, i, k) \in Nat
  BY <1>1, SuppliesFacts
<1>4. Worse[k] = -Quality[offers[k].shop]
  BY <1>1 DEF Worse
<1>5. Quality[offers[k].shop] \in Nat
  BY <1>1, OffersFacts, ShopAssumption
<1> QED
  BY <1>1, <1>2, <1>3, <1>4, <1>5, DistanceFacts

LEMMA CheapestIs ==
  ASSUME TaskTyped
  PROVE  LET route == CheapestRoute(plan, offers)
         IN  /\ DOMAIN route = Fulfillable(plan, offers) /\ IsRoute(route)
             /\ \A i \in DOMAIN route : \A k \in Candidates(offers, plan[i]) :
                   Unit(plan, offers, i, route[i]) <= Unit(plan, offers, i, k)
<1> DEFINE route == CheapestRoute(plan, offers)
<1>1. /\ DOMAIN route = Fulfillable(plan, offers)
      /\ \A i \in Fulfillable(plan, offers) :
           route[i] = Foremost(Candidates(offers, plan[i]), UnitsAt(i), Distances(offers))
  BY DEF CheapestRoute, UnitsAt
<1>2. ASSUME NEW i \in Fulfillable(plan, offers)
      PROVE  /\ route[i] \in Candidates(offers, plan[i])
             /\ \A k \in Candidates(offers, plan[i]) :
                   Unit(plan, offers, i, route[i]) <= Unit(plan, offers, i, k)
  <2> DEFINE S == Candidates(offers, plan[i])
  <2>1. S # {} /\ IsFiniteSet(S) /\ S \in SUBSET Nat
    BY FulfillableFacts
  <2>2. Keyed(S, UnitsAt(i), Distances(offers))
    BY <2>1, KeysAre DEF Keyed
  <2>3. route[i] = Foremost(S, UnitsAt(i), Distances(offers))
    BY <1>1
  <2> HIDE DEF S, route
  <2>4. route[i] \in S /\ \A k \in S : UnitsAt(i)[route[i]] <= UnitsAt(i)[k]
    BY <2>1, <2>2, <2>3, ForemostFacts
  <2>5. \A k \in S : UnitsAt(i)[k] = Unit(plan, offers, i, k)
    BY KeysAre DEF S
  <2> QED
    BY <2>4, <2>5 DEF S
<1> QED
  BY <1>1, <1>2 DEF IsRoute

LEMMA QualityIs ==
  ASSUME TaskTyped
  PROVE  LET route == QualityRoute(plan, offers)
         IN  /\ DOMAIN route = Fulfillable(plan, offers) /\ IsRoute(route)
             /\ \A i \in DOMAIN route : \A k \in Candidates(offers, plan[i]) :
                   Quality[offers[k].shop] <= Quality[offers[route[i]].shop]
<1> DEFINE route == QualityRoute(plan, offers)
<1>1. /\ DOMAIN route = Fulfillable(plan, offers)
      /\ \A i \in Fulfillable(plan, offers) :
           route[i] = Foremost(Candidates(offers, plan[i]), Worse, UnitsAt(i))
  BY DEF QualityRoute, UnitsAt, Worse
<1>2. ASSUME NEW i \in Fulfillable(plan, offers)
      PROVE  /\ route[i] \in Candidates(offers, plan[i])
             /\ \A k \in Candidates(offers, plan[i]) :
                   Quality[offers[k].shop] <= Quality[offers[route[i]].shop]
  <2> DEFINE S == Candidates(offers, plan[i])
  <2>1. S # {} /\ IsFiniteSet(S) /\ S \in SUBSET Nat
    BY FulfillableFacts
  <2>2. Keyed(S, Worse, UnitsAt(i))
    <3>1. \A k \in S : /\ Worse[k] = -Quality[offers[k].shop] /\ Quality[offers[k].shop] \in Nat
                       /\ UnitsAt(i)[k] \in Nat
      BY KeysAre
    <3> HIDE DEF S
    <3>2. \A k \in S : Worse[k] \in Int /\ UnitsAt(i)[k] \in Int
      BY <3>1
    <3> QED
      BY <2>1, <3>2 DEF Keyed
  <2>3. route[i] = Foremost(S, Worse, UnitsAt(i))
    BY <1>1
  <2> HIDE DEF S, route
  <2>4. route[i] \in S /\ \A k \in S : Worse[route[i]] <= Worse[k]
    BY <2>1, <2>2, <2>3, ForemostFacts
  <2>5. \A k \in S : Worse[k] = -Quality[offers[k].shop] /\ Quality[offers[k].shop] \in Nat
    BY KeysAre DEF S
  <2>6. \A k \in S : Quality[offers[k].shop] <= Quality[offers[route[i]].shop]
    BY <2>4, <2>5
  <2> QED
    BY <2>4, <2>6 DEF S
<1> QED
  BY <1>1, <1>2 DEF IsRoute

-----------------------------------------------------------------------------
(* The route of the fewest stops *)

NothingYet == [left |-> {plan[i].sku : i \in Fulfillable(plan, offers)}, route |-> [i \in {} |-> 0]]
IsTour(after, n) ==
  after = [m \in 0 .. n |-> IF m = 0 THEN NothingYet ELSE AfterStop(plan, offers, after[m - 1])]

LEMMA TourExists == ASSUME NEW n \in Nat PROVE \E after : IsTour(after, n)
<1> DEFINE Bad == {k \in Nat : \A after : ~IsTour(after, k)}
<1>1. SUFFICES ASSUME n \in Bad PROVE FALSE
  BY Zenon
<1>2. PICK k \in Bad : \A j \in Bad : k <= j
  <2>1. Bad \in SUBSET Nat /\ Bad # {}
    BY <1>1
  <2> HIDE DEF Bad
  <2> QED
    BY <2>1, LeastNumber
<1>3. CASE k = 0
  <2>1. IsTour([m \in 0 .. k |-> NothingYet], k)
    BY <1>3 DEF IsTour
  <2> QED
    BY <1>2, <2>1
<1>4. CASE k # 0
  <2>1. k - 1 \in Nat /\ k - 1 \notin Bad
    BY <1>2, <1>4
  <2>2. PICK t : IsTour(t, k - 1)
    BY <2>1
  <2> DEFINE g == [m \in 0 .. k |-> IF m = k THEN AfterStop(plan, offers, t[k - 1]) ELSE t[m]]
  <2>3. \A m \in 0 .. k - 1 : t[m] = IF m = 0 THEN NothingYet ELSE AfterStop(plan, offers, t[m - 1])
    BY <2>2, Zenon DEF IsTour
  <2>4. \A m \in 0 .. k : g[m] = IF m = 0 THEN NothingYet ELSE AfterStop(plan, offers, g[m - 1])
    BY <1>2, <1>4, <2>3
  <2>5. IsTour(g, k)
    BY <2>4 DEF IsTour
  <2> QED
    BY <1>2, <2>5
<1> QED
  BY <1>3, <1>4

\* Underway, the route buys rows from offers that supply them, every row that
\* is not left is on it, and each stop has left a product less to buy.
Underway(was, n) ==
  /\ IsRoute(was.route)
  /\ was.left \subseteq NothingYet.left
  /\ IsFiniteSet(was.left)
  /\ was.left = {} \/ Cardinality(was.left) + n <= Len(plan)
  /\ NoRowTwice => \A i \in Fulfillable(plan, offers) :
                      plan[i].sku \in was.left \/ i \in DOMAIN was.route

LEMMA UnderwayAtFirst == TaskTyped => Underway(NothingYet, 0)
<1>1. SUFFICES ASSUME TaskTyped PROVE Underway(NothingYet, 0)
  OBVIOUS
<1> DEFINE F == Fulfillable(plan, offers)
           left0 == {plan[i].sku : i \in F}
           f == [i \in F |-> plan[i].sku]
<1>2. IsFiniteSet(F) /\ F \subseteq 1 .. Len(plan) /\ Len(plan) \in Nat
  BY <1>1, FulfillableFacts, OffersFacts, PlanFacts
<1>3. IsFiniteSet(left0) /\ Cardinality(left0) <= Cardinality(F)
  <2>1. f \in Surjection(F, left0)
    BY DEF Surjection
  <2> HIDE DEF F, left0, f
  <2> QED
    BY <1>2, <2>1, FS_Surjection
<1>4. Cardinality(F) <= Len(plan) /\ Cardinality(left0) \in Nat /\ Cardinality(F) \in Nat
  <2>1. IsFiniteSet(1 .. Len(plan)) /\ Cardinality(1 .. Len(plan)) = Len(plan)
    <3> DEFINE N == Len(plan)
    <3>1. N \in Nat /\ 1 \in Int /\ N \in Int
      BY <1>2
    <3> HIDE DEF N
    <3>2. IsFiniteSet(1 .. N) /\ Cardinality(1 .. N) = N
      BY <3>1, FS_Interval
    <3> QED
      BY <3>2 DEF N
  <2> HIDE DEF F, left0
  <2>2. Cardinality(F) <= Cardinality(1 .. Len(plan))
    BY <1>2, <2>1, FS_Subset
  <2> QED
    BY <1>2, <1>3, <2>1, <2>2, FS_CardinalityType
<1>5. NothingYet.left = left0 /\ NothingYet.route = [i \in {} |-> 0]
  BY DEF NothingYet
<1>6. IsRoute(NothingYet.route)
  BY <1>5 DEF IsRoute
<1>7. Cardinality(left0) + 0 <= Len(plan)
  BY <1>2, <1>3, <1>4
<1>8. \A i \in F : plan[i].sku \in left0
  OBVIOUS
<1> HIDE DEF left0
<1> QED
  BY <1>3, <1>5, <1>6, <1>7, <1>8 DEF Underway

\* While something is left, the next stop serves some of it.
LEMMA NextStopServes ==
  ASSUME TaskTyped, NEW left0, left0 # {}, left0 \subseteq NothingYet.left
  PROVE  LET k == NextStop(plan, offers, left0)
         IN  k \in DOMAIN offers /\ Covers(plan, offers, left0, k) # {}
<1> DEFINE S == {k \in DOMAIN offers : Covers(plan, offers, left0, k) # {}}
           key == [k \in DOMAIN offers |-> -Cardinality(Covers(plan, offers, left0, k))]
<1>1. S # {}
  <2>1. PICK i \in Fulfillable(plan, offers) : plan[i].sku \in left0
    BY DEF NothingYet
  <2>2. PICK k \in Candidates(offers, plan[i]) : k \in DOMAIN offers /\ Supplies(offers[k], plan[i])
    BY FulfillableFacts
  <2>3. i \in Covers(plan, offers, left0, k)
    BY <2>1, <2>2 DEF Covers
  <2> QED
    BY <2>2, <2>3
<1>2. IsFiniteSet(S) /\ S \in SUBSET Nat
  BY OffersFacts, FS_Subset
<1>3. Keyed(S, key, Distances(offers))
  <2>1. ASSUME NEW k \in S PROVE key[k] \in Int
    <3>1. Covers(plan, offers, left0, k) \in SUBSET Fulfillable(plan, offers)
      BY DEF Covers
    <3>2. IsFiniteSet(Covers(plan, offers, left0, k))
      BY <3>1, FulfillableFacts, FS_Subset
    <3>3. Cardinality(Covers(plan, offers, left0, k)) \in Nat
      BY <3>2, FS_CardinalityType
    <3> QED
      BY <3>3
  <2>2. \A k \in S : Distances(offers)[k] \in Int
    BY DistanceFacts
  <2> HIDE DEF S, key
  <2> QED
    BY <1>2, <2>1, <2>2 DEF Keyed
<1>4. NextStop(plan, offers, left0) = Foremost(S, key, Distances(offers))
  BY DEF NextStop
<1>5. NextStop(plan, offers, left0) \in S
  <2> HIDE DEF S, key
  <2> QED
    BY <1>1, <1>3, <1>4, ForemostFacts
<1> QED
  BY <1>5

LEMMA UnderwayNext ==
  ASSUME TaskTyped, NEW was, NEW n \in Nat, Underway(was, n)
  PROVE  Underway(AfterStop(plan, offers, was), n + 1)
<1> DEFINE k == NextStop(plan, offers, was.left)
           bought == Covers(plan, offers, was.left, k)
           gone == {plan[i].sku : i \in bought}
           next == [left |-> was.left \ gone,
                    route |-> [i \in bought \cup DOMAIN was.route |->
                                 IF i \in bought THEN k ELSE was.route[i]]]
<1>1. /\ IsRoute(was.route) /\ was.left \subseteq NothingYet.left /\ IsFiniteSet(was.left)
      /\ was.left = {} \/ Cardinality(was.left) + n <= Len(plan)
      /\ NoRowTwice => \A i \in Fulfillable(plan, offers) :
                          plan[i].sku \in was.left \/ i \in DOMAIN was.route
  BY DEF Underway
<1>2. CASE was.left = {}
  <2>1. AfterStop(plan, offers, was) = was
    BY <1>2 DEF AfterStop
  <2> QED
    BY <1>1, <1>2, <2>1 DEF Underway
<1>3. CASE was.left # {}
  <2>1. AfterStop(plan, offers, was) = next
    BY <1>3 DEF AfterStop
  <2>2. k \in DOMAIN offers /\ bought # {}
    BY <1>1, <1>3, NextStopServes
  <2>3. \A i \in bought : /\ i \in Fulfillable(plan, offers) /\ plan[i].sku \in was.left
                          /\ k \in Candidates(offers, plan[i])
    BY <2>2 DEF Covers, Candidates
  <2> HIDE DEF bought
  <2>4. next.left = was.left \ gone /\ gone # {} /\ gone \subseteq was.left
    BY <2>2, <2>3
  <2>5. IsRoute(next.route)
    BY <1>1, <2>3 DEF IsRoute
  <2>6. IsFiniteSet(was.left \ gone) /\ Cardinality(was.left \ gone) + (n + 1) <= Len(plan)
    <3> DEFINE less == was.left \ gone
    <3>1. less \in SUBSET was.left /\ less # was.left
      BY <2>4
    <3> HIDE DEF less
    <3>2. /\ IsFiniteSet(less) /\ Cardinality(less) <= Cardinality(was.left)
          /\ Cardinality(less) # Cardinality(was.left)
      BY <1>1, <3>1, FS_Subset
    <3>3. Cardinality(less) \in Nat /\ Cardinality(was.left) \in Nat /\ Len(plan) \in Nat
      BY <1>1, <3>2, FS_CardinalityType, OffersFacts, PlanFacts
    <3>4. Cardinality(less) + (n + 1) <= Len(plan)
      BY <1>1, <1>3, <3>2, <3>3
    <3> QED
      BY <3>2, <3>4 DEF less
  <2>7. ASSUME NoRowTwice, NEW i \in Fulfillable(plan, offers)
        PROVE  plan[i].sku \in next.left \/ i \in DOMAIN next.route
    <3>1. CASE plan[i].sku \in gone
      <4>1. PICK j \in bought : plan[j].sku = plan[i].sku
        BY <3>1
      <4>2. i \in DOMAIN plan /\ j \in DOMAIN plan
        BY <2>3 DEF Fulfillable
      <4>3. i = j
        BY <2>7, <4>1, <4>2 DEF NoRowTwice
      <4> QED
        BY <4>3
    <3>2. CASE plan[i].sku \notin gone
      BY <1>1, <2>4, <2>7, <3>2
    <3> QED
      BY <3>1, <3>2
  <2>8. next.left \subseteq NothingYet.left
    BY <1>1, <2>4
  <2> HIDE DEF next, gone
  <2> QED
    BY <2>1, <2>4, <2>5, <2>6, <2>7, <2>8 DEF Underway
<1> QED
  BY <1>2, <1>3

\* The greedy cover is a route, and of a list with no product twice it buys
\* every row some quote serves.
LEMMA PickupIs ==
  ASSUME TaskTyped
  PROVE  LET route == PickupRoute(plan, offers)
         IN  IsRoute(route) /\ (NoRowTwice => DOMAIN route = Fulfillable(plan, offers))
<1> DEFINE N == Len(plan)
           after == CHOOSE t : IsTour(t, N)
<1>1. N \in Nat
  BY OffersFacts, PlanFacts
<1>2. PickupRoute(plan, offers) = after[N].route
  BY Zenon DEF PickupRoute, IsTour, NothingYet
<1>3. IsTour(after, N)
  <2>1. \E t : IsTour(t, N)
    BY <1>1, TourExists
  <2> QED
    BY <2>1, Zenon
<1> HIDE DEF after
<1>4. /\ after[0] = NothingYet
      /\ \A m \in 1 .. N : after[m] = AfterStop(plan, offers, after[m - 1])
  <2>1. \A m \in 0 .. N : after[m] = IF m = 0 THEN NothingYet ELSE AfterStop(plan, offers, after[m - 1])
    BY <1>3, Zenon DEF IsTour
  <2> QED
    BY <1>1, <2>1
<1>5. \A m \in 0 .. N : Underway(after[m], m)
  <2> DEFINE Bad == {m \in 0 .. N : ~Underway(after[m], m)}
  <2>1. SUFFICES ASSUME Bad # {} PROVE FALSE
    OBVIOUS
  <2>2. PICK m \in Bad : \A j \in Bad : m <= j
    <3>1. Bad \in SUBSET Nat
      BY <1>1
    <3> HIDE DEF Bad
    <3> QED
      BY <2>1, <3>1, LeastNumber
  <2>3. m # 0
    BY <1>4, <2>2, UnderwayAtFirst
  <2>4. m - 1 \in 0 .. N /\ m - 1 \in Nat /\ m \in 1 .. N /\ m - 1 \notin Bad /\ (m - 1) + 1 = m
    BY <1>1, <2>2, <2>3
  <2>5. Underway(after[m - 1], m - 1)
    BY <2>4
  <2>6. Underway(AfterStop(plan, offers, after[m - 1]), (m - 1) + 1)
    BY <2>4, <2>5, UnderwayNext
  <2>7. Underway(after[m], m)
    BY <1>4, <2>4, <2>6, Zenon
  <2> QED
    BY <2>2, <2>7
<1>6. Underway(after[N], N)
  BY <1>1, <1>5
<1>7. after[N].left = {}
  <2>1. IsFiniteSet(after[N].left) /\ (after[N].left = {} \/ Cardinality(after[N].left) + N <= N)
    BY <1>6 DEF Underway
  <2>2. Cardinality(after[N].left) \in Nat
    BY <2>1, FS_CardinalityType
  <2> QED
    BY <1>1, <2>1, <2>2, FS_EmptySet
<1>8. IsRoute(after[N].route)
  BY <1>6 DEF Underway
<1>9. NoRowTwice => DOMAIN after[N].route = Fulfillable(plan, offers)
  BY <1>6, <1>7, <1>8 DEF Underway, IsRoute
<1> QED
  BY <1>2, <1>8, <1>9

-----------------------------------------------------------------------------
(* The options *)

LEMMA UpToThree ==
  ASSUME NEW c, NEW b, NEW p, NEW some, NEW more,
         some = <<>> \/ some = <<b>>, more = <<>> \/ more = <<p>>
  PROVE  LET os == <<c>> \o some \o more
         IN  os # <<>> /\ os[1] = c /\ \A n \in DOMAIN os : os[n] \in {c, b, p}
<1> DEFINE T == {c, b, p}
           two == <<c>> \o some
           os == two \o more
<1>1. <<c>> \in Seq(T) /\ Len(<<c>>) = 1 /\ <<c>>[1] = c
  OBVIOUS
<1>2. some \in Seq(T) /\ more \in Seq(T)
  <2>1. <<>> \in Seq(T) /\ <<b>> \in Seq(T) /\ <<p>> \in Seq(T)
    OBVIOUS
  <2> HIDE DEF T
  <2> QED
    BY <2>1
<1> HIDE DEF T
<1>3. two \in Seq(T) /\ Len(two) = Len(<<c>>) + Len(some) /\ two[1] = <<c>>[1]
  BY <1>1, <1>2, ConcatProperties
<1>4. Len(some) \in Nat /\ Len(more) \in Nat
  BY <1>2, LenProperties
<1>5. 1 \in 1 .. Len(two)
  BY <1>1, <1>3, <1>4
<1> HIDE DEF two
<1>6. os \in Seq(T) /\ Len(os) = Len(two) + Len(more) /\ os[1] = two[1]
  <2>1. /\ os \in Seq(T) /\ Len(os) = Len(two) + Len(more)
        /\ \A n \in 1 .. Len(two) + Len(more) :
             os[n] = IF n <= Len(two) THEN two[n] ELSE more[n - Len(two)]
    BY <1>2, <1>3, ConcatProperties
  <2>2. Len(two) \in Nat /\ Len(two) >= 1 /\ 1 \in 1 .. Len(two) + Len(more)
    BY <1>1, <1>3, <1>4
  <2> QED
    BY <2>1, <2>2
<1> HIDE DEF os
<1>7. os[1] = c /\ os # <<>>
  BY <1>1, <1>3, <1>4, <1>6, EmptySeq
<1>8. \A n \in DOMAIN os : os[n] \in T
  BY <1>6, LenProperties, ElementOfSeq
<1> QED
  BY <1>7, <1>8, Zenon DEF T, os, two

\* The options are the cheapest one and at most those of two other routes.
LEMMA OptionsAre ==
  ASSUME TaskTyped
  PROVE  LET os == BuildOptions(plan, offers)
             cheapest == Option("cheapest", plan, offers, CheapestRoute(plan, offers))
             best == Option("best_quality", plan, offers, QualityRoute(plan, offers))
             near == Option("pickup_optimized", plan, offers, PickupRoute(plan, offers))
         IN  os = <<>> \/ (os[1] = cheapest /\ \A n \in DOMAIN os : os[n] \in {cheapest, best, near})
<1> DEFINE os == BuildOptions(plan, offers)
           cheap == CheapestRoute(plan, offers)
           good == QualityRoute(plan, offers)
           close == PickupRoute(plan, offers)
           cheapest == Option("cheapest", plan, offers, cheap)
           best == Option("best_quality", plan, offers, good)
           near == Option("pickup_optimized", plan, offers, close)
           some == IF StopsOf(good) # StopsOf(cheap) \/ best.total # cheapest.total
                   THEN <<best>> ELSE <<>>
           more == IF StopsOf(close) \notin {StopsOf(cheap), StopsOf(good)} THEN <<near>> ELSE <<>>
<1>1. os = IF Fulfillable(plan, offers) = {} THEN <<>> ELSE <<cheapest>> \o some \o more
  BY DEF BuildOptions
<1>2. (some = <<>> \/ some = <<best>>) /\ (more = <<>> \/ more = <<near>>)
  OBVIOUS
<1> HIDE DEF os, some, more, cheapest, best, near
<1>3. LET three == <<cheapest>> \o some \o more
      IN  three # <<>> /\ three[1] = cheapest /\ \A n \in DOMAIN three : three[n] \in {cheapest, best, near}
  BY <1>2, UpToThree
<1>4. os = <<>> \/ (os[1] = cheapest /\ \A n \in DOMAIN os : os[n] \in {cheapest, best, near})
  BY <1>1, <1>3
<1> QED
  BY <1>4, Zenon DEF os, cheapest, best, near

LEMMA OptionsAreServed ==
  ASSUME TaskTyped, NEW n \in DOMAIN BuildOptions(plan, offers)
  PROVE  LET option == BuildOptions(plan, offers)[n]
         IN  option.kind \in OptionKinds /\ ServesTheList(option)
<1> DEFINE option == BuildOptions(plan, offers)[n]
<1>1. \E kind \in OptionKinds : \E route :
        /\ IsRoute(route) /\ (NoRowTwice => DOMAIN route = Fulfillable(plan, offers))
        /\ option = Option(kind, plan, offers, route)
  <2>1. BuildOptions(plan, offers) # <<>>
    OBVIOUS
  <2>2. option \in {Option("cheapest", plan, offers, CheapestRoute(plan, offers)),
                    Option("best_quality", plan, offers, QualityRoute(plan, offers)),
                    Option("pickup_optimized", plan, offers, PickupRoute(plan, offers))}
    BY <2>1, OptionsAre
  <2>3. "cheapest" \in OptionKinds /\ "best_quality" \in OptionKinds /\ "pickup_optimized" \in OptionKinds
    BY DEF OptionKinds
  <2> HIDE DEF option
  <2>4. CASE option = Option("cheapest", plan, offers, CheapestRoute(plan, offers))
    BY <2>3, <2>4, CheapestIs, Zenon
  <2>5. CASE option = Option("best_quality", plan, offers, QualityRoute(plan, offers))
    BY <2>3, <2>5, QualityIs, Zenon
  <2>6. CASE option = Option("pickup_optimized", plan, offers, PickupRoute(plan, offers))
    BY <2>3, <2>6, PickupIs, Zenon
  <2> QED
    BY <2>2, <2>4, <2>5, <2>6
<1>2. PICK kind \in OptionKinds : \E route :
        /\ IsRoute(route) /\ (NoRowTwice => DOMAIN route = Fulfillable(plan, offers))
        /\ option = Option(kind, plan, offers, route)
  BY <1>1
<1>3. PICK route :
        /\ IsRoute(route) /\ (NoRowTwice => DOMAIN route = Fulfillable(plan, offers))
        /\ option = Option(kind, plan, offers, route)
  BY <1>2
<1> HIDE DEF option
<1>4. ServesTheList(option)
  BY <1>3, OptionServes, Zenon
<1>5. option.kind = kind
  BY <1>3, OptionIs DEF Lists
<1> QED
  BY <1>4, <1>5 DEF option

LEMMA TypedIsTypeOK == TaskInv => TaskTypeOK
<1>1. SUFFICES ASSUME TaskInv PROVE TaskTypeOK
  OBVIOUS
<1>2. TaskTyped
  BY <1>1 DEF TaskInv
<1>3. status \in Statuses /\ left \in Seq(Shops) /\ DOMAIN offers = 1 .. Len(offers)
  BY <1>2, OffersFacts DEF TaskTyped
<1>4. plan \in Seq([sku : Goods, qty : Nat \ {0}, essential : BOOLEAN])
  BY <1>2, OffersFacts DEF Row, Positive
<1>5. ASSUME NEW k \in DOMAIN offers
      PROVE  \E D \in SUBSET DOMAIN plan : offers[k] \in [shop : Shops, lines : QuoteLines(D)]
  <2>1. offers[k] \in [shop : Shops, lines : UNION {[D -> PricedLine] : D \in SUBSET DOMAIN plan}]
    BY <1>2, OffersFacts, HonestFacts DEF Offered
  <2>2. PICK D \in SUBSET DOMAIN plan : offers[k].lines \in [D -> PricedLine]
    BY <2>1
  <2>3. \A line \in PricedLine : line \in [sku : Goods, qty : Nat \ {0}, unit : Nat]
    BY DEF PricedLine, Positive
  <2>4. offers[k].lines \in QuoteLines(D)
    BY <2>2, <2>3 DEF QuoteLines
  <2> QED
    BY <2>1, <2>4
<1>6. /\ \A n \in DOMAIN options : options[n].kind \in OptionKinds
      /\ selected \subseteq {options[n] : n \in DOMAIN options}
  <2>1. CASE options = <<>> /\ selected = {}
    BY <2>1
  <2>2. CASE /\ options = BuildOptions(plan, offers)
             /\ \A o \in selected : \E n \in DOMAIN options : o = options[n]
    <3>1. \A n \in DOMAIN options : options[n].kind \in OptionKinds
      BY <1>2, <2>2, OptionsAreServed
    <3> QED
      BY <2>2, <3>1
  <2> QED
    BY <1>1, <2>1, <2>2 DEF TaskInv
<1> QED
  BY <1>3, <1>4, <1>5, <1>6, Zenon DEF TaskTypeOK

\* Whatever the list, the shops and their shelves, every option buys rows some
\* quote can serve from shops whose present quotes have them in the quantity and
\* at the price it says, each once, essential shops first and then the nearest,
\* and all such rows of a list that has no product twice: the options are built
\* from routes that buy each row from an offer that supplies it
\* (options.ts:62-175).
THEOREM OptionsAlwaysServe == TaskSpec => []OptionsServeTheList
<1>1. TaskInv => OptionsServeTheList
  <2>1. SUFFICES ASSUME TaskInv PROVE OptionsServeTheList
    OBVIOUS
  <2>2. TaskTypeOK /\ TaskTyped
    BY <2>1, TypedIsTypeOK DEF TaskInv
  <2>3. ASSUME NEW n \in DOMAIN options PROVE ServesTheList(options[n])
    <3>1. options # <<>> => options = BuildOptions(plan, offers)
      BY <2>1 DEF TaskInv
    <3>2. options = BuildOptions(plan, offers)
      BY <2>3, <3>1
    <3> QED
      BY <2>2, <2>3, <3>2, OptionsAreServed
  <2> QED
    BY <2>2, <2>3, Zenon DEF OptionsServeTheList, ServesTheList
<1> QED
  BY <1>1, TaskInductive, PTL

-----------------------------------------------------------------------------
(* The best options *)

\* What a row costs at an offer.
Costs(i, k) == Unit(plan, offers, i, k) * plan[i].qty

LEMMA CostsAre ==
  ASSUME TaskTyped, NEW i \in DOMAIN plan, NEW k \in DOMAIN offers, Supplies(offers[k], plan[i])
  PROVE  /\ PriceAt(offers[k].lines, i) = Costs(i, k) /\ Costs(i, k) \in Nat
         /\ Unit(plan, offers, i, k) \in Nat /\ plan[i].qty \in Nat
<1>1. plan[i].qty \in Nat
  BY OffersFacts, PlanFacts DEF Positive
<1> QED
  BY <1>1, SuppliesFacts DEF Costs

\* The total of a route's option is what its rows cost.
LEMMA TotalIs ==
  ASSUME TaskTyped, NEW kind, NEW route, IsRoute(route)
  PROVE  LET cost == [i \in DOMAIN route |-> Costs(i, route[i])]
         IN  Option(kind, plan, offers, route).total = SumFunctionOnSet(cost, DOMAIN route)
<1> DEFINE option == Option(kind, plan, offers, route)
           shops == option.shops
           c == Cardinality(StopsOf(route))
           cost == [i \in DOMAIN route |-> Costs(i, route[i])]
           S == DOMAIN route
           K == 1 .. c
           totals == [n \in K |-> shops[n].subtotal]
<1>0. PICK order : Lists(option, kind, route, order)
  BY OptionIs
<1> HIDE DEF option
<1>1. /\ order \in [1 .. c -> StopsOf(route)]
      /\ Sorted(order, Late(route), Distances(offers))
      /\ \A k \in StopsOf(route) : \E n \in 1 .. c : order[n] = k
      /\ \A n \in 1 .. c : order[n] \in DOMAIN offers /\ IsStop(shops[n], route, order[n])
      /\ option.total = SumFunctionOnSet(totals, 1 .. c)
  BY <1>0 DEF Lists
<1> HIDE DEF totals
<1>2. c \in Nat /\ IsFiniteSet(S) /\ IsFiniteSet(K)
  <2>1. c \in Nat /\ IsFiniteSet(S)
    BY RouteFacts
  <2> HIDE DEF c
  <2> QED
    BY <2>1, FS_Interval
<1>3. \A m, n \in K : order[m] = order[n] => m = n
  <2>1. SUFFICES ASSUME NEW m \in K, NEW n \in K, order[m] = order[n], m # n PROVE FALSE
    OBVIOUS
  <2>2. m \in Int /\ n \in Int /\ (m < n \/ n < m) /\ DOMAIN order = K
    BY <1>1, <1>2, <2>1
  <2> QED
    BY <1>1, <2>1, <2>2 DEF Sorted
<1> DEFINE part == [i \in S |-> CHOOSE n \in K : order[n] = route[i]]
<1>4. ASSUME NEW i \in S PROVE part[i] \in K /\ order[part[i]] = route[i] /\ cost[i] \in Int
  <2>1. route[i] \in StopsOf(route)
    BY DEF StopsOf, Range
  <2>2. \E n \in K : order[n] = route[i]
    BY <1>1, <2>1
  <2>3. part[i] \in K /\ order[part[i]] = route[i]
    BY <2>2
  <2>4. i \in DOMAIN plan /\ route[i] \in DOMAIN offers /\ Supplies(offers[route[i]], plan[i])
    BY RouteFacts
  <2>5. Costs(i, route[i]) \in Nat
    BY <2>4, CostsAre
  <2> QED
    BY <2>3, <2>5
<1>5. ASSUME NEW n \in K PROVE totals[n] = SumFunctionOnSet(cost, Part(S, part, n))
  <2> DEFINE items == Part(S, part, n)
             f == [i \in items |-> Unit(plan, offers, i, order[n]) * plan[i].qty]
  <2>1. /\ shops[n].items = {i \in S : route[i] = order[n]}
        /\ shops[n].subtotal = SumFunctionOnSet(
             [i \in shops[n].items |-> Unit(plan, offers, i, order[n]) * plan[i].qty], shops[n].items)
    BY <1>1 DEF IsStop
  <2>2. \A i \in S : route[i] = order[n] <=> part[i] = n
    BY <1>3, <1>4
  <2>3. shops[n].items = items
    BY <2>1, <2>2 DEF Part
  <2>4. totals[n] = SumFunctionOnSet(f, items)
    <3>1. totals[n] = shops[n].subtotal
      BY DEF totals
    <3> QED
      BY <2>1, <2>3, <3>1, Zenon
  <2>5. \A i \in items : f[i] = cost[i]
    BY <2>2 DEF Costs, Part
  <2>6. IsFiniteSet(items)
    BY <1>2, FS_Subset DEF Part
  <2> HIDE DEF items, f, cost
  <2>7. SumFunctionOnSet(f, items) = SumFunctionOnSet(cost, items)
    BY <2>5, <2>6, SumDependsOn
  <2> QED
    BY <2>4, <2>7 DEF items
<1>6. \A i \in S : cost[i] \in Int /\ part[i] \in K
  BY <1>4
<1>7. \A n \in K : totals[n] = SumFunctionOnSet(cost, Part(S, part, n))
  BY <1>5
<1> HIDE DEF S, K, cost, part
<1>8. SumFunctionOnSet(totals, K) = SumFunctionOnSet(cost, S)
  BY <1>2, <1>6, <1>7, SumOfParts
<1> QED
  BY <1>1, <1>8 DEF option, K, S, cost

\* Of a list with no product twice the cheapest route costs least.
LEMMA CheapestCostsLeast ==
  ASSUME TaskTyped, NoRowTwice, NEW f \in Assignments, NEW kind
  PROVE  Option(kind, plan, offers, CheapestRoute(plan, offers)).total <= Cost(f)
<1> DEFINE route == CheapestRoute(plan, offers)
           S == Servable
           mine == [i \in DOMAIN route |-> Costs(i, route[i])]
           other == [i \in S |-> PriceAt(offers[f[i]].lines, i)]
<1>1. /\ IsRoute(route) /\ DOMAIN route = S /\ IsFiniteSet(S)
      /\ \A i \in S : \A k \in Servers(i) :
            Unit(plan, offers, i, route[i]) <= Unit(plan, offers, i, k)
  BY CheapestIs, FulfillableFacts
<1>2. Option(kind, plan, offers, route).total = SumFunctionOnSet(mine, S)
  BY <1>1, TotalIs
<1>3. ASSUME NEW i \in S PROVE mine[i] \in Int /\ other[i] \in Int /\ mine[i] <= other[i]
  <2>1. i \in DOMAIN plan
    BY ServableFacts
  <2>2. f[i] \in Servers(i)
    BY DEF Assignments
  <2> DEFINE k == f[i]
             h == route[i]
  <2>3. k \in DOMAIN offers /\ Supplies(offers[k], plan[i])
    BY <2>1, <2>2, ServersSupply
  <2>4. h \in DOMAIN offers /\ Supplies(offers[h], plan[i])
    BY <1>1, RouteFacts
  <2>5. mine[i] = Costs(i, h) /\ other[i] = PriceAt(offers[k].lines, i)
    BY <1>1
  <2>6. Unit(plan, offers, i, h) <= Unit(plan, offers, i, k)
    BY <1>1, <2>2
  <2> HIDE DEF k, h, mine, other
  <2>7. PriceAt(offers[k].lines, i) = Costs(i, k) /\ Costs(i, k) \in Nat /\ Costs(i, h) \in Nat
    BY <2>1, <2>3, <2>4, CostsAre
  <2>8. /\ Unit(plan, offers, i, k) \in Nat /\ Unit(plan, offers, i, h) \in Nat
        /\ plan[i].qty \in Nat
    BY <2>1, <2>3, <2>4, CostsAre
  <2>9. Unit(plan, offers, i, h) * plan[i].qty <= Unit(plan, offers, i, k) * plan[i].qty
    <3> DEFINE a == Unit(plan, offers, i, h)
               b == Unit(plan, offers, i, k)
               q == plan[i].qty
    <3>1. a \in Int /\ b \in Int /\ a <= b /\ q \in Nat
      BY <2>6, <2>8
    <3> HIDE DEF a, b, q
    <3>2. a * q <= b * q
      BY <3>1, ScaleUp
    <3> QED
      BY <3>2 DEF a, b, q
  <2>10. Costs(i, h) <= Costs(i, k)
    BY <2>9 DEF Costs
  <2> QED
    BY <2>5, <2>7, <2>10
<1>4. Cost(f) = SumFunctionOnSet(other, S)
  BY DEF Cost
<1> HIDE DEF mine, other, S
<1>5. SumFunctionOnSet(mine, S) <= SumFunctionOnSet(other, S)
  BY <1>1, <1>3, SumOfSmaller
<1> QED
  BY <1>2, <1>4, <1>5

\* A row of the best quality option is from a shop none surpasses.
LEMMA QualityIsBest ==
  ASSUME TaskTyped, NoRowTwice, NEW kind
  PROVE  LET shops == Option(kind, plan, offers, QualityRoute(plan, offers)).shops
         IN  \A m \in DOMAIN shops : \A i \in shops[m].items : \A k \in Servers(i) :
               Quality[offers[k].shop] <= Quality[shops[m].shop]
<1> DEFINE route == QualityRoute(plan, offers)
           option == Option(kind, plan, offers, route)
           shops == option.shops
           c == Cardinality(StopsOf(route))
<1>1. /\ IsRoute(route) /\ DOMAIN route = Fulfillable(plan, offers)
      /\ \A i \in DOMAIN route : \A k \in Servers(i) :
            Quality[offers[k].shop] <= Quality[offers[route[i]].shop]
  BY QualityIs, FulfillableFacts
<1> HIDE DEF route
<1>0. PICK order : Lists(option, kind, route, order)
  BY <1>1, OptionIs
<1> HIDE DEF option
<1>2. /\ DOMAIN shops = 1 .. c
      /\ \A n \in 1 .. c : order[n] \in DOMAIN offers /\ IsStop(shops[n], route, order[n])
  BY <1>0 DEF Lists
<1>3. ASSUME NEW m \in DOMAIN shops, NEW i \in shops[m].items, NEW k \in Servers(i)
      PROVE  Quality[offers[k].shop] <= Quality[shops[m].shop]
  <2>1. IsStop(shops[m], route, order[m])
    BY <1>2
  <2>2. i \in DOMAIN route /\ route[i] = order[m] /\ shops[m].shop = offers[route[i]].shop
    BY <2>1 DEF IsStop
  <2> QED
    BY <1>1, <2>2
<1> QED
  BY <1>3 DEF option, route

LEMMA KindIs ==
  ASSUME TaskTyped, NEW kind, NEW route, IsRoute(route)
  PROVE  Option(kind, plan, offers, route).kind = kind
BY OptionIs DEF Lists

\* The cheapest option costs no more than any way to buy the list from the
\* quotes, and the option of the best quality buys each row from a shop no
\* other supplier surpasses, whatever the shops and their prices, as long as no
\* product is on the list twice: a quote has then one line for each row, and
\* the row's candidates are all the offers that serve it (options.ts:108, 116).
THEOREM OptionsAreTheBest == TaskSpec => []OptionsAreBest
<1>1. TaskInv => OptionsAreBest
  <2>1. SUFFICES ASSUME TaskInv, options # <<>>
                 PROVE  /\ options[1].kind = "cheapest"
                        /\ NoRowTwice => \A f \in Assignments : options[1].total <= Cost(f)
                        /\ NoRowTwice => \A n \in DOMAIN options : options[n].kind = "best_quality" =>
                              \A m \in DOMAIN options[n].shops : \A i \in options[n].shops[m].items :
                                  \A k \in Servers(i) :
                                      Quality[offers[k].shop] <= Quality[options[n].shops[m].shop]
    BY Zenon DEF OptionsAreBest
  <2> DEFINE cheapest == Option("cheapest", plan, offers, CheapestRoute(plan, offers))
             best == Option("best_quality", plan, offers, QualityRoute(plan, offers))
             near == Option("pickup_optimized", plan, offers, PickupRoute(plan, offers))
  <2>2. TaskTyped /\ options = BuildOptions(plan, offers)
    BY <2>1 DEF TaskInv
  <2>3. options[1] = cheapest /\ \A n \in DOMAIN options : options[n] \in {cheapest, best, near}
    BY <2>1, <2>2, OptionsAre
  <2>4. cheapest.kind = "cheapest" /\ near.kind = "pickup_optimized"
    BY <2>2, CheapestIs, PickupIs, KindIs
  <2>5. ASSUME NoRowTwice, NEW f \in Assignments PROVE cheapest.total <= Cost(f)
    BY <2>2, <2>5, CheapestCostsLeast
  <2>6. ASSUME NoRowTwice, NEW m \in DOMAIN best.shops, NEW i \in best.shops[m].items,
               NEW k \in Servers(i)
        PROVE  Quality[offers[k].shop] <= Quality[best.shops[m].shop]
    BY <2>2, <2>6, QualityIsBest
  <2> HIDE DEF cheapest, best, near
  <2>7. ASSUME NEW n \in DOMAIN options, options[n].kind = "best_quality" PROVE options[n] = best
    BY <2>3, <2>4, <2>7
  <2> QED
    BY <2>3, <2>4, <2>5, <2>6, <2>7
<1> QED
  BY <1>1, TaskInductive, PTL

=============================================================================
