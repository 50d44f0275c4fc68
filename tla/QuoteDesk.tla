----------------------------- MODULE QuoteDesk -----------------------------
(***************************************************************************)
(* A merchant agent's desk: paid requests for a quote, a basket quote or a *)
(* negotiation pass the payment gate, free requests order from a quote,    *)
(* and each handler awaits the store or the language model between its     *)
(* steps.  Requests overlap, may be sent again with the same key and       *)
(* proof, and die with the process; quotes, proofs and cached answers stay.*)
(*                                                                         *)
(* One step is what runs between two awaits.  Where such a step writes two *)
(* rows, each commits by itself: no other request comes between, but the   *)
(* process may end there.  The reads of one spread (the minimum prices,    *)
(* line by line) are taken together.  A call's answers are kept as its     *)
(* client heard them.                                                      *)
(***************************************************************************)
EXTENDS Pricing, FiniteSets

CONSTANTS
    Skus,
    Listings,      \* the catalogues the owner may publish: sku -> [price, min]
    Basket,        \* the lines a buyer asks a quote for: a sequence of [sku, qty]
    Campaigns,     \* active campaigns, highest priority first:
                   \*   [type, value, max, exclusive]
    Negotiates,    \* the merchant's negotiation_enabled
    Proposals,     \* what the discount provider may answer, in basis points
    MaxDiscountBps,
    AskedBps,      \* the discount a buyer negotiates for
    Fee,           \* the price of a negotiation
    Calls,         \* the buyers' calls, each with its own key and payment
    Kind,          \* call -> "quote", "quote-basket", "negotiate" or "order"
    MaxQuotes,     \* bound: quotes ever signed
    MaxRequests,   \* bound: requests at the desk at once
    MaxResends,    \* bound: calls sent again with their key and proof
    MaxEdits,      \* bound: changes of the catalogue
    MaxCrashes     \* bound: crashes of the merchant process

QuoteIds == 1 .. MaxQuotes
NoQuote == 0
Desks == 1 .. MaxRequests
Kinds == {"quote", "quote-basket", "negotiate", "order"}

\* A listing maps the skus on sale; the database keeps each price at or above
\* its minimum.
IsListing(l) == /\ DOMAIN l \subseteq Skus
                /\ \A s \in DOMAIN l : /\ l[s].min \in Nat \ {0} /\ l[s].price \in Nat
                                       /\ l[s].price >= l[s].min

ASSUME DeskAssumption ==
    /\ \A l \in Listings : IsListing(l)
    /\ Basket \in Seq([sku : Skus, qty : Nat \ {0}])
    /\ Campaigns \in Seq([type : {"percent", "fixed"}, value : Int, max : Int, exclusive : BOOLEAN])
    /\ Negotiates \in BOOLEAN /\ Proposals \subseteq Int /\ MaxDiscountBps \in Nat /\ AskedBps \in Nat \ {0}
    /\ Kind \in [Calls -> Kinds] /\ Fee \in Nat \ {0}
    /\ MaxQuotes \in Nat /\ MaxRequests \in Nat
    /\ MaxResends \in Nat /\ MaxEdits \in Nat /\ MaxCrashes \in Nat

VARIABLES
    listing,    \* the catalogue as the database has it
    quotes,     \* by id: [status, lines, total, prev, listing, edited]: the quote
                \* it supersedes, the catalogue the last look saw, and whether
                \* that had changed since the request came
    proofs,     \* payments consumed: calls whose proof was taken
    cache,      \* by call: [on, answer], the answer kept for its key
    orders,     \* orders placed: [call, quote]
    desk,       \* requests under way
    served,     \* by call: how many of its requests reached the handler
    told,       \* by call: the answers its client heard
    sent,       \* the calls sent so far
    resends, edits, crashes,
    stranded    \* history: quotes a crash ended between two writes

vars == <<listing, quotes, proofs, cache, orders, desk, served, told, sent, resends, edits, crashes,
          stranded>>

Idle == [at |-> "idle"]
NoAnswer == [status |-> 0]
Unsigned == [status |-> "none"]
NoLines == [i \in {} |-> 0]

Init ==
    /\ listing \in Listings
    /\ quotes = [q \in QuoteIds |-> Unsigned]
    /\ proofs = {}
    /\ cache = [c \in Calls |-> [on |-> NoQuote, answer |-> NoAnswer]]
    /\ orders = {}
    /\ desk = [d \in Desks |-> Idle]
    /\ served = [c \in Calls |-> 0]
    /\ told = [c \in Calls |-> {}]
    /\ sent = {} /\ resends = 0
    /\ edits = 0 /\ crashes = 0
    /\ stranded = {}

-----------------------------------------------------------------------------
Mins == [s \in DOMAIN listing |-> listing[s].min]
Stocked(lines) == \A i \in DOMAIN lines : lines[i].sku \in DOMAIN listing

Signed == {q \in QuoteIds : quotes[q].status # "none"}
NextQuote == Cardinality(Signed) + 1

\* The quote is found and assertQuoteUsable lets it pass; a quote whose
\* validUntil has passed has the status "expired" here.
Usable(q) == q # NoQuote /\ quotes[q].status = "active"
UnusableCode(q) == IF q = NoQuote THEN 404 ELSE 422

Move(d, at) == desk' = [desk EXCEPT ![d] = [@ EXCEPT !.at = at]]

\* The handler of desk d answers.  The gate of a paid call keeps the answer
\* for the call's key, unless one is kept already.
Answer(d, answer) ==
    LET c == desk[d].call
    IN  /\ desk' = [desk EXCEPT ![d] = Idle]
        /\ told' = [told EXCEPT ![c] = @ \cup {answer}]
        /\ cache' = IF Kind[c] = "order" \/ cache[c].answer # NoAnswer THEN cache
                    ELSE [cache EXCEPT ![c] = [on |-> desk[d].on, answer |-> answer]]

\* The gate or the order route turns a request away: nothing is kept.
TurnAway(d, answer) ==
    /\ desk' = [desk EXCEPT ![d] = Idle]
    /\ told' = [told EXCEPT ![desk[d].call] = @ \cup {answer}]
    /\ UNCHANGED cache

Failed(status) == [status |-> status, quote |-> NoQuote, refunded |-> FALSE]
Quoted(q) == [status |-> 200, quote |-> q, refunded |-> FALSE]
Refunded(status) == [status |-> status, quote |-> NoQuote, refunded |-> TRUE]

-----------------------------------------------------------------------------
(***************************************************************************)
(* The payment gate.  The Solana gate awaits between the look into the     *)
(* cache and the taking of the proof; the mock gate does both at once.     *)
(***************************************************************************)
Send(c, on, d) ==
    /\ c \notin sent \/ resends < MaxResends
    /\ desk[d] = Idle /\ \A e \in Desks : e < d => desk[e] # Idle
    /\ on \in {NoQuote} \cup IF Kind[c] \in {"negotiate", "order"} THEN Signed ELSE {}
    /\ sent' = sent \cup {c}
    /\ resends' = IF c \in sent THEN resends + 1 ELSE resends
    /\ desk' = [desk EXCEPT ![d] = [at |-> IF Kind[c] = "order" THEN "order" ELSE "gate",
                                    call |-> c, on |-> on, lines |-> NoLines,
                                    total |-> 0, rule |-> 1, under |-> listing,
                                    edited |-> FALSE]]
    /\ UNCHANGED <<listing, quotes, proofs, cache, orders, served, told, edits, crashes, stranded>>

\* The same key and payload replays the answer's status and body, without
\* its x-fee-refunded header; a different payload conflicts.
LookUp(d) ==
    /\ desk[d].at = "gate"
    /\ LET c == desk[d].call
           kept == cache[c]
       IN  \/ /\ kept.answer = NoAnswer
              /\ Move(d, "proof") /\ UNCHANGED <<told, cache>>
           \/ /\ kept.answer # NoAnswer /\ kept.on = desk[d].on
              /\ TurnAway(d, [kept.answer EXCEPT !.refunded = FALSE])
           \/ /\ kept.answer # NoAnswer /\ kept.on # desk[d].on
              /\ TurnAway(d, Failed(409))
    /\ UNCHANGED <<listing, quotes, proofs, orders, served, sent, resends, edits, crashes, stranded>>

\* Mutant of ProofTaken: a proof is taken again for the same key.
ProofTakenByAnother(c) == FALSE

ProofTaken(c) == c \in proofs

TakeProof(d) ==
    /\ desk[d].at = "proof"
    /\ LET c == desk[d].call
       IN  IF ProofTaken(c) THEN TurnAway(d, Failed(402)) /\ UNCHANGED <<proofs, served>>
           ELSE /\ proofs' = proofs \cup {c}
                /\ served' = [served EXCEPT ![c] = @ + 1]
                /\ Move(d, IF Kind[c] = "negotiate" THEN "negotiate" ELSE "read")
                /\ UNCHANGED <<told, cache>>
    /\ UNCHANGED <<listing, quotes, orders, sent, resends, edits, crashes, stranded>>

-----------------------------------------------------------------------------
(***************************************************************************)
(* quote and quote-basket: what is stocked at list price, the campaigns    *)
(* one after the other, the provider's proposal.                           *)
(***************************************************************************)
Available == {i \in DOMAIN Basket : Basket[i].sku \in DOMAIN listing}

ListLines(items) ==
    [i \in items |-> [sku |-> Basket[i].sku, qty |-> Basket[i].qty,
                      unit |-> listing[Basket[i].sku].price]]

ReadPrices(d) ==
    /\ desk[d].at = "read"
    /\ IF Available = {} THEN Answer(d, Failed(422))
       ELSE /\ desk' = [desk EXCEPT ![d] = [@ EXCEPT
                 !.lines = ListLines(Available), !.total = TotalOf(ListLines(Available)),
                 !.at = IF Kind[desk[d].call] = "quote" THEN "campaign" ELSE "sign"]]
            /\ UNCHANGED <<told, cache>>
    /\ UNCHANGED <<listing, quotes, proofs, orders, served, sent, resends, edits, crashes, stranded>>

\* A discount of the lines of d, kept only if it lowers the total.
Lowers(d, lines) == TotalOf(lines) < desk[d].total

AfterRule(d, applied) ==
    IF applied /\ Campaigns[desk[d].rule].exclusive THEN Len(Campaigns) + 1
    ELSE desk[d].rule + 1

ApplyCampaign(d) ==
    /\ desk[d].at = "campaign" /\ desk[d].rule <= Len(Campaigns)
    /\ LET discount == RuleDiscount(Campaigns[desk[d].rule], desk[d].total)
           lines == SpreadDiscount(Mins, desk[d].lines, desk[d].total, discount)
       IN  \/ /\ discount <= 0 \/ (Stocked(desk[d].lines) /\ ~Lowers(d, lines))
              /\ desk' = [desk EXCEPT ![d] = [@ EXCEPT !.rule = AfterRule(d, FALSE)]]
              /\ UNCHANGED <<told, cache>>
           \/ /\ discount > 0 /\ ~Stocked(desk[d].lines)
              /\ Answer(d, Failed(422))
           \/ /\ discount > 0 /\ Stocked(desk[d].lines) /\ Lowers(d, lines)
              /\ desk' = [desk EXCEPT ![d] = [@ EXCEPT
                   !.rule = AfterRule(d, TRUE), !.lines = lines, !.total = TotalOf(lines)]]
              /\ UNCHANGED <<told, cache>>
    /\ UNCHANGED <<listing, quotes, proofs, orders, served, sent, resends, edits, crashes, stranded>>

\* The provider proposes; it fails, times out, is over its rate, or this
\* merchant does not negotiate.
Propose(d, bps) ==
    /\ desk[d].at = "campaign" /\ desk[d].rule > Len(Campaigns) /\ Negotiates
    /\ IF Stocked(desk[d].lines)
       THEN LET lines == ApplyBoundedDiscount(Mins, desk[d].lines, desk[d].total,
                                              bps, MaxDiscountBps)
            IN  /\ desk' = [desk EXCEPT ![d] = [@ EXCEPT
                      !.lines = lines, !.total = TotalOf(lines), !.at = "sign"]]
                /\ UNCHANGED <<told, cache>>
       ELSE Answer(d, Failed(422))
    /\ UNCHANGED <<listing, quotes, proofs, orders, served, sent, resends, edits, crashes, stranded>>

FallBack(d) ==
    /\ desk[d].at = "campaign" /\ desk[d].rule > Len(Campaigns)
    /\ Move(d, "sign")
    /\ UNCHANGED <<listing, quotes, proofs, cache, orders, served, told, sent, resends, edits, crashes, stranded>>

-----------------------------------------------------------------------------
(***************************************************************************)
(* negotiate: half of what is asked for, unless that is worth less than    *)
(* the fee.  An exception on the way is answered with 500, fee and all.    *)
(***************************************************************************)
StartNegotiation(d) ==
    /\ desk[d].at = "negotiate"
    /\ \/ ~Negotiates /\ Answer(d, Refunded(200))
       \/ /\ Negotiates /\ Usable(desk[d].on)
          /\ Move(d, "counter") /\ UNCHANGED <<told, cache>>
       \/ /\ Negotiates /\ ~Usable(desk[d].on)
          /\ Answer(d, Refunded(UnusableCode(desk[d].on)))
    /\ UNCHANGED <<listing, quotes, proofs, orders, served, sent, resends, edits, crashes, stranded>>

WorthTheFee(gain) == gain >= Fee

Counter(d) ==
    /\ desk[d].at = "counter"
    /\ LET row == quotes[desk[d].on]
       IN  IF ~Stocked(row.lines) THEN Answer(d, Failed(500))
           ELSE LET lines == CounterOffer(Mins, row.lines, row.total, AskedBps, MaxDiscountBps)
                IN  IF ~WorthTheFee(row.total - TotalOf(lines)) THEN Answer(d, Refunded(200))
                    ELSE /\ desk' = [desk EXCEPT ![d] = [@ EXCEPT
                              !.lines = lines, !.total = TotalOf(lines), !.at = "sign"]]
                         /\ UNCHANGED <<told, cache>>
    /\ UNCHANGED <<listing, quotes, proofs, orders, served, sent, resends, edits, crashes, stranded>>

-----------------------------------------------------------------------------
(***************************************************************************)
(* createQuote: the last look at the minimum, then the signed quote and    *)
(* the end of the one it supersedes, whatever that has become.             *)
(***************************************************************************)
\* Mutant of AboveMinimum: the last look is left out.
AboveMinimumTrusted(d) == TRUE

AboveMinimum(d) == desk[d].total >= MinTotalFor(Mins, desk[d].lines)

\* Mutant of Superseded: only a quote that is still active is superseded.
SupersededIfActive(q) ==
    IF q # NoQuote /\ quotes[q].status = "active"
    THEN [quotes EXCEPT ![q].status = "superseded"] ELSE quotes

Superseded(q) == IF q = NoQuote THEN quotes ELSE [quotes EXCEPT ![q].status = "superseded"]

\* Two awaits follow the last look: the signature's key and the signature.
LastLook(d) ==
    /\ desk[d].at = "sign"
    /\ IF ~Stocked(desk[d].lines) \/ ~AboveMinimum(d)
       THEN Answer(d, Failed(IF desk[d].on = NoQuote THEN 422 ELSE 500))
       ELSE /\ desk' = [desk EXCEPT ![d] = [@ EXCEPT !.under = listing, !.at = "write"]]
            /\ UNCHANGED <<told, cache>>
    /\ UNCHANGED <<listing, quotes, proofs, orders, served, sent, resends, edits, crashes, stranded>>

\* The quote it supersedes ends, and the signed quote is written.
Sign(d) ==
    /\ desk[d].at = "write"
    /\ NextQuote \in QuoteIds
    /\ quotes' = [Superseded(desk[d].on) EXCEPT ![NextQuote] =
         [status |-> "active", lines |-> desk[d].lines, total |-> desk[d].total,
          prev |-> desk[d].on, listing |-> desk[d].under, edited |-> desk[d].edited]]
    /\ Answer(d, Quoted(NextQuote))
    /\ UNCHANGED <<listing, proofs, orders, served, sent, resends, edits, crashes, stranded>>

-----------------------------------------------------------------------------
(***************************************************************************)
(* order: free, at the signed prices; the signature is verified and the    *)
(* stock committed before the quote is consumed.                           *)
(***************************************************************************)
LoadOrder(d) ==
    /\ desk[d].at = "order"
    /\ IF Usable(desk[d].on) THEN Move(d, "commit") /\ UNCHANGED <<told, cache>>
       ELSE TurnAway(d, Failed(UnusableCode(desk[d].on)))
    /\ UNCHANGED <<listing, quotes, proofs, orders, served, sent, resends, edits, crashes, stranded>>

NoStock(d) ==
    /\ desk[d].at = "commit"
    /\ TurnAway(d, Failed(422))
    /\ UNCHANGED <<listing, quotes, proofs, orders, served, sent, resends, edits, crashes, stranded>>

Consumed(q) == [quotes EXCEPT ![q].status = "consumed"]

PlaceOrder(d) ==
    /\ desk[d].at = "commit"
    /\ quotes' = Consumed(desk[d].on)
    /\ orders' = orders \cup {[call |-> desk[d].call, quote |-> desk[d].on]}
    /\ Answer(d, Quoted(desk[d].on))
    /\ UNCHANGED <<listing, proofs, served, sent, resends, edits, crashes, stranded>>

-----------------------------------------------------------------------------
QuoteExpires(q) ==
    /\ quotes[q].status = "active"
    /\ quotes' = [quotes EXCEPT ![q].status = "expired"]
    /\ UNCHANGED <<listing, proofs, cache, orders, desk, served, told, sent, resends, edits, crashes, stranded>>

\* The owner edits the catalogue or takes a product off it.
Edit(l) ==
    /\ edits < MaxEdits /\ l # listing
    /\ listing' = l
    /\ edits' = edits + 1
    /\ desk' = [d \in Desks |-> IF desk[d] = Idle THEN Idle
                                ELSE [desk[d] EXCEPT !.edited = @ \/ desk[d].at # "write"]]
    /\ UNCHANGED <<quotes, proofs, cache, orders, served, told, sent, resends, crashes, stranded>>

Down ==
    /\ crashes < MaxCrashes
    /\ desk' = [d \in Desks |-> Idle]
    /\ crashes' = crashes + 1
    /\ UNCHANGED <<listing, proofs, cache, orders, served, told, sent, resends, edits>>

Crash ==
    /\ \E d \in Desks : desk[d] # Idle
    /\ Down
    /\ UNCHANGED <<quotes, stranded>>

\* The first of two writes is done, its quote has ended, and the second is not.
CrashBetweenWrites(d) ==
    /\ \/ desk[d].at = "write" /\ desk[d].on # NoQuote /\ quotes' = Superseded(desk[d].on)
       \/ desk[d].at = "commit" /\ quotes' = Consumed(desk[d].on)
    /\ stranded' = stranded \cup {desk[d].on}
    /\ Down

Step(d) ==
    \/ LookUp(d) \/ TakeProof(d) \/ ReadPrices(d) \/ ApplyCampaign(d)
    \/ \E bps \in Proposals : Propose(d, bps)
    \/ FallBack(d) \/ StartNegotiation(d) \/ Counter(d) \/ LastLook(d) \/ Sign(d)
    \/ LoadOrder(d) \/ NoStock(d) \/ PlaceOrder(d)

Next ==
    \/ \E c \in Calls, on \in QuoteIds \cup {NoQuote}, d \in Desks : Send(c, on, d)
    \/ \E d \in Desks : Step(d)
    \/ \E q \in QuoteIds : QuoteExpires(q)
    \/ \E l \in Listings : Edit(l)
    \/ Crash
    \/ \E d \in Desks : CrashBetweenWrites(d)

Spec == Init /\ [][Next]_vars
-----------------------------------------------------------------------------
(***************************************************************************)
(* Properties.                                                             *)
(***************************************************************************)
Line == [sku : Skus, qty : Nat \ {0}, unit : Int]
Answers == [status : Nat, quote : QuoteIds \cup {NoQuote}, refunded : BOOLEAN]
Stages == {"gate", "proof", "read", "campaign", "negotiate", "counter", "sign",
           "write", "order", "commit"}

\* A request and a quote for the lines at the positions D of the basket.
Request(D) == [at : Stages, call : Calls, on : QuoteIds \cup {NoQuote}, lines : [D -> Line],
               total : Int, rule : Nat, under : Listings, edited : BOOLEAN]
Quote(D) == [status : {"active", "superseded", "consumed", "expired"}, lines : [D -> Line],
             total : Int, prev : QuoteIds \cup {NoQuote}, listing : Listings, edited : BOOLEAN]

\* Quotes, requests and answers have their types (quotes.ts, payments.ts).
TypeOK ==
    /\ listing \in Listings
    /\ DOMAIN quotes = QuoteIds
    /\ \A q \in QuoteIds : quotes[q] = Unsigned \/ \E D \in SUBSET DOMAIN Basket : quotes[q] \in Quote(D)
    /\ proofs \subseteq Calls
    /\ cache \in [Calls -> [on : QuoteIds \cup {NoQuote}, answer : {NoAnswer} \cup Answers]]
    /\ orders \subseteq [call : Calls, quote : QuoteIds]
    /\ DOMAIN desk = Desks
    /\ \A d \in Desks : desk[d] = Idle \/ \E D \in SUBSET DOMAIN Basket : desk[d] \in Request(D)
    /\ served \in [Calls -> Nat]
    /\ told \in [Calls -> SUBSET Answers]
    /\ sent \subseteq Calls /\ resends \in 0 .. MaxResends
    /\ edits \in 0 .. MaxEdits /\ crashes \in 0 .. MaxCrashes
    /\ stranded \subseteq QuoteIds

MinsOf(q) == [s \in DOMAIN quotes[q].listing |-> quotes[q].listing[s].min]

\* Whatever campaigns, proposals and counter-offers did to it, a signed quote
\* adds up, is worth at least the sum of its minimum prices as the catalogue
\* then was, and unless the owner edited the catalogue meanwhile no line is
\* below its own (quotes.ts:60, "unit price >= minPriceMicroUsdc").
FloorsHold ==
    /\ TypeOK
    /\ \A q \in Signed :
          /\ quotes[q].total = TotalOf(quotes[q].lines)
          /\ quotes[q].total >= MinTotalFor(MinsOf(q), quotes[q].lines)
          /\ ~quotes[q].edited =>
                \A i \in DOMAIN quotes[q].lines :
                    quotes[q].lines[i].unit >= MinsOf(q)[quotes[q].lines[i].sku]

\* The campaigns that may apply together: nothing follows an exclusive one.
Stacks == {S \in SUBSET DOMAIN Campaigns :
              \A i, j \in S : Campaigns[i].exclusive => j <= i}

\* The list price of a quote's lines when it was signed.
Listed(q) ==
    [i \in DOMAIN quotes[q].lines |->
        [quotes[q].lines[i] EXCEPT !.unit = quotes[q].listing[quotes[q].lines[i].sku].price]]

\* Nobody is given more than somebody authorised: a first quote gives what
\* its campaigns allow together plus the merchant's maximum discount, a
\* negotiation at least its own fee and at most half of what was asked for,
\* however the roundings and the floors of several lines fall
\* (campaignPricing.ts:47-114, quotes.ts:218-246, app.ts:470).
DiscountsAreAuthorized ==
    \A q \in Signed :
        IF quotes[q].prev = NoQuote
        THEN ~quotes[q].edited =>
               LET full == TotalOf(Listed(q))
                   off == full - quotes[q].total
               IN  /\ off >= 0
                   /\ \E S \in Stacks :
                        off <= SumFunctionOnSet([i \in S |-> RuleDiscount(Campaigns[i], full)], S)
                                 + ApplyBps(full, MaxDiscountBps)
        ELSE LET before == quotes[quotes[q].prev].total
             IN  before - quotes[q].total \in
                   Fee .. ApplyBps(before, Halved(AskedBps, MaxDiscountBps))

\* Across retries, overlaps and crashes a payment is worked for once at most,
\* and all the answers its buyer hears, other than that the proof was used or
\* the key is taken, are one answer (payments.ts:48-58).
OneAnswerPerPayment ==
    \A c \in Calls : Kind[c] # "order" =>
        /\ served[c] <= 1
        /\ \A a, b \in {x \in told[c] : x.status \notin {402, 409}} :
              a.status = b.status /\ a.quote = b.quote

\* A quote that has a successor or an order is not usable any more, and one
\* that ended has its successor or its order, unless the merchant agent stopped
\* between the write that ended it and the write of what ended it
\* (quotes.ts:96-105, app.ts:579-591).
QuotesAreAccounted ==
    \A q \in Signed :
        LET succeeded == \E r \in Signed : quotes[r].prev = q
            ordered == \E o \in orders : o.quote = q
        IN  /\ quotes[q].status \in {"active", "expired"} =>
                  ~succeeded /\ ~ordered /\ q \notin stranded
            /\ quotes[q].status = "superseded" => succeeded \/ q \in stranded
            /\ quotes[q].status = "consumed" => ordered \/ q \in stranded
=============================================================================
