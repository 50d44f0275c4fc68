---------------------------- MODULE MCQuoteDesk ----------------------------
EXTENDS QuoteDesk

Row(price, min) == [price |-> price, min |-> min]

\* Two products with room to give and one product near its floor: the owner
\* raises or lowers prices and takes the milk off or puts it back.
Usual == [bread |-> Row(60, 40), milk |-> Row(9, 5)]
NoMilk == [bread |-> Row(33, 30)]
Catalogues == {Usual, NoMilk}

TwoLines == <<[sku |-> "bread", qty |-> 1], [sku |-> "milk", qty |-> 2]>>
Products == {"bread", "milk"}

Rule(type, value, max, exclusive) ==
    [type |-> type, value |-> value, max |-> max, exclusive |-> exclusive]
ThreeCampaigns == <<Rule("fixed", 6, NoMaximum, FALSE), Rule("percent", 1500, 5, TRUE),
                  Rule("fixed", 4, NoMaximum, FALSE)>>
Offers == {-100, 5000}
BuyerCalls == {"basket", "haggle", "again", "buy"}
FourKinds == [c \in BuyerCalls |->
    CASE c = "basket" -> "quote" [] c = "buy" -> "order" [] OTHER -> "negotiate"]
=============================================================================
