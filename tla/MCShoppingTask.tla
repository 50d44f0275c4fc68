--------------------------- MODULE MCShoppingTask ---------------------------
EXTENDS ShoppingTask

Row(sku, qty, essential) == [sku |-> sku, qty |-> qty, essential |-> essential]

\* A list of four rows, and one the planner put the same product on twice.
Lists == {<<Row("mince", 2, TRUE), Row("steak", 1, FALSE), Row("milk", 1, FALSE), Row("eggs", 1, TRUE)>>,
          <<Row("mince", 2, TRUE), Row("milk", 1, FALSE), Row("mince", 1, FALSE)>>}

\* Two butchers and two general stores, two of them equally far.
FourShops == {"ali", "veli", "market", "corner"}
Far == [s \in FourShops |-> CASE s = "ali" -> 1 [] s = "veli" -> 3 [] OTHER -> 2]
Good == [s \in FourShops |-> CASE s = "corner" -> 8 [] s = "veli" -> 9 [] OTHER -> 7]
Kind == [x \in FourShops \cup {"mince", "steak", "milk", "eggs"} |->
    IF x \in {"market", "corner", "milk", "eggs"} THEN "market" ELSE "butcher"]

In(stock, price) == [stock |-> stock, price |-> price]
Floors == [mince |-> 18, steak |-> 25, milk |-> 9, eggs |-> 11]
ShelvesOf == [s \in FourShops |->
    CASE s = "ali" -> {[mince |-> In(1, 20), steak |-> In(3, 40)],
                       [mince |-> In(5, 22), steak |-> In(1, 28)]}
      [] s = "veli" -> {[mince |-> In(2, 20)], [mince |-> In(4, 26), steak |-> In(2, 38)]}
      [] s = "corner" -> {[mince |-> In(3, 21), steak |-> In(1, 36), eggs |-> In(4, 11)],
                          [mince |-> In(1, 19), steak |-> In(2, 30), milk |-> In(2, 9)]}
      [] OTHER -> {[mince |-> In(9, 25), steak |-> In(9, 40), milk |-> In(2, 10), eggs |-> In(2, 12)],
                   [mince |-> In(9, 20), milk |-> In(2, 11)],
                   [eggs |-> In(1, 11), milk |-> In(1, 12)]}]
Hagglers == {"ali", "market", "corner"}
=============================================================================
