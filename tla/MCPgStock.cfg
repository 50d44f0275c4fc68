SPECIFICATION StockSpec
CONSTANTS
  a = a
  b = b
  t1 = t1
  t2 = t2
  Skus = {a, b}
  Initial <- TwoEach
  Orders = {1, 2}
  Basket <- TwoBaskets
  Tx = {t1, t2}
  MaxQty = 2
  MaxHolds = 2
  MaxAdjusts = 1
SYMMETRY TxSymmetry
INVARIANTS
  NeverOversold
  NothingLeaks
CHECK_DEADLOCK FALSE
