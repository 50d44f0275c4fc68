SPECIFICATION Spec
CONSTANTS
  Merchants = {m1, m2}
  Wallets = {w1, w2}
  Mints = {usdc, other}
  Codes = {c1, c2}
  NoWallet = NoWallet
  NoMint = NoMint
  Amounts = {0, 1}
  Deadlines = {1, 2}
  Supply = 1
  MaxId = 3
  MaxTime = 1
INVARIANTS
  AccountsAreSound
  MoneyStaysMoney
PROPERTIES
  RefundIsEarned
  ImplementsPromise
  FollowsLife
SYMMETRY Symmetry
CHECK_DEADLOCK FALSE
