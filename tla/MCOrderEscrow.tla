--------------------------- MODULE MCOrderEscrow ---------------------------
(* A small instance of OrderEscrow.                                        *)
EXTENDS OrderEscrow, TLC

\* Nothing in the program or its properties orders or names any of these.
Symmetry ==
  Permutations(Merchants) \cup Permutations(Wallets) \cup Permutations(Mints)
    \cup Permutations(Codes)
=============================================================================
