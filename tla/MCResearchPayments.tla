-------------------------- MODULE MCResearchPayments --------------------------
(***************************************************************************)
(* Instances of ResearchPayments, in units of 500 micro-USDC: the mock     *)
(* provider with two runs at once, the Solana provider with one.           *)
(***************************************************************************)
EXTENDS ResearchPayments, TLC

CONSTANTS butcher, market

MCPrice == [quoting |-> 1, reserving |-> 2, negotiating |-> 4]

MCParallel == [mock |-> 2, solana |-> 1]

MCRequests == [quoting |-> <<butcher, market>>, reserving |-> <<market>>,
               negotiating |-> <<butcher, market>>]

===============================================================================
