----------------------------- MODULE EscrowLife -----------------------------
(***************************************************************************)
(* The states an escrow goes through, seen from outside the chain: ids are *)
(* handed out in order, preparation only moves forward, a dispute stops    *)
(* it, and nothing leaves Released or Refunded.  The escrow program obeys  *)
(* it, and so does the chain as the bridge and the merchants observe it.   *)
(***************************************************************************)
EXTENDS Naturals

CONSTANT Ids

VARIABLE life

Init == life = [i \in Ids |-> "None"]

Becomes(i, from, to) ==
  /\ life[i] \in from
  /\ life' = [life EXCEPT ![i] = to]

Create(i) ==
  /\ \A j \in Ids : j < i => life[j] # "None"
  /\ Becomes(i, {"None"}, "Funded")

Advance(i) ==
  \/ Becomes(i, {"Funded"}, "Preparing")
  \/ Becomes(i, {"Preparing"}, "Ready")
  \/ Becomes(i, {"Funded", "Preparing", "Ready"}, "Disputed")

Settle(i) ==
  \/ Becomes(i, {"Funded", "Preparing", "Ready", "Disputed"}, "Released")
  \/ Becomes(i, {"Funded", "Preparing", "Ready", "Disputed"}, "Refunded")

Next == \E i \in Ids : Create(i) \/ Advance(i) \/ Settle(i)

Spec == Init /\ [][Next]_life
=============================================================================
