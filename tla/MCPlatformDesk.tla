-------------------------- MODULE MCPlatformDesk ---------------------------
(* One seed merchant with a dispute-prone order, one self-service merchant, two requests at a time. *)
EXTENDS PlatformDesk

CONSTANTS seed, shop, o1, d1, d2, r1, r2

TheOrgs     == {seed, shop}
Numbers     == seed :> 1
SeedKeys    == <<21>>
PayoutOf    == (seed :> 11) @@ (shop :> 12)
TwoRequests == {r1, r2}
OneOrder    == {o1}
Merchant    == o1 :> seed
TwoDisputes == {d1, d2}
About       == (d1 :> o1) @@ (d2 :> o1)
Swap        == Permutations(TwoRequests) \union Permutations(TwoDisputes)

Opened == {d \in Disputes : disputes[d] # "none"}

(* Bound: publications and the second organization are looked at before    *)
(* there is an escrow; a second escrow and a second dispute not together,  *)
(* and only where the published number is the first and the script found   *)
(* its wallet there.                                                       *)
OneAtATime ==
    /\ escrows # <<>> => ~orgs[shop].exists /\ \A r \in Requests : requests[r].op # "publish"
    /\ Len(escrows) > 1 \/ Opened = Disputes => Len(listed) = 1 /\ missing = {}
    /\ Len(escrows) <= 1 \/ Opened # Disputes
=============================================================================
