--------------------------- MODULE PlatformDesk ----------------------------
(***************************************************************************)
(* The platform API's desk for operators: a merchant's organization is     *)
(* drafted and published on chain (its listing, then its payout wallet); a *)
(* buyer's dispute is reviewed, resolved on chain and closed.  A request   *)
(* is a sequence of awaits, so requests interleave, and any of them can    *)
(* end between two steps: the process stops, the database or the RPC node  *)
(* fails, or a transaction is not confirmed in time although it lands.     *)
(* Beside them run the bootstrap script, which lists the seed merchants,   *)
(* and the escrow's own life, of which this module keeps what the desk can *)
(* tell apart ("Funded" is also Preparing and Ready) and OrderEscrow the   *)
(* detail.  An organization's status is left out: nothing here reads it.   *)
(*                                                                         *)
(* Every change of the chain here goes through the codec: it is the        *)
(* program's effect of the instruction that arrives, if one does.          *)
(*                                                                         *)
(* What was read and not yet acted on (a wallet account the script found   *)
(* missing, a buyer's report the bridge has verified) is kept in a set:    *)
(* the act may come at any later time, more than once if somebody asks     *)
(* again, or never.                                                        *)
(***************************************************************************)
EXTENDS ChainCalls, FiniteSets

CONSTANTS
    Orgs,         \* the merchant organizations of the database
    SeedId,       \* the number of each seed organization: a function on some of Orgs
    SeedWallet,   \* the wallet of each seed number, from its key in the environment: a sequence
    Payout,       \* the payout wallet the database has of each organization
    Requests,     \* what can be under way at once
    Orders,       \* shopping orders, and
    OrgOf,        \* the organization of each
    Disputes,     \* disputes, and
    OrderOf,      \* the order of each
    Buyer,        \* the buyer's wallet
    MaxListings,  \* bound: listings in the directory
    MaxEscrows    \* bound: escrows funded

(* Numbers that are encoded are those of IdlCodec, below 2^31.             *)
ASSUME DeskAssumption ==
    /\ {Mint, Relayer, Buyer} \subseteq Nat
    /\ MaxListings \in Nat /\ MaxListings <= 2147483647
    /\ MaxEscrows \in Nat /\ MaxEscrows <= 2147483647
    /\ SeedWallet \in Seq(Nat) /\ Len(SeedWallet) <= MaxListings
    /\ Payout \in [Orgs -> Nat]
    /\ DOMAIN SeedId \subseteq Orgs
    /\ \A o \in DOMAIN SeedId : SeedId[o] \in DOMAIN SeedWallet
    /\ OrgOf \in [Orders -> Orgs]
    /\ OrderOf \in [Disputes -> Orders]

VARIABLES
    orgs,         \* Postgres: organizations [exists, chainId], 0 for no chain id
    disputes,     \* Postgres: the status of each dispute
    rows,         \* Postgres: [state, escrow] of each order's escrow row, 0 for no number
    paid,         \* Postgres: the orders that do not await their funding any more
    requests,     \* where each request has got to
    reports,      \* [escrow, state]: reports of a funding or a release, verified
    missing,      \* the seed numbers whose wallet account the script found missing
    programs,     \* chain: the programs whose configuration account exists
    listed,       \* chain: the wallet listed under each merchant id, from 1
    wallets,      \* chain: the MerchantWallet accounts, by merchant id
    escrows,      \* chain: [order, state, merchantId, paidTo], by order number
    overwritten,  \* history: the numbers whose wallet the script replaced
    settledOn     \* history: the escrow each dispute was last settled on, 0 for none

db    == <<orgs, disputes, rows, paid>>
chain == <<programs, listed, wallets, escrows>>
notes == <<reports, missing, overwritten, settledOn>>
vars  == <<db, chain, requests, notes>>

Idle == [op |-> "idle"]
NoOne == Wallet(0)

Init ==
    /\ orgs = [o \in Orgs |-> [exists |-> o \in DOMAIN SeedId, chainId |-> 0]]
    /\ disputes = [d \in Disputes |-> "none"]
    /\ rows = [x \in Orders |-> [state |-> "none", escrow |-> 0]] /\ paid = {}
    /\ requests = [r \in Requests |-> Idle] /\ reports = {} /\ missing = {}
    /\ programs = {} /\ listed = <<>> /\ wallets = <<>> /\ escrows = <<>>
    /\ overwritten = {} /\ settledOn = [d \in Disputes |-> 0]

(***************************************************************************)
(* The chain's side.                                                       *)
(***************************************************************************)
Arriving(idl, program, sent, payer) ==
    UNION {Delivered(idl, program, ix, payer, DOMAIN wallets) : ix \in sent}
ToDirectory(sent) == Arriving(MerchantDirectoryIdl, "merchant_directory", sent, Wallet(Relayer))
ToEscrow(sent)    == Arriving(OrderEscrowIdl, "order_escrow", sent, Wallet(Relayer))

HandleInitialize(program) ==
    /\ program \notin programs
    /\ programs' = programs \union {program}
    /\ UNCHANGED <<listed, wallets, escrows>>

HandleListMerchant(d) ==
    /\ "merchant_directory" \in programs
    /\ d.args.merchant_id = Len(listed) + 1
    /\ listed' = Append(listed, d.args.wallet)
    /\ UNCHANGED <<programs, wallets, escrows>>

HandleSetMerchantWallet(d) ==
    /\ "order_escrow" \in programs
    /\ wallets' = With(wallets, d.args.merchant_id, d.args.wallet)
    /\ UNCHANGED <<programs, listed, escrows>>

Settled(e, state, to) == escrows' = [escrows EXCEPT ![e].state = state, ![e].paidTo = to]

(* The arbiter's; the tokens' owners are checked, the merchant's number    *)
(* against the order's is not.                                             *)
HandleResolve(e, d) ==
    LET to == IF d.args.release_to_merchant THEN d.accounts["merchant_token_account"]
                                            ELSE d.accounts["buyer_token_account"]
        id == CHOOSE i \in DOMAIN wallets : d.accounts["merchant_wallet"] = MerchantWalletPda(i)
    IN  /\ escrows[e].state = "Disputed"
        /\ d.accounts["order"] = OrderPda(e)
        /\ d.accounts["buyer"] = Wallet(Buyer)
        /\ d.accounts["buyer_token_account"] = AssociatedToken(Wallet(Buyer))
        /\ d.accounts["merchant_token_account"] = AssociatedToken(wallets[id])
        /\ Settled(e, IF d.args.release_to_merchant THEN "Released" ELSE "Refunded", to[2])
        /\ UNCHANGED <<programs, listed, wallets>>

(***************************************************************************)
(* The bootstrap script: each step is taken when its account is missing,   *)
(* so a script that stopped anywhere goes on where it was.                 *)
(***************************************************************************)
InitializeCall(program) ==
    CASE program = "merchant_directory" ->
           BuildInstruction(MerchantDirectoryIdl, program, "initialize",
               [authority |-> Wallet(Relayer), directory_state |-> DirectoryStatePda], <<>>)
      [] program = "order_escrow" ->
           BuildInstruction(OrderEscrowIdl, program, "initialize",
               [authority |-> Wallet(Relayer), escrow_config |-> EscrowConfigPda],
               [arbiter |-> Wallet(Relayer), usdc_mint |-> Wallet(Mint)])
      [] program = "order_receipt" ->
           BuildInstruction(OrderReceiptIdl, program, "initialize",
               [authority |-> Wallet(Relayer), receipt_config |-> ReceiptConfigPda],
               [relayer |-> Wallet(Relayer)])

IdlOf(program) ==
    CASE program = "merchant_directory" -> MerchantDirectoryIdl
      [] program = "order_escrow"       -> OrderEscrowIdl
      [] program = "order_receipt"      -> OrderReceiptIdl

EnsureInitialized(program) ==
    /\ program = "order_escrow" => "merchant_directory" \in programs
    /\ program = "order_receipt" => "order_escrow" \in programs
    /\ Arriving(IdlOf(program), program, InitializeCall(program), Wallet(Relayer)) # {}
    /\ HandleInitialize(program)
    /\ UNCHANGED <<db, requests, notes>>

(* What the two callers of list_merchant and set_merchant_wallet send.     *)
Name == <<97>>
ListCall(id, agentId, wallet) ==
    BuildInstruction(MerchantDirectoryIdl, "merchant_directory", "list_merchant",
        [authority |-> Wallet(Relayer), directory_state |-> DirectoryStatePda, merchant |-> MerchantPda(id)],
        [merchant_id |-> id, agent_id |-> agentId, name |-> Name, category |-> Name, endpoint_uri |-> Name \o Name,
         wallet |-> Wallet(wallet), geo_hash |-> [i \in 1..32 |-> 7], attestation_uid |-> [i \in 1..32 |-> 0]])
SetWalletCall(id, wallet) ==
    BuildInstruction(OrderEscrowIdl, "order_escrow", "set_merchant_wallet",
        [authority |-> Wallet(Relayer), escrow_config |-> EscrowConfigPda, merchant_wallet |-> MerchantWalletPda(id)],
        [merchant_id |-> id, wallet |-> Wallet(wallet)])

SeedsDone(n) == /\ "order_receipt" \in programs
                /\ \A j \in 1..n : j <= Len(listed) /\ j \in DOMAIN wallets

EnsureMerchantListed(i) ==
    /\ SeedsDone(i - 1)
    /\ i > Len(listed)
    /\ \E d \in ToDirectory(ListCall(i, i, SeedWallet[i])) : HandleListMerchant(d)
    /\ UNCHANGED <<db, requests, notes>>

(* The wallet account is fetched, and if it is missing set: the program    *)
(* sets it over one that has come by then (init_if_needed).                *)
LookForWallet(i) ==
    /\ SeedsDone(i - 1)
    /\ i <= Len(listed) /\ i \notin DOMAIN wallets
    /\ missing' = missing \union {i}
    /\ UNCHANGED <<db, chain, requests, reports, overwritten, settledOn>>

SetSeedWallet(i) ==
    /\ i \in missing
    /\ \E d \in ToEscrow(SetWalletCall(i, SeedWallet[i])) : HandleSetMerchantWallet(d)
    /\ overwritten' = IF i \in DOMAIN wallets /\ wallets[i] # Wallet(SeedWallet[i])
                      THEN overwritten \union {i} ELSE overwritten
    /\ UNCHANGED <<db, requests, reports, missing, settledOn>>

(***************************************************************************)
(* Requests.                                                               *)
(***************************************************************************)
Begin(r, frame) == requests[r] = Idle /\ requests' = [requests EXCEPT ![r] = frame]
Goes(r, frame)  == requests' = [requests EXCEPT ![r] = frame]
At(r, op, at)   == requests[r].op = op /\ requests[r].at = at

\* Mutant of AfterSending: a transaction that failed counts as sent.
AfterSendingAnyway(r, confirmed, frame) == Goes(r, frame)

(* sendAndConfirmInstructions returns when the transaction is confirmed    *)
(* and throws otherwise, which ends the request.                           *)
AfterSending(r, confirmed, frame) == Goes(r, IF confirmed THEN frame ELSE Idle)

(* It does not land, or it lands and is confirmed in time or not.          *)
Sent(r, handled, frame) ==
    \/ handled /\ \E confirmed \in BOOLEAN : AfterSending(r, confirmed, frame)
    \/ UNCHANGED chain /\ AfterSending(r, FALSE, frame)

Fail(r) == requests[r] # Idle /\ Goes(r, Idle) /\ UNCHANGED <<db, chain, notes>>

CreateMerchantOrg(o) ==
    /\ ~orgs[o].exists
    /\ orgs' = [orgs EXCEPT ![o].exists = TRUE]
    /\ UNCHANGED <<disputes, rows, paid, chain, requests, notes>>

(* publish: the organization, then the directory's next id, then the two   *)
(* transactions, then the stamp.                                           *)
Publish(r, o) ==
    /\ orgs[o].exists /\ orgs[o].chainId = 0
    /\ Begin(r, [op |-> "publish", at |-> "id", org |-> o])
    /\ UNCHANGED <<db, chain, notes>>

ReadNextId(r) ==
    /\ At(r, "publish", "id")
    /\ Len(listed) < MaxListings
    /\ IF "merchant_directory" \in programs
       THEN \E state \in DecodeAccountData(MerchantDirectoryIdl, "DirectoryState",
                   Stored(DirectoryStateFields, "DirectoryState",
                          [authority |-> Wallet(Relayer), next_merchant_id |-> Len(listed) + 1, bump |-> 255])) :
               Goes(r, [op |-> "publish", at |-> "list", org |-> requests[r].org, id |-> state.next_merchant_id])
       ELSE Goes(r, Idle)
    /\ UNCHANGED <<db, chain, notes>>

SendListing(r) ==
    /\ At(r, "publish", "list")
    /\ LET f == requests[r] IN
       Sent(r, \E d \in ToDirectory(ListCall(f.id, 0, Payout[f.org])) : HandleListMerchant(d),
            [f EXCEPT !.at = "wallet"])
    /\ UNCHANGED <<db, notes>>

SendWallet(r) ==
    /\ At(r, "publish", "wallet")
    /\ LET f == requests[r] IN
       Sent(r, \E d \in ToEscrow(SetWalletCall(f.id, Payout[f.org])) : HandleSetMerchantWallet(d),
            [f EXCEPT !.at = "stamp"])
    /\ UNCHANGED <<db, notes>>

PublishMerchantOrg(r) ==
    /\ At(r, "publish", "stamp")
    /\ orgs' = [orgs EXCEPT ![requests[r].org].chainId = requests[r].id]
    /\ Goes(r, Idle)
    /\ UNCHANGED <<disputes, rows, paid, chain, notes>>

(***************************************************************************)
(* Disputes.                                                               *)
(***************************************************************************)
AllowedTransitions ==
    {<<"open", "reviewing">>, <<"open", "closed">>, <<"reviewing", "refunded">>, <<"reviewing", "released">>,
     <<"reviewing", "closed">>, <<"refunded", "closed">>, <<"released", "closed">>}

CreateDispute(d) ==
    /\ disputes[d] = "none"
    /\ disputes' = [disputes EXCEPT ![d] = "open"]
    /\ UNCHANGED <<orgs, rows, paid, chain, requests, notes>>

(* setDisputeStatus reads and checks, then writes whatever is there by     *)
(* then: here for review and close.                                        *)
SetDisputeStatus(r, d, to) ==
    /\ <<disputes[d], to>> \in AllowedTransitions
    /\ Begin(r, [op |-> "status", at |-> "write", dispute |-> d, to |-> to])
    /\ UNCHANGED <<db, chain, notes>>

WriteStatus(r) ==
    /\ requests[r] # Idle /\ requests[r].at = "write"
    /\ LET f == requests[r] IN
       /\ disputes' = [disputes EXCEPT ![f.dispute] = f.to]
       /\ settledOn' = IF f.op = "resolve" THEN [settledOn EXCEPT ![f.dispute] = f.escrow] ELSE settledOn
    /\ Goes(r, Idle)
    /\ UNCHANGED <<orgs, rows, paid, chain, reports, missing, overwritten>>

(* resolve reads the dispute and the number in its order's escrow row,     *)
(* then the organization, then its MerchantWallet account.                 *)
ResolveDispute(r, d, to) ==
    /\ disputes[d] # "none" /\ rows[OrderOf[d]].escrow # 0
    /\ Begin(r, [op |-> "resolve", at |-> "org", dispute |-> d, to |-> to, escrow |-> rows[OrderOf[d]].escrow])
    /\ UNCHANGED <<db, chain, notes>>

ReadOrg(r) ==
    /\ At(r, "resolve", "org")
    /\ LET f == requests[r]
           id == orgs[OrgOf[OrderOf[f.dispute]]].chainId
       IN  Goes(r, IF id = 0 THEN Idle
                   ELSE [op |-> "resolve", at |-> "wallet", dispute |-> f.dispute, to |-> f.to, escrow |-> f.escrow,
                         id |-> id])
    /\ UNCHANGED <<db, chain, notes>>

ReadWallet(r) ==
    /\ At(r, "resolve", "wallet")
    /\ LET f == requests[r] IN
       IF f.id \notin DOMAIN wallets THEN Goes(r, Idle)
       ELSE \E account \in ReadMerchantWallet(f.id, wallets[f.id]) :
              Goes(r, [op |-> "resolve", at |-> "send", dispute |-> f.dispute, to |-> f.to, escrow |-> f.escrow,
                       id |-> f.id, wallet |-> account.wallet])
    /\ UNCHANGED <<db, chain, notes>>

\* Mutant of ReleaseToMerchant: the flag the other way round.
RefundToBuyer(to) == to = "refunded"
ReleaseToMerchant(to) == to = "released"

ResolveCall(f) ==
    BuildInstruction(OrderEscrowIdl, "order_escrow", "resolve",
        [arbiter |-> Wallet(Relayer), escrow_config |-> EscrowConfigPda, order |-> OrderPda(f.escrow),
         vault |-> VaultPda(f.escrow), buyer_token_account |-> AssociatedToken(Wallet(Buyer)),
         merchant_wallet |-> MerchantWalletPda(f.id), merchant_token_account |-> AssociatedToken(f.wallet),
         buyer |-> Wallet(Buyer)],
        [order_id |-> f.escrow, release_to_merchant |-> ReleaseToMerchant(f.to)])

SendResolve(r) ==
    /\ At(r, "resolve", "send")
    /\ LET f == requests[r] IN
       Sent(r, \E d \in ToEscrow(ResolveCall(f)) : HandleResolve(f.escrow, d), [f EXCEPT !.at = "row"])
    /\ UNCHANGED <<db, notes>>

(* The row is written, and setDisputeStatus reads and checks.              *)
WriteRow(r) ==
    /\ At(r, "resolve", "row")
    /\ LET f == requests[r] IN
       /\ rows' = [rows EXCEPT ![OrderOf[f.dispute]].state = IF f.to = "refunded" THEN "Refunded" ELSE "Released"]
       /\ Goes(r, IF <<disputes[f.dispute], f.to>> \in AllowedTransitions THEN [f EXCEPT !.at = "write"] ELSE Idle)
    /\ UNCHANGED <<orgs, disputes, paid, chain, notes>>

(***************************************************************************)
(* The escrows' life: the buyer's wallet funds an order, again if asked    *)
(* again, for a seed merchant; buyer or merchant dispute, it is released   *)
(* or refunded; the buyer reports the number and a release to the bridge.  *)
(***************************************************************************)
Terms == [orderId |-> 0, amount |-> 300, quoteHash |-> [i \in 1..32 |-> 3],
          pickupCodeHash |-> [i \in 1..32 |-> 4], releaseDeadline |-> 70000]
NextOrderId == Len(escrows) + 1

FundFromWeb(x) ==
    /\ Len(escrows) < MaxEscrows
    /\ OrgOf[x] \in DOMAIN SeedId /\ "order_escrow" \in programs
    /\ \E d \in Arriving(OrderEscrowIdl, "order_escrow",
                         Fund(Wallet(Buyer), SeedId[OrgOf[x]], NextOrderId, Terms), Wallet(Buyer)) :
          /\ d.args.order_id = NextOrderId
          /\ escrows' = Append(escrows, [order |-> x, state |-> "Funded", merchantId |-> SeedId[OrgOf[x]],
                                         paidTo |-> NoOne])
    /\ UNCHANGED <<programs, listed, wallets, db, requests, notes>>

DisputeOnChain(e) ==
    /\ escrows[e].state = "Funded"
    /\ escrows' = [escrows EXCEPT ![e].state = "Disputed"]
    /\ UNCHANGED <<programs, listed, wallets, db, requests, notes>>

SettleWithoutDesk(e) ==
    /\ \/ /\ escrows[e].state \in {"Funded", "Disputed"}
          /\ Settled(e, "Released", wallets[escrows[e].merchantId])
       \/ /\ escrows[e].state = "Funded"
          /\ Settled(e, "Refunded", Wallet(Buyer))
    /\ UNCHANGED <<programs, listed, wallets, db, requests, notes>>

(* The bridge reads the order and its row, fetches the escrow and compares *)
(* the two: what it fetched may have changed by the time it is written.    *)
Verify(e, state) ==
    /\ escrows[e].state = state
    /\ reports' = reports \union {[escrow |-> e, state |-> state]}
    /\ UNCHANGED <<db, chain, requests, missing, overwritten, settledOn>>

VerifyFunding(e)     == escrows[e].order \notin paid /\ Verify(e, "Funded")
VerifyUserRelease(e) == escrows[e].order \in paid /\ rows[escrows[e].order].escrow = e /\ Verify(e, "Released")

WriteReport(m) ==
    /\ rows' = IF m.state = "Funded" THEN [rows EXCEPT ![escrows[m.escrow].order] = [state |-> "Funded", escrow |-> m.escrow]]
               ELSE [rows EXCEPT ![escrows[m.escrow].order].state = "Released"]
    /\ UNCHANGED <<orgs, disputes, paid, chain, requests, notes>>

(* The order's own state is written after the row.                         *)
MarkPaid(x) ==
    /\ rows[x].escrow # 0
    /\ paid' = paid \union {x}
    /\ UNCHANGED <<orgs, disputes, rows, chain, requests, notes>>

Programs == {"merchant_directory", "order_escrow", "order_receipt"}

Next ==
    \/ \E p \in Programs : EnsureInitialized(p)
    \/ \E i \in DOMAIN SeedWallet : EnsureMerchantListed(i) \/ LookForWallet(i) \/ SetSeedWallet(i)
    \/ \E o \in Orgs : CreateMerchantOrg(o)
    \/ \E r \in Requests, o \in Orgs : Publish(r, o)
    \/ \E r \in Requests :
          \/ ReadNextId(r) \/ SendListing(r) \/ SendWallet(r) \/ PublishMerchantOrg(r)
          \/ ReadOrg(r) \/ ReadWallet(r) \/ SendResolve(r) \/ WriteRow(r) \/ WriteStatus(r) \/ Fail(r)
    \/ \E d \in Disputes : CreateDispute(d)
    \/ \E r \in Requests, d \in Disputes :
          \/ \E to \in {"reviewing", "closed"} : SetDisputeStatus(r, d, to)
          \/ \E to \in {"refunded", "released"} : ResolveDispute(r, d, to)
    \/ \E x \in Orders : FundFromWeb(x) \/ MarkPaid(x)
    \/ \E e \in DOMAIN escrows :
          DisputeOnChain(e) \/ SettleWithoutDesk(e) \/ VerifyFunding(e) \/ VerifyUserRelease(e)
    \/ \E m \in reports : WriteReport(m)

Spec == Init /\ [][Next]_vars

(***************************************************************************)
(* Properties.                                                             *)
(***************************************************************************)
EscrowIds == 1..MaxEscrows

TypeOK ==
    /\ orgs \in [Orgs -> [exists : BOOLEAN, chainId : 0..MaxListings]]
    /\ disputes \in [Disputes -> {"none", "open", "reviewing", "refunded", "released", "closed"}]
    /\ rows \in [Orders -> [state : {"none", "Funded", "Released", "Refunded"}, escrow : 0..MaxEscrows]]
    /\ paid \subseteq Orders
    /\ reports \subseteq [escrow : EscrowIds, state : {"Funded", "Released"}]
    /\ missing \subseteq DOMAIN SeedWallet /\ overwritten \subseteq DOMAIN SeedWallet
    /\ settledOn \in [Disputes -> 0..MaxEscrows]
    /\ Len(listed) <= MaxListings /\ DOMAIN wallets \subseteq DOMAIN listed
    /\ programs \subseteq Programs
    /\ DOMAIN escrows \subseteq EscrowIds
    /\ \A e \in DOMAIN escrows : escrows[e].order \in Orders /\ escrows[e].state \in Range(OrderStates)

\* However publications overlap each other and the bootstrap script, fail halfway or are repeated, the chain id
\* an organization carries is its own alone and the directory lists the organization's payout wallet under it.
\* The escrow program pays that wallet; it pays the seed's instead where the script, which found no wallet
\* under the number, set it over the one that had come meanwhile, and in no other case
\* (merchantRoutes.ts, publish; init-devnet.ts:212-223).
RegistryIsSound ==
    /\ TypeOK
    /\ \A o \in Orgs :
          LET id == orgs[o].chainId IN
          id # 0 => /\ id \in DOMAIN listed /\ listed[id] = Wallet(Payout[o])
                    /\ id \in DOMAIN wallets
                    /\ \/ wallets[id] = Wallet(Payout[o])
                       \/ id \in overwritten /\ wallets[id] = Wallet(SeedWallet[id])
                    /\ \A other \in Orgs \ {o} : orgs[other].chainId # id

\* Whom a released escrow may have paid: the wallet listed under its merchant's number or the seed's, its
\* organization's payout wallet, or a seed's that the script set over another.
Payees(e) ==
    {listed[escrows[e].merchantId], Wallet(SeedWallet[escrows[e].merchantId]),
     Wallet(Payout[OrgOf[escrows[e].order]])}
      \union {Wallet(SeedWallet[i]) : i \in overwritten}

\* A dispute the operator settled is settled on chain the same way, whatever races with the request or cuts
\* it short: on an escrow of its own order, which settles no other dispute, and the money went where the status
\* says.  The order's row is linked to an escrow of the order and claims no settlement that none of them had
\* (merchantRoutes.ts, resolve; disputes.ts; orchestrator.ts:829-901).
DisputesFollowChain ==
    /\ \A e \in DOMAIN escrows :
          /\ escrows[e].state = "Refunded" => escrows[e].paidTo = Wallet(Buyer)
          /\ escrows[e].state = "Released" => escrows[e].paidTo \in Payees(e)
    /\ \A x \in Orders :
          /\ rows[x].escrow # 0 => rows[x].escrow \in DOMAIN escrows /\ escrows[rows[x].escrow].order = x
          /\ rows[x].state \in {"Released", "Refunded"} =>
                \E e \in DOMAIN escrows : escrows[e].order = x /\ escrows[e].state = rows[x].state
    /\ \A d \in Disputes : disputes[d] \in {"released", "refunded"} =>
          LET e == settledOn[d] IN
          /\ e \in DOMAIN escrows /\ escrows[e].order = OrderOf[d]
          /\ escrows[e].state = IF disputes[d] = "released" THEN "Released" ELSE "Refunded"
          /\ \A other \in Disputes \ {d} : disputes[other] \in {"released", "refunded"} => settledOn[other] # e

(* What each client would send for escrow id of merchant number m, whose   *)
(* wallet is shop; to which program, who signs it; and what it is to mean. *)
Code == <<49, 50, 51>>
Receipt == [receiptId |-> 5, taskRef |-> Code, totalResearchMicroUsdc |-> 6, totalMainMicroUsdc |-> 70000,
            completedItems |-> 1, totalItems |-> 2, metadataUri |-> Code, metadataHash |-> [i \in 1..32 |-> 8]]

ClientCalls(id, m, shop) ==
    LET order == [order_id |-> id, merchant_id |-> m, buyer |-> Wallet(Buyer), amount |-> Terms.amount,
                  quote_hash |-> Terms.quoteHash, pickup_code_hash |-> Terms.pickupCodeHash, funded_at |-> 60000,
                  release_deadline |-> Terms.releaseDeadline, state |-> 0, bump |-> 254]
        Call(sent, signer, name, args, accounts) ==
            [sent |-> sent, program |-> "order_escrow", signer |-> signer, name |-> name, args |-> args,
             accounts |-> accounts]
        release == [order |-> OrderPda(id), vault |-> VaultPda(id), merchant_wallet |-> MerchantWalletPda(m),
                    merchant_token_account |-> AssociatedToken(shop)]
    IN  {Call(Fund(Wallet(Buyer), m, id, Terms), Wallet(Buyer), "fund",
              [order_id |-> id, amount |-> Terms.amount, quote_hash |-> Terms.quoteHash,
               pickup_code_hash |-> Terms.pickupCodeHash, release_deadline |-> Terms.releaseDeadline],
              [order |-> OrderPda(id), vault |-> VaultPda(id), merchant_wallet |-> MerchantWalletPda(m),
               usdc_mint |-> Wallet(Mint), buyer_token_account |-> AssociatedToken(Wallet(Buyer))]),
         Call(Refund(Wallet(Relayer), order), Wallet(Relayer), "refund", [order_id |-> id],
              [order |-> OrderPda(id), vault |-> VaultPda(id), buyer |-> Wallet(Buyer),
               buyer_token_account |-> AssociatedToken(Wallet(Buyer))]),
         Call(UserRelease(Wallet(Buyer), order, shop), Wallet(Buyer), "user_release", [order_id |-> id], release),
         Call(WebRelease(Wallet(Buyer), order, m, shop), Wallet(Buyer), "user_release", [order_id |-> id], release),
         Call(MarkPreparing(shop, order), shop, "mark_preparing", [order_id |-> id], [order |-> OrderPda(id)]),
         Call(MarkReady(shop, order), shop, "mark_ready", [order_id |-> id], [order |-> OrderPda(id)]),
         Call(ConfirmPickup(shop, order, Code), shop, "confirm_pickup", [order_id |-> id, code |-> Code],
              [order |-> OrderPda(id), vault |-> VaultPda(id), merchant_wallet |-> MerchantWalletPda(m),
               merchant_token_account |-> AssociatedToken(shop), buyer |-> Wallet(Buyer)]),
         [sent |-> BuildCreateReceiptInstruction([relayer |-> Wallet(Relayer), receiptConfig |-> ReceiptConfigPda,
                                                  receipt |-> ReceiptPda(5)], Receipt),
          program |-> "order_receipt", signer |-> Wallet(Relayer), name |-> "create_receipt",
          args |-> [receipt_id |-> 5, task_ref |-> Code, total_research_micro_usdc |-> 6,
                    total_main_micro_usdc |-> 70000, completed_items |-> 1, total_items |-> 2,
                    metadata_uri |-> Code, metadata_hash |-> Receipt.metadataHash],
          accounts |-> [receipt |-> ReceiptPda(5)]]}

Arrives(call, m) ==
    \E ix \in call.sent : \E d \in Delivered(IdlOf(call.program), call.program, ix, call.signer, {m}) :
        /\ d.name = call.name /\ d.args = call.args
        /\ \A a \in DOMAIN call.accounts : d.accounts[a] = call.accounts[a]

(* The escrows all of whose calls arrive: no state matters, so TLC works   *)
(* this out once.                                                          *)
Served ==
    UNION {IF \A call \in ClientCalls(id, m, Wallet(n)) : Arrives(call, m) THEN {<<id, m, Wallet(n)>>} ELSE {} :
             id \in EscrowIds, m \in 1..MaxListings,
             n \in Range(SeedWallet) \union {Payout[o] : o \in Orgs}}

\* Every call a client makes about an escrow, or the wrapper makes about a receipt, reaches the program as it
\* was meant: the same arguments after encoding by name and decoding by position, and the accounts the program
\* derives for that order, that merchant and that buyer (idlCodec.ts, instructions.ts, pdas.ts, chain.ts,
\* chainClient.ts, FundingWizard.tsx).  The bridge's own receipt call is not sent at all.
CallsArrive ==
    \A e \in DOMAIN escrows :
       /\ <<e, escrows[e].merchantId, wallets[escrows[e].merchantId]>> \in Served
       /\ CreateReceipt(e, Receipt) = {}
=============================================================================
