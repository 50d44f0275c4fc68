---------------------------- MODULE ChainCalls -----------------------------
(***************************************************************************)
(* The calls the applications make to the programs: the derived addresses, *)
(* the wrappers of the shared package, and the providers of the bridge,    *)
(* the merchant agents and the web wallet that fill them in from the chain *)
(* accounts they read.  Each is the set of instructions it would send: one *)
(* or, when the code throws before sending, none.                          *)
(***************************************************************************)
EXTENDS IdlCodec

CONSTANTS
    Mint,       \* the wallet number that stands for the USDC mint
    Relayer     \* the wallet number of the relayer: authority, arbiter and relayer of the programs

(* Derived addresses; ids are u64, lowest byte first.                      *)
DirectoryStatePda   == Derived("merchant_directory", "directory_state", <<>>)
MerchantPda(id)     == Derived("merchant_directory", "merchant", LittleEndian(id, 8))
EscrowConfigPda     == Derived("order_escrow", "escrow_config", <<>>)
MerchantWalletPda(id) == Derived("order_escrow", "merchant_wallet", LittleEndian(id, 8))
OrderPda(id)        == Derived("order_escrow", "order", LittleEndian(id, 8))
VaultPda(id)        == Derived("order_escrow", "vault", LittleEndian(id, 8))
ReceiptConfigPda    == Derived("order_receipt", "receipt_config", <<>>)
ReceiptPda(id)      == Derived("order_receipt", "receipt", LittleEndian(id, 8))
AssociatedToken(owner) == TokenAccount(owner, Wallet(Mint))

(* The wrappers of the shared package.                                     *)
BuildFundInstruction(a, x) ==
    BuildInstruction(OrderEscrowIdl, "order_escrow", "fund",
        [buyer |-> a.buyer, escrow_config |-> a.escrowConfig, merchant_wallet |-> a.merchantWallet,
         order |-> a.order, usdc_mint |-> a.usdcMint, vault |-> a.vault,
         buyer_token_account |-> a.buyerTokenAccount],
        [order_id |-> x.orderId, amount |-> x.amount, quote_hash |-> x.quoteHash,
         pickup_code_hash |-> x.pickupCodeHash, release_deadline |-> x.releaseDeadline])

MerchantOrderAccounts(a) == [merchant |-> a.merchant, merchant_wallet |-> a.merchantWallet, order |-> a.order]
BuildMarkPreparingInstruction(a, id) ==
    BuildInstruction(OrderEscrowIdl, "order_escrow", "mark_preparing", MerchantOrderAccounts(a), [order_id |-> id])
BuildMarkReadyInstruction(a, id) ==
    BuildInstruction(OrderEscrowIdl, "order_escrow", "mark_ready", MerchantOrderAccounts(a), [order_id |-> id])

BuildConfirmPickupInstruction(a, id, code) ==
    BuildInstruction(OrderEscrowIdl, "order_escrow", "confirm_pickup",
        [merchant |-> a.merchant, merchant_wallet |-> a.merchantWallet, order |-> a.order, vault |-> a.vault,
         merchant_token_account |-> a.merchantTokenAccount, buyer |-> a.buyer],
        [order_id |-> id, code |-> code])

BuildRefundInstruction(a, id) ==
    BuildInstruction(OrderEscrowIdl, "order_escrow", "refund",
        [caller |-> a.caller, order |-> a.order, vault |-> a.vault,
         buyer_token_account |-> a.buyerTokenAccount, buyer |-> a.buyer],
        [order_id |-> id])

BuildUserReleaseInstruction(a, id) ==
    BuildInstruction(OrderEscrowIdl, "order_escrow", "user_release",
        [buyer |-> a.buyer, order |-> a.order, vault |-> a.vault, merchant_wallet |-> a.merchantWallet,
         merchant_token_account |-> a.merchantTokenAccount],
        [order_id |-> id])

BuildCreateReceiptInstruction(a, x) ==
    BuildInstruction(OrderReceiptIdl, "order_receipt", "create_receipt",
        [relayer |-> a.relayer, receipt_config |-> a.receiptConfig, receipt |-> a.receipt],
        [receipt_id |-> x.receiptId, task_ref |-> x.taskRef,
         total_research_micro_usdc |-> x.totalResearchMicroUsdc, total_main_micro_usdc |-> x.totalMainMicroUsdc,
         completed_items |-> x.completedItems, total_items |-> x.totalItems,
         metadata_uri |-> x.metadataUri, metadata_hash |-> x.metadataHash])

(* The accounts the clients read before they call.                         *)
ReadOrder(order) ==
    DecodeAccountData(OrderEscrowIdl, "Order", Stored(OrderFields, "Order", order))
ReadConfig(next) ==
    DecodeAccountData(OrderEscrowIdl, "EscrowConfig", Stored(EscrowConfigFields, "EscrowConfig",
        [authority |-> Wallet(Relayer), arbiter |-> Wallet(Relayer), usdc_mint |-> Wallet(Mint),
         next_order_id |-> next, bump |-> 255]))
ReadMerchantWallet(id, wallet) ==
    DecodeAccountData(OrderEscrowIdl, "MerchantWallet", Stored(MerchantWalletFields, "MerchantWallet",
        [merchant_id |-> id, wallet |-> wallet, bump |-> 255]))

(* The call of fund, by the relayer in the bridge's provider and by the    *)
(* user's wallet in the web client, which knows the seed merchants only.   *)
Fund(buyer, merchantId, next, terms) ==
    UNION {BuildFundInstruction(
               [buyer |-> buyer, escrowConfig |-> EscrowConfigPda, merchantWallet |-> MerchantWalletPda(merchantId),
                order |-> OrderPda(config.next_order_id), usdcMint |-> Wallet(Mint),
                vault |-> VaultPda(config.next_order_id), buyerTokenAccount |-> AssociatedToken(buyer)],
               [terms EXCEPT !.orderId = config.next_order_id]) :
           config \in ReadConfig(next)}

\* Mutant of Refund: the tokens go to whoever calls.
RefundToCaller(caller, order) ==
    UNION {BuildRefundInstruction(
               [caller |-> caller, order |-> OrderPda(order.order_id), vault |-> VaultPda(order.order_id),
                buyerTokenAccount |-> AssociatedToken(caller), buyer |-> found.buyer],
               order.order_id) : found \in ReadOrder(order)}

(* The bridge's provider, with the relayer's key.                          *)
Refund(caller, order) ==
    UNION {BuildRefundInstruction(
               [caller |-> caller, order |-> OrderPda(order.order_id), vault |-> VaultPda(order.order_id),
                buyerTokenAccount |-> AssociatedToken(found.buyer), buyer |-> found.buyer],
               order.order_id) : found \in ReadOrder(order)}

UserRelease(buyer, order, wallet) ==
    UNION {BuildUserReleaseInstruction(
               [buyer |-> buyer, order |-> OrderPda(order.order_id), vault |-> VaultPda(order.order_id),
                merchantWallet |-> MerchantWalletPda(found[1].merchant_id),
                merchantTokenAccount |-> AssociatedToken(found[2].wallet)],
               order.order_id) :
           found \in ReadOrder(order) \X ReadMerchantWallet(order.merchant_id, wallet)}

(* The web client's: the wallet is the one of the seed merchant's number.  *)
WebRelease(buyer, order, seedId, wallet) ==
    UNION {BuildUserReleaseInstruction(
               [buyer |-> buyer, order |-> OrderPda(order.order_id), vault |-> VaultPda(order.order_id),
                merchantWallet |-> MerchantWalletPda(seedId),
                merchantTokenAccount |-> AssociatedToken(found.wallet)],
               order.order_id) : found \in ReadMerchantWallet(seedId, wallet)}

(* The provider looks the receipt program's account up in the escrow       *)
(* program's IDL, which does not have it.                                  *)
CreateReceipt(next, p) ==
    UNION {BuildCreateReceiptInstruction(
               [relayer |-> Wallet(Relayer), receiptConfig |-> ReceiptConfigPda,
                receipt |-> ReceiptPda(config.next_receipt_id)],
               [p EXCEPT !.receiptId = config.next_receipt_id]) :
           config \in DecodeAccountData(OrderEscrowIdl, "ReceiptConfig",
               Stored(ReceiptConfigFields, "ReceiptConfig",
                   [authority |-> Wallet(Relayer), relayer |-> Wallet(Relayer), next_receipt_id |-> next,
                    bump |-> 255]))}

(* The merchant agents, with the merchant's own key.                       *)
LoadOrder(merchant, order) ==
    {[merchant |-> merchant, merchantWallet |-> MerchantWalletPda(found.merchant_id),
      order |-> OrderPda(order.order_id), buyer |-> found.buyer] : found \in ReadOrder(order)}
MarkPreparing(merchant, order) ==
    UNION {BuildMarkPreparingInstruction(a, order.order_id) : a \in LoadOrder(merchant, order)}
MarkReady(merchant, order) ==
    UNION {BuildMarkReadyInstruction(a, order.order_id) : a \in LoadOrder(merchant, order)}
ConfirmPickup(merchant, order, code) ==
    UNION {BuildConfirmPickupInstruction(
               [merchant |-> a.merchant, merchantWallet |-> a.merchantWallet, order |-> a.order, buyer |-> a.buyer,
                vault |-> VaultPda(order.order_id), merchantTokenAccount |-> AssociatedToken(merchant)],
               order.order_id, code) : a \in LoadOrder(merchant, order)}
=============================================================================
