---------------------------- MODULE ProgramIdls ----------------------------
(***************************************************************************)
(* The interfaces of the three Solana programs, as their IDLs state them:  *)
(* for every instruction its accounts, in order, with what each must be    *)
(* (writable, a signer, a fixed program, the address derived from given    *)
(* seeds), and its arguments, in order, with their types; and the layout   *)
(* of the accounts the clients read.  Anchor generates the IDL from the    *)
(* programs' account structs and handlers, so the same tables say what the *)
(* clients send and what the programs expect.  An IDL comes in two forms   *)
(* with one content: the JSON the codec loads, with the names used here,   *)
(* and solana/idl/types/*.ts, the same entries with names in camel case.   *)
(***************************************************************************)
EXTENDS Sequences

(* The seeds of a derived address: a constant prefix, then nothing, the    *)
(* u64 argument called path, or the field path of the account itself.      *)
Prefix(p)       == [prefix |-> p, by |-> "nothing", path |-> ""]
ByArg(p, path)  == [prefix |-> p, by |-> "arg", path |-> path]
ByOwn(p, path)  == [prefix |-> p, by |-> "account", path |-> path]
AnyAddress      == [prefix |-> "", by |-> "caller", path |-> ""]
ProgramAt(p)    == [prefix |-> p, by |-> "fixed", path |-> ""]

Account(name, flags, at) ==
    [name |-> name, writable |-> "writable" \in flags, signer |-> "signer" \in flags, at |-> at]

Signs(name)      == Account(name, {"signer"}, AnyAddress)
Pays(name)       == Account(name, {"signer", "writable"}, AnyAddress)
Writes(name)     == Account(name, {"writable"}, AnyAddress)
Reads(name)      == Account(name, {}, AnyAddress)
TokenProgram     == Account("token_program", {}, ProgramAt("token"))
SystemProgram    == Account("system_program", {}, ProgramAt("system"))

Instruction(name, accounts, args) == [name |-> name, accounts |-> accounts, args |-> args]

(***************************************************************************)
(* order_escrow                                                            *)
(***************************************************************************)
EscrowConfigAt(flags) == Account("escrow_config", flags, Prefix("escrow_config"))
MerchantWalletRead    == Account("merchant_wallet", {}, ByOwn("merchant_wallet", "merchant_id"))
OrderWritten          == Account("order", {"writable"}, ByArg("order", "order_id"))
VaultWritten          == Account("vault", {"writable"}, ByArg("vault", "order_id"))
OrderIdOnly           == <<<<"order_id", "u64">>>>

ConfirmPickupIx ==
    Instruction("confirm_pickup",
        <<Signs("merchant"), MerchantWalletRead, OrderWritten, VaultWritten,
          Writes("merchant_token_account"), Writes("buyer"), TokenProgram>>,
        <<<<"order_id", "u64">>, <<"code", "string">>>>)

DisputeIx == Instruction("dispute", <<Signs("caller"), OrderWritten, MerchantWalletRead>>, OrderIdOnly)

FundIx ==
    Instruction("fund",
        <<Pays("buyer"), EscrowConfigAt({"writable"}), MerchantWalletRead, OrderWritten, Reads("usdc_mint"),
          VaultWritten, Writes("buyer_token_account"), TokenProgram, SystemProgram>>,
        <<<<"order_id", "u64">>, <<"amount", "u64">>, <<"quote_hash", "bytes32">>,
          <<"pickup_code_hash", "bytes32">>, <<"release_deadline", "i64">>>>)

InitializeEscrowIx ==
    Instruction("initialize", <<Pays("authority"), EscrowConfigAt({"writable"}), SystemProgram>>,
        <<<<"arbiter", "pubkey">>, <<"usdc_mint", "pubkey">>>>)

MarkPreparingIx == Instruction("mark_preparing", <<Signs("merchant"), MerchantWalletRead, OrderWritten>>, OrderIdOnly)

MarkReadyIx == Instruction("mark_ready", <<Signs("merchant"), MerchantWalletRead, OrderWritten>>, OrderIdOnly)

RefundIx ==
    Instruction("refund",
        <<Signs("caller"), OrderWritten, VaultWritten, Writes("buyer_token_account"), Writes("buyer"),
          TokenProgram>>, OrderIdOnly)

ResolveIx ==
    Instruction("resolve",
        <<Signs("arbiter"), EscrowConfigAt({}), OrderWritten, VaultWritten, Writes("buyer_token_account"),
          MerchantWalletRead, Writes("merchant_token_account"), Writes("buyer"), TokenProgram>>,
        <<<<"order_id", "u64">>, <<"release_to_merchant", "bool">>>>)

SetMerchantWalletIx ==
    Instruction("set_merchant_wallet",
        <<Pays("authority"), EscrowConfigAt({}),
          Account("merchant_wallet", {"writable"}, ByArg("merchant_wallet", "merchant_id")), SystemProgram>>,
        <<<<"merchant_id", "u64">>, <<"wallet", "pubkey">>>>)

SetUsdcMintIx ==
    Instruction("set_usdc_mint", <<Signs("authority"), EscrowConfigAt({"writable"}), Reads("usdc_mint")>>, <<>>)

UserReleaseIx ==
    Instruction("user_release",
        <<Signs("buyer"), OrderWritten, VaultWritten, MerchantWalletRead, Writes("merchant_token_account"),
          TokenProgram>>, OrderIdOnly)

EscrowConfigFields ==
    <<<<"authority", "pubkey">>, <<"arbiter", "pubkey">>, <<"usdc_mint", "pubkey">>,
      <<"next_order_id", "u64">>, <<"bump", "u8">>>>
MerchantWalletFields == <<<<"merchant_id", "u64">>, <<"wallet", "pubkey">>, <<"bump", "u8">>>>
OrderFields ==
    <<<<"order_id", "u64">>, <<"merchant_id", "u64">>, <<"buyer", "pubkey">>, <<"amount", "u64">>,
      <<"quote_hash", "bytes32">>, <<"pickup_code_hash", "bytes32">>, <<"funded_at", "i64">>,
      <<"release_deadline", "i64">>, <<"state", "enum">>, <<"bump", "u8">>>>
(* The index of a state is the byte that stands for it.                    *)
OrderStates == <<"Funded", "Preparing", "Ready", "Released", "Refunded", "Disputed">>

OrderEscrowIdl ==
    [instructions |-> {ConfirmPickupIx, DisputeIx, FundIx, InitializeEscrowIx, MarkPreparingIx, MarkReadyIx,
                       RefundIx, ResolveIx, SetMerchantWalletIx, SetUsdcMintIx, UserReleaseIx},
     types        |-> {<<"EscrowConfig", EscrowConfigFields>>, <<"MerchantWallet", MerchantWalletFields>>,
                       <<"Order", OrderFields>>}]

(***************************************************************************)
(* order_receipt                                                           *)
(***************************************************************************)
ReceiptConfigAt(flags) == Account("receipt_config", flags, Prefix("receipt_config"))
ReceiptAt(flags)       == Account("receipt", flags, ByArg("receipt", "receipt_id"))

CreateReceiptIx ==
    Instruction("create_receipt",
        <<Pays("relayer"), ReceiptConfigAt({"writable"}), ReceiptAt({"writable"}), SystemProgram>>,
        <<<<"receipt_id", "u64">>, <<"task_ref", "string">>, <<"total_research_micro_usdc", "u64">>,
          <<"total_main_micro_usdc", "u64">>, <<"completed_items", "u64">>, <<"total_items", "u64">>,
          <<"metadata_uri", "string">>, <<"metadata_hash", "bytes32">>>>)

InitializeReceiptIx ==
    Instruction("initialize", <<Pays("authority"), ReceiptConfigAt({"writable"}), SystemProgram>>,
        <<<<"relayer", "pubkey">>>>)

RecordRefundIx ==
    Instruction("record_refund", <<Signs("relayer"), ReceiptConfigAt({}), ReceiptAt({})>>,
        <<<<"receipt_id", "u64">>, <<"refunded_micro_usdc", "u64">>>>)

ReceiptConfigFields ==
    <<<<"authority", "pubkey">>, <<"relayer", "pubkey">>, <<"next_receipt_id", "u64">>, <<"bump", "u8">>>>
ReceiptFields == CreateReceiptIx.args \o <<<<"bump", "u8">>>>

OrderReceiptIdl ==
    [instructions |-> {CreateReceiptIx, InitializeReceiptIx, RecordRefundIx},
     types        |-> {<<"Receipt", ReceiptFields>>, <<"ReceiptConfig", ReceiptConfigFields>>}]

(***************************************************************************)
(* merchant_directory                                                      *)
(***************************************************************************)
DirectoryStateAt(flags) == Account("directory_state", flags, Prefix("directory_state"))
MerchantWritten         == Account("merchant", {"writable"}, ByArg("merchant", "merchant_id"))

InitializeDirectoryIx ==
    Instruction("initialize", <<Pays("authority"), DirectoryStateAt({"writable"}), SystemProgram>>, <<>>)

ListMerchantIx ==
    Instruction("list_merchant",
        <<Pays("authority"), DirectoryStateAt({"writable"}), MerchantWritten, SystemProgram>>,
        <<<<"merchant_id", "u64">>, <<"agent_id", "u64">>, <<"name", "string">>, <<"category", "string">>,
          <<"endpoint_uri", "string">>, <<"wallet", "pubkey">>, <<"geo_hash", "bytes32">>,
          <<"attestation_uid", "bytes32">>>>)

SetActiveIx ==
    Instruction("set_active", <<Signs("authority"), DirectoryStateAt({}), MerchantWritten>>,
        <<<<"merchant_id", "u64">>, <<"active", "bool">>>>)

DirectoryStateFields == <<<<"authority", "pubkey">>, <<"next_merchant_id", "u64">>, <<"bump", "u8">>>>
MerchantFields ==
    SubSeq(ListMerchantIx.args, 1, 7) \o
    <<<<"active", "bool">>, <<"attestation_uid", "bytes32">>, <<"bump", "u8">>>>

MerchantDirectoryIdl ==
    [instructions |-> {InitializeDirectoryIx, ListMerchantIx, SetActiveIx},
     types        |-> {<<"DirectoryState", DirectoryStateFields>>, <<"Merchant", MerchantFields>>}]
=============================================================================
