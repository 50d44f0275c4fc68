----------------------------- MODULE IdlCodec ------------------------------
(***************************************************************************)
(* The IDL-driven codec every client of the programs goes through, and     *)
(* what a program makes of the instruction it receives.  Bytes are         *)
(* numbers below 256; an instruction or an account that the codec refuses  *)
(* (it throws) is the empty set, one that it builds a set of one.          *)
(*                                                                         *)
(* Abstractions.  A key of 32 bytes is one number, repeated; the address   *)
(* derived from a program and seeds is the tuple of both, as the hash has  *)
(* no collisions to speak of; a discriminator of eight bytes is the name   *)
(* it was made from.  TLC's integers end below 2^31, so the upper bytes of *)
(* a u64 or an i64 are zero and no integer is too large for its type;      *)
(* negative times do not occur.                                            *)
(***************************************************************************)
EXTENDS ProgramIdls, Integers, Functions, TLC

Wallet(n)                    == <<"wallet", n>>
Derived(program, prefix, id) == <<program, prefix, id>>
FixedProgram(p)              == <<"program", p>>
TokenAccount(owner, mint)    == <<"ata", owner, mint>>

(* borsh writes integers with the lowest byte first.                       *)
PlaceValue             == <<1, 256, 65536, 16777216>>
LittleEndian(n, width) == [i \in 1..width |-> IF i > 4 THEN 0 ELSE (n \div PlaceValue[i]) % 256]
FromBytes(bytes)       == bytes[1] + 256 * bytes[2] + 65536 * bytes[3] + 16777216 * bytes[4]

Encodable(type, v) == type \in {"u64", "u8", "enum"} => v >= 0

(* A byte array is cut or filled with zeros to its length, without a word. *)
EncoderForType(type, v) ==
    CASE type \in {"u64", "i64"}  -> LittleEndian(v, 8)
      [] type \in {"u8", "enum"}  -> <<v % 256>>
      [] type = "bool"            -> <<IF v THEN 1 ELSE 0>>
      [] type = "string"          -> LittleEndian(Len(v), 4) \o v
      [] type = "pubkey"          -> [i \in 1..32 |-> v[2]]
      [] type = "bytes32"         -> [i \in 1..32 |-> IF i \in DOMAIN v THEN v[i] ELSE 0]

WidthAt(type, bytes) ==
    CASE type \in {"u64", "i64"}         -> 8
      [] type \in {"u8", "enum", "bool"} -> 1
      [] type = "string"                 -> IF Len(bytes) < 4 THEN 4 ELSE 4 + FromBytes(bytes)
      [] type \in {"pubkey", "bytes32"}  -> 32

DecoderForType(type, bytes) ==
    CASE type \in {"u64", "i64"}  -> FromBytes(bytes)
      [] type \in {"u8", "enum"}  -> bytes[1]
      [] type = "bool"            -> bytes[1] = 1
      [] type = "string"          -> SubSeq(bytes, 5, Len(bytes))
      [] type = "pubkey"          -> Wallet(bytes[1])
      [] type = "bytes32"         -> bytes

(* A structure: its fields one after another, in the order of the IDL.     *)
EncodeStruct(fields, values) ==
    LET upTo[k \in 0..Len(fields)] ==
          IF k = 0 THEN <<>> ELSE upTo[k - 1] \o EncoderForType(fields[k][2], values[fields[k][1]])
    IN  upTo[Len(fields)]

With(f, x, v) == [y \in DOMAIN f \cup {x} |-> IF y = x THEN v ELSE f[y]]

(* Nothing when the bytes run out; bytes left over are not looked at.      *)
Read(field, got) ==
    LET width == WidthAt(field[2], got.rest)
    IN  IF got.ok /\ width <= Len(got.rest)
        THEN [ok |-> TRUE, rest |-> SubSeq(got.rest, width + 1, Len(got.rest)),
              values |-> With(got.values, field[1], DecoderForType(field[2], SubSeq(got.rest, 1, width)))]
        ELSE [got EXCEPT !.ok = FALSE]

DecodeStruct(fields, bytes) ==
    LET after[k \in 0..Len(fields)] ==
          IF k = 0 THEN [ok |-> TRUE, rest |-> bytes, values |-> <<>>] ELSE Read(fields[k], after[k - 1])
    IN  IF after[Len(fields)].ok THEN {after[Len(fields)].values} ELSE {}

(* An account as the program stores it and as a client reads it: nothing   *)
(* when the IDL given does not know the type, or the account is another.   *)
Stored(fields, type, values) == [discriminator |-> type, bytes |-> EncodeStruct(fields, values)]

DecodeAccountData(idl, type, data) ==
    UNION {DecodeStruct(t[2], data.bytes) : t \in {x \in idl.types : x[1] = type /\ data.discriminator = type}}

RoleOf(account) ==
    IF account.writable THEN IF account.signer THEN "WRITABLE_SIGNER" ELSE "WRITABLE"
                        ELSE IF account.signer THEN "READONLY_SIGNER" ELSE "READONLY"

Given(account, accounts) == account.at.by = "fixed" \/ account.name \in DOMAIN accounts
AddressOf(account, accounts) ==
    IF account.at.by = "fixed" THEN FixedProgram(account.at.prefix) ELSE accounts[account.name]

(* The arguments are found by name and written in the order of the IDL.    *)
EncodeInstructionData(ix, args) == EncodeStruct(ix.args, args)

(* Positional accounts from named ones: all named ones must be there.      *)
BuildInstruction(idl, program, name, accounts, args) ==
    {[program |-> program,
      accounts |-> [i \in DOMAIN ix.accounts |->
                       [address |-> AddressOf(ix.accounts[i], accounts), role |-> RoleOf(ix.accounts[i])]],
      data |-> [discriminator |-> ix.name, bytes |-> EncodeInstructionData(ix, args)]] :
     ix \in {x \in idl.instructions :
               /\ x.name = name
               /\ \A i \in DOMAIN x.accounts : Given(x.accounts[i], accounts)
               /\ \A i \in DOMAIN x.args :
                     x.args[i][1] \in DOMAIN args /\ Encodable(x.args[i][2], args[x.args[i][1]])}}

(* A wallet of the older library gets two flags for the role.              *)
ToWeb3JsInstruction(ix) ==
    [ix EXCEPT !.accounts = [i \in DOMAIN ix.accounts |->
        [pubkey     |-> ix.accounts[i].address,
         isSigner   |-> ix.accounts[i].role \in {"READONLY_SIGNER", "WRITABLE_SIGNER"},
         isWritable |-> ix.accounts[i].role \in {"WRITABLE", "WRITABLE_SIGNER"}]]]

(***************************************************************************)
(* The program's side: the arguments decoded, the accounts taken by        *)
(* position and held to what the account structs demand of them.  Own are  *)
(* the merchant ids under which a MerchantWallet account exists, the only  *)
(* type whose seeds name a field of its own.                               *)
(***************************************************************************)
Meets(program, account, key, args, own) ==
    /\ account.signer   => key.isSigner
    /\ account.writable => key.isWritable
    /\ LET at == account.at IN
       CASE at.by = "nothing" -> key.pubkey = Derived(program, at.prefix, <<>>)
         [] at.by = "arg"     -> key.pubkey = Derived(program, at.prefix, LittleEndian(args[at.path], 8))
         [] at.by = "account" -> \E id \in own : key.pubkey = Derived(program, at.prefix, LittleEndian(id, 8))
         [] at.by = "fixed"   -> key.pubkey = FixedProgram(at.prefix)
         [] at.by = "caller"  -> TRUE

Delivered(idl, program, sent, payer, own) ==
    LET tx == ToWeb3JsInstruction(sent) IN
    UNION {{[name |-> ix.name, args |-> args,
             accounts |-> [n \in {ix.accounts[i].name : i \in DOMAIN ix.accounts} |->
                              tx.accounts[CHOOSE i \in DOMAIN ix.accounts : ix.accounts[i].name = n].pubkey]] :
            args \in {a \in DecodeStruct(ix.args, tx.data.bytes) :
                        \A i \in DOMAIN ix.accounts : Meets(program, ix.accounts[i], tx.accounts[i], a, own)}} :
           ix \in {x \in idl.instructions :
                     /\ sent.program = program
                     /\ x.name = tx.data.discriminator
                     /\ Len(tx.accounts) >= Len(x.accounts)
                     /\ \A i \in DOMAIN tx.accounts : tx.accounts[i].isSigner => tx.accounts[i].pubkey = payer}}
=============================================================================
