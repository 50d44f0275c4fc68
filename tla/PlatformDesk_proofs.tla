------------------------ MODULE PlatformDesk_proofs ------------------------
(***************************************************************************)
(* Proofs about PlatformDesk and the client layer below it, for any        *)
(* organizations, orders, disputes and seeds and any number of requests:   *)
(* the codec of the programs' data and instructions; what arrives of each  *)
(* call that the platform API, the bridge, the merchants' service, the web *)
(* client and the bootstrap script send; and the invariant that keeps the  *)
(* registry, the disputes and the escrows in step.                         *)
(***************************************************************************)
EXTENDS PlatformDesk, SequenceTheorems, SumTheorems

(* Numbers. *)
Small == {n \in Nat : n <= 2147483647}

LEMMA Quotient ==
  ASSUME NEW n \in Nat, NEW m \in Nat \ {0}
  PROVE  n \div m \in Nat /\ n % m \in Nat
OBVIOUS

LEMMA Bytes ==
  ASSUME NEW n \in Small, NEW w \in {4, 8}
  PROVE  /\ LittleEndian(n, w) \in Seq(Nat)
         /\ Len(LittleEndian(n, w)) = w
         /\ FromBytes(LittleEndian(n, w)) = n
<1> DEFINE s == LittleEndian(n, w)
<1>1. s \in [1..w -> Nat]
  <2>1. \A i \in 1..4 : PlaceValue[i] \in Nat \ {0}
    BY DEF PlaceValue
  <2>2. \A i \in 1..4 : (n \div PlaceValue[i]) % 256 \in Nat
    <3> TAKE i \in 1..4
    <3>1. n \in Nat
      BY DEF Small
    <3>2. n \div PlaceValue[i] \in Nat
      BY <2>1, <3>1, Quotient
    <3> QED
      BY <3>2, Quotient
  <2> QED
    BY <2>2 DEF LittleEndian
<1>2. s[1] = n % 256 /\ s[2] = (n \div 256) % 256 /\ s[3] = (n \div 65536) % 256
      /\ s[4] = (n \div 16777216) % 256
  <2>1. n \div 1 = n
    BY DEF Small
  <2> QED
    BY <2>1 DEF LittleEndian, PlaceValue
<1>3. n = (n % 256) + 256 * ((n \div 256) % 256) + 65536 * ((n \div 65536) % 256)
              + 16777216 * ((n \div 16777216) % 256)
  BY DEF Small
<1>4. Len(s) = w /\ s \in Seq(Nat)
  BY <1>1
<1> QED
  BY <1>2, <1>3, <1>4 DEF FromBytes
-----------------------------------------------------------------------------
(* One field. *)
Types == {"u64", "i64", "u8", "enum", "bool", "string", "pubkey", "bytes32"}

WellTyped(type, v) ==
    /\ type \in Types
    /\ type \in {"u64", "i64"} => v \in Small
    /\ type \in {"u8", "enum"} => v \in 0..255
    /\ type = "bool"           => v \in BOOLEAN
    /\ type = "string"         => v \in Seq(Nat) /\ Len(v) \in Small
    /\ type = "pubkey"         => \E n \in Nat : v = Wallet(n)
    /\ type = "bytes32"        => v \in [1..32 -> Nat]

LEMMA OneField ==
  ASSUME NEW type, NEW v, WellTyped(type, v)
  PROVE  LET b == EncoderForType(type, v) IN
         /\ b \in Seq(Nat)
         /\ \A t \in Seq(Nat) : WidthAt(type, b \o t) = Len(b)
         /\ DecoderForType(type, b) = v
<1> DEFINE b == EncoderForType(type, v)
<1>1. CASE type \in {"u64", "i64"}
  <2>1. b = LittleEndian(v, 8) /\ v \in Small
    BY <1>1 DEF EncoderForType, WellTyped
  <2>2. b \in Seq(Nat) /\ Len(b) = 8 /\ FromBytes(b) = v
    BY <2>1, Bytes
  <2>3. DecoderForType(type, b) = FromBytes(b)
    BY <1>1 DEF DecoderForType
  <2>4. \A t : WidthAt(type, t) = 8
    BY <1>1 DEF WidthAt
  <2> HIDE DEF b
  <2> QED
    BY <2>2, <2>3, <2>4 DEF b
<1>2. CASE type \in {"u8", "enum"}
  <2>1. b = <<v % 256>> /\ v \in 0..255
    BY <1>2 DEF EncoderForType, WellTyped
  <2>2. v % 256 = v /\ v \in Nat
    BY <2>1
  <2>3. b = <<v>>
    BY <2>1, <2>2
  <2>4. DecoderForType(type, b) = b[1]
    BY <1>2 DEF DecoderForType
  <2>5. \A t : WidthAt(type, t) = 1
    BY <1>2 DEF WidthAt
  <2> HIDE DEF b
  <2> QED
    BY <2>2, <2>3, <2>4, <2>5 DEF b
<1>3. CASE type = "bool"
  <2>1. b = <<IF v THEN 1 ELSE 0>> /\ v \in BOOLEAN
    BY <1>3 DEF EncoderForType, WellTyped
  <2>2. DecoderForType(type, b) = (b[1] = 1)
    BY <1>3 DEF DecoderForType
  <2>3. \A t : WidthAt(type, t) = 1
    BY <1>3 DEF WidthAt
  <2>4. b \in Seq(Nat) /\ Len(b) = 1
    BY <2>1
  <2>5. (b[1] = 1) = v
    <3> HIDE DEF b
    <3>1. CASE v = TRUE
      <4>1. b = <<1>>
        BY <2>1, <3>1, Zenon
      <4>2. b[1] = 1
        BY <4>1
      <4> QED
        BY <3>1, <4>2, Zenon
    <3>2. CASE v = FALSE
      <4>1. b = <<0>>
        BY <2>1, <3>2, Zenon
      <4>2. b[1] # 1
        BY <4>1
      <4> QED
        BY <3>2, <4>2, Zenon
    <3> QED
      BY <2>1, <3>1, <3>2
  <2> HIDE DEF b
  <2> QED
    BY <2>2, <2>3, <2>4, <2>5 DEF b
<1>4. CASE type = "string"
  <2> DEFINE l == LittleEndian(Len(v), 4)
  <2>1. b = l \o v /\ v \in Seq(Nat) /\ Len(v) \in Small
    BY <1>4 DEF EncoderForType, WellTyped
  <2>2. l \in Seq(Nat) /\ Len(l) = 4 /\ FromBytes(l) = Len(v)
    BY <2>1, Bytes
  <2> HIDE DEF l, b
  <2>3. /\ b \in Seq(Nat) /\ Len(b) = 4 + Len(v)
        /\ \A i \in 1..(4 + Len(v)) : b[i] = IF i <= 4 THEN l[i] ELSE v[i - 4]
    <3>1. /\ l \o v \in Seq(Nat) /\ Len(l \o v) = Len(l) + Len(v)
          /\ \A i \in 1..Len(l) + Len(v) : (l \o v)[i] = IF i <= Len(l) THEN l[i] ELSE v[i - Len(l)]
      BY <2>1, <2>2, ConcatProperties
    <3> QED
      BY <2>1, <2>2, <3>1
  <2>4. ASSUME NEW t \in Seq(Nat)
        PROVE  WidthAt(type, b \o t) = Len(b)
    <3>1. /\ Len(b \o t) = 4 + Len(v) + Len(t)
          /\ \A i \in 1..4 : (b \o t)[i] = l[i]
      <4>1. /\ Len(b \o t) = Len(b) + Len(t)
            /\ \A i \in 1..Len(b) + Len(t) : (b \o t)[i] = IF i <= Len(b) THEN b[i] ELSE t[i - Len(b)]
        BY <2>3, ConcatProperties
      <4>2. Len(v) \in Nat /\ Len(t) \in Nat
        BY <2>1
      <4> QED
        BY <2>3, <4>1, <4>2
    <3>2. FromBytes(b \o t) = FromBytes(l)
      BY <3>1 DEF FromBytes
    <3>3. WidthAt(type, b \o t) = IF Len(b \o t) < 4 THEN 4 ELSE 4 + FromBytes(b \o t)
      BY <1>4 DEF WidthAt
    <3>4. Len(v) \in Nat /\ Len(t) \in Nat
      BY <2>1
    <3> QED
      BY <2>2, <2>3, <3>1, <3>2, <3>3, <3>4
  <2>5. DecoderForType(type, b) = SubSeq(b, 5, Len(b))
    BY <1>4 DEF DecoderForType
  <2>6. SubSeq(b, 5, Len(b)) = v
    <3>1. /\ SubSeq(b, 5, Len(b)) \in Seq(Nat)
          /\ Len(SubSeq(b, 5, Len(b))) = Len(v)
          /\ \A i \in 1..Len(v) : SubSeq(b, 5, Len(b))[i] = b[4 + i]
      BY <2>1, <2>3, SubSeqProperties
    <3>2. \A i \in 1..Len(v) : b[4 + i] = v[i]
      BY <2>1, <2>3
    <3> QED
      BY <2>1, <3>1, <3>2, SeqEqual
  <2> QED
    BY <2>3, <2>4, <2>5, <2>6 DEF b
<1>5. CASE type = "pubkey"
  <2>1. PICK n \in Nat : v = Wallet(n)
    BY <1>5 DEF WellTyped
  <2>2. b = [i \in 1..32 |-> n]
    BY <1>5, <2>1 DEF EncoderForType, Wallet
  <2>3. DecoderForType(type, b) = Wallet(b[1])
    BY <1>5 DEF DecoderForType
  <2>4. \A t : WidthAt(type, t) = 32
    BY <1>5 DEF WidthAt
  <2> HIDE DEF b
  <2>5. b[1] = n /\ b \in Seq(Nat) /\ Len(b) = 32
    BY <2>2
  <2> QED
    BY <2>1, <2>3, <2>4, <2>5 DEF b
<1>6. CASE type = "bytes32"
  <2>1. b = [i \in 1..32 |-> IF i \in DOMAIN v THEN v[i] ELSE 0] /\ v \in [1..32 -> Nat]
    BY <1>6 DEF EncoderForType, WellTyped
  <2>2. b = v
    BY <2>1
  <2>3. DecoderForType(type, b) = b
    BY <1>6 DEF DecoderForType
  <2>4. \A t : WidthAt(type, t) = 32
    BY <1>6 DEF WidthAt
  <2> HIDE DEF b
  <2>5. b \in Seq(Nat) /\ Len(b) = 32
    BY <2>1, <2>2
  <2> QED
    BY <2>2, <2>3, <2>4, <2>5 DEF b
<1> QED
  BY <1>1, <1>2, <1>3, <1>4, <1>5, <1>6 DEF WellTyped, Types

-----------------------------------------------------------------------------
(* Structures. *)
NameOf(f) == f[1]
Names(fields) == {NameOf(fields[k]) : k \in 1..Len(fields)}

IsEncoding(e, fields, values, n) ==
    e = [k \in 0..n |->
           IF k = 0 THEN <<>> ELSE e[k - 1] \o EncoderForType(fields[k][2], values[fields[k][1]])]
IsDecoding(d, fields, bytes, n) ==
    d = [k \in 0..n |->
           IF k = 0 THEN [ok |-> TRUE, rest |-> bytes, values |-> <<>>] ELSE Read(fields[k], d[k - 1])]

LEMMA EncodingExists ==
  ASSUME NEW fields, NEW values, NEW n \in Nat
  PROVE  \E e : IsEncoding(e, fields, values, n)
<1> DEFINE Bad == {k \in Nat : \A e : ~ IsEncoding(e, fields, values, k)}
<1>1. SUFFICES ASSUME n \in Bad  PROVE FALSE
  BY Zenon
<1>2. PICK k \in Bad : \A j \in Bad : k <= j
  <2>1. Bad \in SUBSET Nat /\ Bad # {}
    BY <1>1
  <2> HIDE DEF Bad
  <2> QED
    BY <2>1, LeastNumber
<1>3. CASE k = 0
  <2>1. IsEncoding([j \in 0..k |-> <<>>], fields, values, k)
    BY <1>3 DEF IsEncoding
  <2> QED
    BY <1>2, <2>1
<1>4. CASE k # 0
  <2>1. k - 1 \in Nat /\ k - 1 \notin Bad
    BY <1>2, <1>4
  <2>2. PICK e : IsEncoding(e, fields, values, k - 1)
    BY <2>1
  <2> DEFINE g == [j \in 0..k |->
                     IF j = k THEN e[k - 1] \o EncoderForType(fields[k][2], values[fields[k][1]])
                              ELSE e[j]]
  <2>3. \A j \in 0..k - 1 : e[j] = IF j = 0 THEN <<>>
                                   ELSE e[j - 1] \o EncoderForType(fields[j][2], values[fields[j][1]])
    BY <2>2, Zenon DEF IsEncoding
  <2>4. \A j \in 0..k : g[j] = IF j = 0 THEN <<>>
                               ELSE g[j - 1] \o EncoderForType(fields[j][2], values[fields[j][1]])
    BY <1>2, <1>4, <2>3
  <2>5. IsEncoding(g, fields, values, k)
    BY <2>4 DEF IsEncoding
  <2> QED
    BY <1>2, <2>5
<1> QED
  BY <1>3, <1>4

LEMMA DecodingExists ==
  ASSUME NEW fields, NEW bytes, NEW n \in Nat
  PROVE  \E d : IsDecoding(d, fields, bytes, n)
<1> DEFINE Bad == {k \in Nat : \A d : ~ IsDecoding(d, fields, bytes, k)}
           First == [ok |-> TRUE, rest |-> bytes, values |-> <<>>]
<1>1. SUFFICES ASSUME n \in Bad  PROVE FALSE
  BY Zenon
<1>2. PICK k \in Bad : \A j \in Bad : k <= j
  <2>1. Bad \in SUBSET Nat /\ Bad # {}
    BY <1>1
  <2> HIDE DEF Bad
  <2> QED
    BY <2>1, LeastNumber
<1>3. CASE k = 0
  <2>1. IsDecoding([j \in 0..k |-> First], fields, bytes, k)
    BY <1>3 DEF IsDecoding
  <2> QED
    BY <1>2, <2>1
<1>4. CASE k # 0
  <2>1. k - 1 \in Nat /\ k - 1 \notin Bad
    BY <1>2, <1>4
  <2>2. PICK d : IsDecoding(d, fields, bytes, k - 1)
    BY <2>1
  <2> DEFINE g == [j \in 0..k |-> IF j = k THEN Read(fields[k], d[k - 1]) ELSE d[j]]
  <2>3. \A j \in 0..k - 1 : d[j] = IF j = 0 THEN First ELSE Read(fields[j], d[j - 1])
    BY <2>2, Zenon DEF IsDecoding
  <2> HIDE DEF First
  <2>4. \A j \in 0..k : g[j] = IF j = 0 THEN First ELSE Read(fields[j], g[j - 1])
    BY <1>2, <1>4, <2>3
  <2>5. IsDecoding(g, fields, bytes, k)
    BY <2>4 DEF IsDecoding, First
  <2> QED
    BY <1>2, <2>5
<1> QED
  BY <1>3, <1>4

Fits(fields, values) ==
    /\ Len(fields) \in Nat
    /\ \A k \in 1..Len(fields) : WellTyped(fields[k][2], values[fields[k][1]])
Some(fields, values, k) == [m \in {NameOf(fields[i]) : i \in 1..k} |-> values[m]]

LEMMA EncodingIsBytes ==
  ASSUME NEW fields, NEW values, Fits(fields, values),
         NEW e, IsEncoding(e, fields, values, Len(fields)),
         NEW k \in 0..Len(fields)
  PROVE  e[k] \in Seq(Nat)
<1> DEFINE Bad == {j \in 0..Len(fields) : e[j] \notin Seq(Nat)}
<1>0. Len(fields) \in Nat
  BY DEF Fits
<1>1. SUFFICES ASSUME k \in Bad  PROVE FALSE
  OBVIOUS
<1>2. PICK j \in Bad : \A i \in Bad : j <= i
  <2>1. Bad \in SUBSET Nat /\ Bad # {}
    BY <1>1, <1>0
  <2> HIDE DEF Bad
  <2> QED
    BY <2>1, LeastNumber
<1>3. \A i \in 0..Len(fields) :
        e[i] = IF i = 0 THEN <<>> ELSE e[i - 1] \o EncoderForType(fields[i][2], values[fields[i][1]])
  BY Zenon DEF IsEncoding
<1>4. j # 0
  <2>1. e[0] = <<>>
    BY <1>0, <1>3
  <2>2. e[0] \in Seq(Nat)
    BY <2>1
  <2> QED
    BY <1>2, <2>2
<1>5. e[j - 1] \in Seq(Nat)
  BY <1>0, <1>2, <1>4
<1>6. EncoderForType(fields[j][2], values[fields[j][1]]) \in Seq(Nat)
  BY <1>0, <1>2, <1>4, OneField DEF Fits
<1>7. e[j - 1] \o EncoderForType(fields[j][2], values[fields[j][1]]) \in Seq(Nat)
  BY <1>5, <1>6, ConcatProperties
<1> QED
  BY <1>2, <1>3, <1>4, <1>7

LEMMA Regroup == \A a, b, c \in Seq(Nat) : (a \o b) \o c = a \o (b \o c)
BY ConcatAssociative

LEMMA CutAt ==
  ASSUME NEW b \in Seq(Nat), NEW t \in Seq(Nat)
  PROVE  /\ b \o t \in Seq(Nat) /\ Len(b) <= Len(b \o t)
         /\ SubSeq(b \o t, 1, Len(b)) = b
         /\ SubSeq(b \o t, Len(b) + 1, Len(b \o t)) = t
<1>1. /\ b \o t \in Seq(Nat) /\ Len(b \o t) = Len(b) + Len(t)
      /\ \A i \in 1..Len(b) + Len(t) : (b \o t)[i] = IF i <= Len(b) THEN b[i] ELSE t[i - Len(b)]
  BY ConcatProperties
<1> DEFINE s == b \o t
<1>2. Len(b) \in Nat /\ Len(t) \in Nat /\ \A i \in 1..Len(s) : s[i] \in Nat
  BY <1>1, ElementOfSeq
<1> HIDE DEF s
<1>3. SubSeq(s, 1, Len(b)) = b
  <2>1. /\ SubSeq(s, 1, Len(b)) \in Seq(Nat)
        /\ Len(SubSeq(s, 1, Len(b))) = IF 1 <= Len(b) THEN Len(b) - 1 + 1 ELSE 0
        /\ \A i \in 1..Len(b) - 1 + 1 : SubSeq(s, 1, Len(b))[i] = s[1 + i - 1]
    <3>1. \A i \in 1..Len(b) : s[i] \in Nat
      BY <1>1, <1>2 DEF s
    <3> QED
      BY <1>2, <3>1, SubSeqProperties
  <2>2. Len(SubSeq(s, 1, Len(b))) = Len(b)
    BY <2>1, <1>2
  <2>3. \A i \in 1..Len(b) : SubSeq(s, 1, Len(b))[i] = b[i]
    BY <2>1, <1>1, <1>2 DEF s
  <2> QED
    BY <2>1, <2>2, <2>3, SeqEqual
<1>4. SubSeq(s, Len(b) + 1, Len(s)) = t
  <2>1. /\ SubSeq(s, Len(b) + 1, Len(s)) \in Seq(Nat)
        /\ Len(SubSeq(s, Len(b) + 1, Len(s))) =
             IF Len(b) + 1 <= Len(s) THEN Len(s) - (Len(b) + 1) + 1 ELSE 0
        /\ \A i \in 1..Len(s) - (Len(b) + 1) + 1 : SubSeq(s, Len(b) + 1, Len(s))[i] = s[Len(b) + 1 + i - 1]
    <3>1. \A i \in Len(b) + 1..Len(s) : s[i] \in Nat
      BY <1>1, <1>2 DEF s
    <3>2. Len(s) \in Int /\ Len(b) + 1 \in Int
      BY <1>1, <1>2 DEF s
    <3> QED
      BY <3>1, <3>2, SubSeqProperties
  <2>2. Len(s) = Len(b) + Len(t)
    BY <1>1 DEF s
  <2>3. Len(SubSeq(s, Len(b) + 1, Len(s))) = Len(t)
    BY <2>1, <1>2, <2>2
  <2>4. \A i \in 1..Len(t) : SubSeq(s, Len(b) + 1, Len(s))[i] = t[i]
    <3> TAKE i \in 1..Len(t)
    <3>1. SubSeq(s, Len(b) + 1, Len(s))[i] = s[Len(b) + i]
      BY <2>1, <2>2, <1>2
    <3>2. s[Len(b) + i] = t[i]
      BY <1>1, <1>2 DEF s
    <3> QED
      BY <3>1, <3>2
  <2> QED
    BY <2>1, <2>3, <2>4, SeqEqual
<1> QED
  BY <1>1, <1>2, <1>3, <1>4 DEF s

LEMMA AddField ==
  ASSUME NEW fields, NEW values, NEW k \in Nat
  PROVE  With(Some(fields, values, k), fields[k + 1][1], values[fields[k + 1][1]])
           = Some(fields, values, k + 1)
<1>1. {NameOf(fields[i]) : i \in 1..k + 1} = {NameOf(fields[i]) : i \in 1..k} \cup {NameOf(fields[k + 1])}
  OBVIOUS
<1> QED
  BY <1>1 DEF Some, NameOf, With

LEMMA ReadField ==
  ASSUME NEW field, NEW v, WellTyped(field[2], v), NEW t \in Seq(Nat), NEW got,
         NEW b, b = EncoderForType(field[2], v),
         got.ok, got.rest = b \o t
  PROVE  Read(field, got) = [ok |-> TRUE, rest |-> t, values |-> With(got.values, field[1], v)]
<1>1. b \in Seq(Nat) /\ WidthAt(field[2], b \o t) = Len(b) /\ DecoderForType(field[2], b) = v
  BY OneField
<1>2. /\ Len(b) <= Len(b \o t)
      /\ SubSeq(b \o t, 1, Len(b)) = b
      /\ SubSeq(b \o t, Len(b) + 1, Len(b \o t)) = t
  BY <1>1, CutAt
<1> QED
  BY <1>1, <1>2, Zenon DEF Read

LEMMA DecodingOf ==
  ASSUME NEW fields, NEW values, Fits(fields, values),
         NEW e, IsEncoding(e, fields, values, Len(fields)),
         NEW k \in 0..Len(fields), NEW t \in Seq(Nat),
         NEW d, IsDecoding(d, fields, e[k] \o t, Len(fields))
  PROVE  d[k] = [ok |-> TRUE, rest |-> t, values |-> Some(fields, values, k)]
<1> DEFINE Holds(j, u, g) == g[j] = [ok |-> TRUE, rest |-> u, values |-> Some(fields, values, j)]
           Good(j) == \A u \in Seq(Nat) : \A g :
                        IsDecoding(g, fields, e[j] \o u, Len(fields)) => Holds(j, u, g)
           Bad == {j \in 0..Len(fields) : ~ Good(j)}
<1>0. Len(fields) \in Nat
  BY DEF Fits
<1>1. SUFFICES ASSUME k \in Bad  PROVE FALSE
  <2>1. Good(k)
    BY <1>1
  <2> QED
    BY <2>1, Zenon
<1> HIDE DEF Good
<1>2. PICK j \in Bad : \A i \in Bad : j <= i
  <2>1. Bad \in SUBSET Nat /\ Bad # {}
    BY <1>1, <1>0
  <2> HIDE DEF Bad
  <2> QED
    BY <2>1, LeastNumber
<1>a. PICK u \in Seq(Nat) : \E g : IsDecoding(g, fields, e[j] \o u, Len(fields)) /\ ~ Holds(j, u, g)
  BY <1>2, Zenon DEF Good
<1>3. PICK g : IsDecoding(g, fields, e[j] \o u, Len(fields)) /\ ~ Holds(j, u, g)
  BY <1>a
<1>4. \A i \in 0..Len(fields) :
        e[i] = IF i = 0 THEN <<>> ELSE e[i - 1] \o EncoderForType(fields[i][2], values[fields[i][1]])
  BY Zenon DEF IsEncoding
<1>5. \A i \in 0..Len(fields) :
        g[i] = IF i = 0 THEN [ok |-> TRUE, rest |-> e[j] \o u, values |-> <<>>] ELSE Read(fields[i], g[i - 1])
  BY <1>3, Zenon DEF IsDecoding
<1>6. CASE j = 0
  <2>1. e[0] = <<>>
    BY <1>0, <1>4
  <2>2. <<>> \o u = u
    BY ConcatEmptySeq
  <2>3. g[0] = [ok |-> TRUE, rest |-> u, values |-> <<>>]
    BY <1>0, <1>5, <1>6, <2>1, <2>2
  <2>4. Some(fields, values, 0) = <<>>
    <3>1. {NameOf(fields[i]) : i \in 1..0} = {}
      OBVIOUS
    <3> QED
      BY <3>1 DEF Some
  <2> QED
    BY <1>3, <1>6, <2>3, <2>4
<1>7. CASE j # 0
  <2> DEFINE b == EncoderForType(fields[j][2], values[fields[j][1]])
  <2>1. j - 1 \in 0..Len(fields) /\ j \in 1..Len(fields)
    BY <1>0, <1>2, <1>7
  <2>2. Good(j - 1)
    <3>1. j - 1 \notin Bad
      <4>1. ~ (j <= j - 1)
        BY <1>2
      <4> HIDE DEF Bad
      <4> QED
        BY <1>2, <4>1
    <3> QED
      BY <2>1, <3>1
  <2>3. WellTyped(fields[j][2], values[fields[j][1]])
    BY <2>1 DEF Fits
  <2>4. b \in Seq(Nat)
    BY <2>3, OneField
  <2>5. e[j - 1] \in Seq(Nat)
    BY <2>1, EncodingIsBytes
  <2>6. e[j] = e[j - 1] \o b
    BY <1>4, <1>7, <2>1
  <2> HIDE DEF b
  <2>7. e[j] \o u = e[j - 1] \o (b \o u) /\ b \o u \in Seq(Nat)
    <3>1. (e[j - 1] \o b) \o u = e[j - 1] \o (b \o u)
      BY <2>4, <2>5, Regroup
    <3>2. b \o u \in Seq(Nat)
      BY <2>4, ConcatProperties
    <3> QED
      BY <2>6, <3>1, <3>2
  <2>8. Holds(j - 1, b \o u, g)
    BY <1>3, <2>2, <2>7 DEF Good
  <2>9. g[j] = Read(fields[j], g[j - 1])
    BY <1>5, <1>7, <2>1
  <2>10. g[j] = [ok |-> TRUE, rest |-> u,
                 values |-> With(Some(fields, values, j - 1), fields[j][1], values[fields[j][1]])]
    <3>1. g[j - 1].ok /\ g[j - 1].rest = b \o u /\ g[j - 1].values = Some(fields, values, j - 1)
      BY <2>8
    <3>2. b = EncoderForType(fields[j][2], values[fields[j][1]])
      BY DEF b
    <3> DEFINE F == fields[j]
               V == values[fields[j][1]]
               G == g[j - 1]
    <3>3. Read(F, G) = [ok |-> TRUE, rest |-> u, values |-> With(G.values, F[1], V)]
      <4>1. WellTyped(F[2], V) /\ b = EncoderForType(F[2], V) /\ G.ok /\ G.rest = b \o u
        BY <2>3, <3>1, <3>2
      <4> HIDE DEF F, V, G
      <4> QED
        BY <4>1, ReadField
    <3> QED
      BY <2>9, <3>1, <3>3
  <2>11. With(Some(fields, values, j - 1), fields[j][1], values[fields[j][1]]) = Some(fields, values, j)
    <3>1. j - 1 \in Nat /\ (j - 1) + 1 = j
      BY <2>1
    <3> QED
      BY <3>1, AddField
  <2> QED
    BY <1>3, <2>10, <2>11
<1> QED
  BY <1>6, <1>7

\* Whatever structure an IDL lays out and whatever values fit its types, a client that reads the bytes a
\* client wrote by that layout finds those values and no others (idlCodec.ts).
THEOREM CodecIsFaithful ==
  ASSUME NEW fields, NEW values, Fits(fields, values)
  PROVE  DecodeStruct(fields, EncodeStruct(fields, values)) = {[m \in Names(fields) |-> values[m]]}
<1> DEFINE n == Len(fields)
           e == CHOOSE x : IsEncoding(x, fields, values, n)
           bytes == e[n]
           d == CHOOSE x : IsDecoding(x, fields, bytes, n)
<1>0. n \in Nat
  BY DEF Fits
<1>1. EncodeStruct(fields, values) = bytes
  BY Zenon DEF EncodeStruct, IsEncoding
<1>2. DecodeStruct(fields, bytes) = IF d[n].ok THEN {d[n].values} ELSE {}
  BY Zenon DEF DecodeStruct, IsDecoding
<1>3. IsEncoding(e, fields, values, n)
  <2>1. \E x : IsEncoding(x, fields, values, n)
    BY <1>0, EncodingExists
  <2> QED
    BY <2>1, Zenon
<1>4. IsDecoding(d, fields, bytes, n)
  <2>1. \E x : IsDecoding(x, fields, bytes, n)
    BY <1>0, DecodingExists
  <2> QED
    BY <2>1, Zenon
<1> HIDE DEF e, d
<1>5. e[n] \o <<>> = bytes /\ <<>> \in Seq(Nat)
  <2>1. e[n] \in Seq(Nat)
    BY <1>0, <1>3, EncodingIsBytes
  <2> QED
    BY <2>1, ConcatEmptySeq
<1>6. d[n] = [ok |-> TRUE, rest |-> <<>>, values |-> Some(fields, values, n)]
  <2>1. IsDecoding(d, fields, e[n] \o <<>>, n)
    BY <1>4, <1>5
  <2>2. n \in 0..Len(fields)
    BY <1>0
  <2> QED
    BY <1>3, <1>5, <2>1, <2>2, DecodingOf
<1>7. Some(fields, values, n) = [m \in Names(fields) |-> values[m]]
  BY DEF Some, Names
<1> QED
  BY <1>1, <1>2, <1>6, <1>7

-----------------------------------------------------------------------------
(* Accounts and instructions. *)
LEMMA AccountIsRead ==
  ASSUME NEW idl, NEW type, NEW fields, NEW values, Fits(fields, values),
         {x \in idl.types : x[1] = type} = {<<type, fields>>}
  PROVE  DecodeAccountData(idl, type, Stored(fields, type, values)) = {[m \in Names(fields) |-> values[m]]}
<1> DEFINE data == Stored(fields, type, values)
<1>1. data.discriminator = type /\ data.bytes = EncodeStruct(fields, values)
  BY DEF Stored
<1> HIDE DEF data
<1>2. {x \in idl.types : x[1] = type /\ data.discriminator = type} = {<<type, fields>>}
  BY <1>1
<1>3. DecodeAccountData(idl, type, data) = DecodeStruct(fields, data.bytes)
  <2>1. DecodeAccountData(idl, type, data) =
          UNION {DecodeStruct(t[2], data.bytes) : t \in {<<type, fields>>}}
    BY <1>2, Zenon DEF DecodeAccountData
  <2>2. {DecodeStruct(t[2], data.bytes) : t \in {<<type, fields>>}} = {DecodeStruct(fields, data.bytes)}
    OBVIOUS
  <2> QED
    BY <2>1, <2>2
<1> QED
  BY <1>1, <1>3, CodecIsFaithful DEF data

Numbered(s) == Len(s) \in Nat /\ DOMAIN s = 1..Len(s)
WellFormed(ix) ==
    /\ Numbered(ix.accounts)
    /\ \A i \in 1..Len(ix.accounts) :
          /\ ix.accounts[i].signer \in BOOLEAN /\ ix.accounts[i].writable \in BOOLEAN
          /\ \A j \in 1..Len(ix.accounts) : ix.accounts[i].name = ix.accounts[j].name => i = j
    /\ Numbered(ix.args)
Only(idl, ix) == ix \in idl.instructions /\ \A x \in idl.instructions : x.name = ix.name => x = ix

Message(program, ix, accounts, args) ==
    [program |-> program,
     accounts |-> [i \in DOMAIN ix.accounts |->
                      [address |-> AddressOf(ix.accounts[i], accounts), role |-> RoleOf(ix.accounts[i])]],
     data |-> [discriminator |-> ix.name, bytes |-> EncodeInstructionData(ix, args)]]
Complete(ix, accounts, args) ==
    /\ \A i \in DOMAIN ix.accounts : Given(ix.accounts[i], accounts)
    /\ \A i \in DOMAIN ix.args : ix.args[i][1] \in DOMAIN args /\ Encodable(ix.args[i][2], args[ix.args[i][1]])

LEMMA WhatIsBuilt ==
  ASSUME NEW idl, NEW ix, Only(idl, ix), NEW program, NEW accounts, NEW args
  PROVE  BuildInstruction(idl, program, ix.name, accounts, args) =
           IF Complete(ix, accounts, args) THEN {Message(program, ix, accounts, args)} ELSE {}
<1> DEFINE Fit == {x \in idl.instructions : x.name = ix.name /\ Complete(x, accounts, args)}
<1>1. BuildInstruction(idl, program, ix.name, accounts, args) = {Message(program, x, accounts, args) : x \in Fit}
  BY Zenon DEF BuildInstruction, Message, Complete
<1>2. Fit = IF Complete(ix, accounts, args) THEN {ix} ELSE {}
  BY DEF Only
<1> HIDE DEF Fit
<1> QED
  BY <1>1, <1>2

Key(account, accounts) ==
    [pubkey |-> AddressOf(account, accounts), isSigner |-> account.signer, isWritable |-> account.writable]
Values(ix, args) == [m \in Names(ix.args) |-> args[m]]
Accepted(program, ix, accounts, args, payer, own) ==
    \A i \in DOMAIN ix.accounts :
        /\ Meets(program, ix.accounts[i], Key(ix.accounts[i], accounts), Values(ix, args), own)
        /\ ix.accounts[i].signer => AddressOf(ix.accounts[i], accounts) = payer
Delivery(ix, accounts, args) ==
    [name |-> ix.name, args |-> Values(ix, args),
     accounts |-> [n \in {ix.accounts[i].name : i \in DOMAIN ix.accounts} |->
                     AddressOf(ix.accounts[CHOOSE i \in DOMAIN ix.accounts : ix.accounts[i].name = n], accounts)]]

LEMMA KeysOf ==
  ASSUME NEW ix, WellFormed(ix), NEW program, NEW accounts, NEW args
  PROVE  ToWeb3JsInstruction(Message(program, ix, accounts, args)) =
           [program |-> program,
            accounts |-> [i \in DOMAIN ix.accounts |-> Key(ix.accounts[i], accounts)],
            data |-> [discriminator |-> ix.name, bytes |-> EncodeInstructionData(ix, args)]]
<1> DEFINE msg == Message(program, ix, accounts, args)
           flagged == [i \in DOMAIN msg.accounts |->
                        [pubkey     |-> msg.accounts[i].address,
                         isSigner   |-> msg.accounts[i].role \in {"READONLY_SIGNER", "WRITABLE_SIGNER"},
                         isWritable |-> msg.accounts[i].role \in {"WRITABLE", "WRITABLE_SIGNER"}]]
<1>1. ToWeb3JsInstruction(msg) = [msg EXCEPT !.accounts = flagged]
  BY Zenon DEF ToWeb3JsInstruction
<1>2. flagged = [i \in DOMAIN ix.accounts |-> Key(ix.accounts[i], accounts)]
  <2>1. DOMAIN msg.accounts = DOMAIN ix.accounts
    BY DEF Message
  <2>2. ASSUME NEW i \in DOMAIN ix.accounts
        PROVE  flagged[i] = Key(ix.accounts[i], accounts)
    <3> DEFINE a == ix.accounts[i]
    <3>1. a.signer \in BOOLEAN /\ a.writable \in BOOLEAN
      BY DEF WellFormed, Numbered
    <3>2. msg.accounts[i].address = AddressOf(a, accounts) /\ msg.accounts[i].role = RoleOf(a)
      BY DEF Message
    <3>3. (RoleOf(a) \in {"READONLY_SIGNER", "WRITABLE_SIGNER"}) = a.signer
      BY <3>1 DEF RoleOf
    <3>4. (RoleOf(a) \in {"WRITABLE", "WRITABLE_SIGNER"}) = a.writable
      BY <3>1 DEF RoleOf
    <3> HIDE DEF msg
    <3> QED
      BY <2>1, <3>2, <3>3, <3>4, Zenon DEF Key
  <2> HIDE DEF msg
  <2> QED
    BY <2>1, <2>2, Zenon
<1> HIDE DEF flagged
<1>3. [msg EXCEPT !.accounts = flagged] = [program |-> msg.program, accounts |-> flagged, data |-> msg.data]
  <2> DEFINE named == [i \in DOMAIN ix.accounts |->
                         [address |-> AddressOf(ix.accounts[i], accounts), role |-> RoleOf(ix.accounts[i])]]
             sent  == [discriminator |-> ix.name, bytes |-> EncodeInstructionData(ix, args)]
  <2>1. msg = [program |-> program, accounts |-> named, data |-> sent]
    BY Zenon DEF Message
  <2> HIDE DEF msg, named, sent
  <2>2. [msg EXCEPT !.accounts = flagged] = [program |-> program, accounts |-> flagged, data |-> sent]
    BY <2>1
  <2>3. msg.program = program /\ msg.data = sent
    BY <2>1
  <2> QED
    BY <2>2, <2>3
<1>4. msg.program = program /\ msg.data = [discriminator |-> ix.name, bytes |-> EncodeInstructionData(ix, args)]
  BY DEF Message
<1> HIDE DEF msg
<1> QED
  BY <1>1, <1>2, <1>3, <1>4 DEF msg

(* What a program reads in a transaction, and the transactions it looks at. *)
Taken(program, ix, tx, own) ==
    {[name |-> ix.name, args |-> args,
      accounts |-> [n \in {ix.accounts[i].name : i \in DOMAIN ix.accounts} |->
                       tx.accounts[CHOOSE i \in DOMAIN ix.accounts : ix.accounts[i].name = n].pubkey]] :
     args \in {a \in DecodeStruct(ix.args, tx.data.bytes) :
                 \A i \in DOMAIN ix.accounts : Meets(program, ix.accounts[i], tx.accounts[i], a, own)}}
Looked(idl, program, sent, tx, payer) ==
    {x \in idl.instructions :
       /\ sent.program = program
       /\ x.name = tx.data.discriminator
       /\ Len(tx.accounts) >= Len(x.accounts)
       /\ \A i \in DOMAIN tx.accounts : tx.accounts[i].isSigner => tx.accounts[i].pubkey = payer}

\* A program that receives what a client built of an instruction accepts it exactly when the signers and the
\* accounts are the ones it demands, and then reads the client's arguments and addresses (idlCodec.ts,
\* buildInstruction; toWeb3JsInstruction).
LEMMA WhatArrives ==
  ASSUME NEW idl, NEW ix, Only(idl, ix), WellFormed(ix), NEW program, NEW accounts, NEW args,
         Fits(ix.args, args), NEW payer, NEW own
  PROVE  Delivered(idl, program, Message(program, ix, accounts, args), payer, own) =
           IF Accepted(program, ix, accounts, args, payer, own) THEN {Delivery(ix, accounts, args)} ELSE {}
<1> DEFINE sent == Message(program, ix, accounts, args)
           tx == ToWeb3JsInstruction(sent)
           keys == [i \in DOMAIN ix.accounts |-> Key(ix.accounts[i], accounts)]
           Signed == \A i \in DOMAIN ix.accounts :
                        ix.accounts[i].signer => AddressOf(ix.accounts[i], accounts) = payer
           Met == \A i \in DOMAIN ix.accounts :
                        Meets(program, ix.accounts[i], Key(ix.accounts[i], accounts), Values(ix, args), own)
<1>1. Delivered(idl, program, sent, payer, own) =
        UNION {Taken(program, x, tx, own) : x \in Looked(idl, program, sent, tx, payer)}
  BY Zenon DEF Delivered, Taken, Looked
<1>2. tx = [program |-> program, accounts |-> keys,
            data |-> [discriminator |-> ix.name, bytes |-> EncodeInstructionData(ix, args)]]
  BY KeysOf, Zenon
<1>3. sent.program = program
  BY DEF Message
<1>4. /\ tx.accounts = keys /\ tx.data.discriminator = ix.name
      /\ tx.data.bytes = EncodeStruct(ix.args, args)
  BY <1>2 DEF EncodeInstructionData
<1> HIDE DEF sent, tx
<1>5. Looked(idl, program, sent, tx, payer) = IF Signed THEN {ix} ELSE {}
  <2>1. Len(keys) = Len(ix.accounts) /\ Len(ix.accounts) \in Nat
    BY DEF WellFormed, Numbered
  <2>2. (\A i \in DOMAIN keys : keys[i].isSigner => keys[i].pubkey = payer) <=> Signed
    BY DEF Key
  <2> HIDE DEF keys, Signed
  <2> QED
    BY <1>3, <1>4, <2>1, <2>2 DEF Looked, Only
<1>6. Taken(program, ix, tx, own) = IF Met THEN {Delivery(ix, accounts, args)} ELSE {}
  <2> DEFINE told == [n \in {ix.accounts[i].name : i \in DOMAIN ix.accounts} |->
                        keys[CHOOSE i \in DOMAIN ix.accounts : ix.accounts[i].name = n].pubkey]
             named == [n \in {ix.accounts[i].name : i \in DOMAIN ix.accounts} |->
                        AddressOf(ix.accounts[CHOOSE i \in DOMAIN ix.accounts : ix.accounts[i].name = n], accounts)]
  <2>1. told = named
    <3>1. ASSUME NEW n \in {ix.accounts[i].name : i \in DOMAIN ix.accounts}
          PROVE  told[n] = named[n]
      BY <3>1 DEF Key
    <3> QED
      BY <3>1, Zenon
  <2>2. DecodeStruct(ix.args, tx.data.bytes) = {Values(ix, args)}
    BY <1>4, CodecIsFaithful DEF Values
  <2>3. (\A i \in DOMAIN ix.accounts : Meets(program, ix.accounts[i], keys[i], Values(ix, args), own)) <=> Met
    OBVIOUS
  <2> HIDE DEF keys
  <2> DEFINE Heard(D, k) ==
               {[name |-> ix.name, args |-> a,
                 accounts |-> [n \in {ix.accounts[i].name : i \in DOMAIN ix.accounts} |->
                                 k[CHOOSE i \in DOMAIN ix.accounts : ix.accounts[i].name = n].pubkey]] :
                  a \in {v \in D : \A i \in DOMAIN ix.accounts : Meets(program, ix.accounts[i], k[i], v, own)}}
  <2>6. Taken(program, ix, tx, own) = Heard(DecodeStruct(ix.args, tx.data.bytes), tx.accounts)
    BY Zenon DEF Taken
  <2>7. Heard(DecodeStruct(ix.args, tx.data.bytes), tx.accounts) = Heard({Values(ix, args)}, keys)
    <3>1. tx.accounts = keys
      BY <1>4
    <3> HIDE DEF Heard
    <3> QED
      BY <2>2, <3>1
  <2>4. Taken(program, ix, tx, own) =
          {[name |-> ix.name, args |-> a, accounts |-> told] :
             a \in {v \in {Values(ix, args)} :
                      \A i \in DOMAIN ix.accounts : Meets(program, ix.accounts[i], keys[i], v, own)}}
    BY <2>6, <2>7
  <2>5. Delivery(ix, accounts, args) = [name |-> ix.name, args |-> Values(ix, args), accounts |-> named]
    BY Zenon DEF Delivery
  <2> HIDE DEF told, named, Met
  <2> QED
    BY <2>1, <2>3, <2>4, <2>5
<1>7. Accepted(program, ix, accounts, args, payer, own) <=> (Signed /\ Met)
  BY Zenon DEF Accepted
<1> HIDE DEF keys, Signed, Met
<1>8. CASE Signed
  BY <1>1, <1>5, <1>6, <1>7, <1>8 DEF sent
<1>9. CASE ~ Signed
  BY <1>1, <1>5, <1>7, <1>9 DEF sent
<1> QED
  BY <1>8, <1>9

\* What a program reads of a call has the client's arguments and addresses, by name.
Comes(idl, ix, program, accounts, args, payer, own, d) ==
    /\ Only(idl, ix) /\ WellFormed(ix) /\ Fits(ix.args, args)
    /\ \E sent \in BuildInstruction(idl, program, ix.name, accounts, args) :
          d \in Delivered(idl, program, sent, payer, own)

Addressed(ix, accounts, d) ==
    \A i \in 1..Len(ix.accounts) : d.accounts[ix.accounts[i].name] = AddressOf(ix.accounts[i], accounts)

LEMMA WhatIsRead ==
  ASSUME NEW idl, NEW ix, NEW program, NEW accounts, NEW args, NEW payer, NEW own, NEW d,
         Comes(idl, ix, program, accounts, args, payer, own, d)
  PROVE  /\ d.name = ix.name
         /\ d.args = Values(ix, args)
         /\ Addressed(ix, accounts, d)
         /\ Complete(ix, accounts, args)
         /\ Accepted(program, ix, accounts, args, payer, own)
<1> Only(idl, ix) /\ WellFormed(ix) /\ Fits(ix.args, args)
  BY DEF Comes
<1> PICK sent \in BuildInstruction(idl, program, ix.name, accounts, args) :
          d \in Delivered(idl, program, sent, payer, own)
  BY DEF Comes
<1>0. BuildInstruction(idl, program, ix.name, accounts, args) =
        IF Complete(ix, accounts, args) THEN {Message(program, ix, accounts, args)} ELSE {}
  BY WhatIsBuilt
<1>1. Complete(ix, accounts, args) /\ sent = Message(program, ix, accounts, args)
  BY <1>0
<1>2. Accepted(program, ix, accounts, args, payer, own) /\ d = Delivery(ix, accounts, args)
  BY <1>1, WhatArrives
<1>3. ASSUME NEW i \in 1..Len(ix.accounts)
      PROVE  d.accounts[ix.accounts[i].name] = AddressOf(ix.accounts[i], accounts)
  <2> DEFINE n == ix.accounts[i].name
  <2>1. DOMAIN ix.accounts = 1..Len(ix.accounts)
    BY DEF WellFormed, Numbered
  <2>2. (CHOOSE j \in DOMAIN ix.accounts : ix.accounts[j].name = n) = i
    BY <2>1 DEF WellFormed
  <2>3. n \in {ix.accounts[j].name : j \in DOMAIN ix.accounts}
    BY <2>1
  <2>4. d.accounts = [m \in {ix.accounts[j].name : j \in DOMAIN ix.accounts} |->
                        AddressOf(ix.accounts[CHOOSE j \in DOMAIN ix.accounts : ix.accounts[j].name = m], accounts)]
    BY <1>2 DEF Delivery
  <2> HIDE DEF n
  <2>5. d.accounts[n] = AddressOf(ix.accounts[i], accounts)
    BY <2>2, <2>3, <2>4
  <2> QED
    BY <2>5 DEF n
<1>4. d.name = ix.name /\ d.args = Values(ix, args)
  BY <1>2 DEF Delivery
<1> QED
  BY <1>1, <1>2, <1>3, <1>4 DEF Addressed

\* A call that is built and accepted is read.
LEMMA AcceptedIsRead ==
  ASSUME NEW idl, NEW ix, Only(idl, ix), WellFormed(ix), NEW program, NEW accounts, NEW args,
         Fits(ix.args, args), NEW payer, NEW own,
         Complete(ix, accounts, args), Accepted(program, ix, accounts, args, payer, own)
  PROVE  \E sent \in BuildInstruction(idl, program, ix.name, accounts, args) :
         \E d \in Delivered(idl, program, sent, payer, own) : TRUE
<1>1. BuildInstruction(idl, program, ix.name, accounts, args) = {Message(program, ix, accounts, args)}
  BY WhatIsBuilt
<1>2. Delivered(idl, program, Message(program, ix, accounts, args), payer, own) = {Delivery(ix, accounts, args)}
  BY WhatArrives
<1> QED
  BY <1>1, <1>2

-----------------------------------------------------------------------------
(* The programs' instructions, one by one. *)
LEMMA EscrowNames ==
  /\ ConfirmPickupIx.name = "confirm_pickup" /\ DisputeIx.name = "dispute" /\ FundIx.name = "fund"
  /\ InitializeEscrowIx.name = "initialize" /\ MarkPreparingIx.name = "mark_preparing"
  /\ MarkReadyIx.name = "mark_ready" /\ RefundIx.name = "refund" /\ ResolveIx.name = "resolve"
  /\ SetMerchantWalletIx.name = "set_merchant_wallet" /\ SetUsdcMintIx.name = "set_usdc_mint"
  /\ UserReleaseIx.name = "user_release"
BY DEF Instruction, ConfirmPickupIx, DisputeIx, FundIx, InitializeEscrowIx, MarkPreparingIx, MarkReadyIx,
       RefundIx, ResolveIx, SetMerchantWalletIx, SetUsdcMintIx, UserReleaseIx

LEMMA EscrowInstructions ==
  ASSUME NEW ix \in OrderEscrowIdl.instructions
  PROVE  Only(OrderEscrowIdl, ix)
<1>1. OrderEscrowIdl.instructions =
        {ConfirmPickupIx, DisputeIx, FundIx, InitializeEscrowIx, MarkPreparingIx, MarkReadyIx,
         RefundIx, ResolveIx, SetMerchantWalletIx, SetUsdcMintIx, UserReleaseIx}
  BY DEF OrderEscrowIdl
<1>2. ASSUME NEW x \in OrderEscrowIdl.instructions, x.name = ix.name
      PROVE  x = ix
  BY <1>1, <1>2, EscrowNames
<1> QED
  BY <1>2 DEF Only

LEMMA AccountFields ==
  ASSUME NEW name, NEW flags, NEW at
  PROVE  /\ Account(name, flags, at).name = name /\ Account(name, flags, at).at = at
         /\ Account(name, flags, at).signer = ("signer" \in flags)
         /\ Account(name, flags, at).writable = ("writable" \in flags)
         /\ Account(name, flags, at).signer \in BOOLEAN /\ Account(name, flags, at).writable \in BOOLEAN
BY DEF Account

IsAccount(a, name, signs, at) ==
    a.name = name /\ a.at = at /\ a.signer = signs /\ a.signer \in BOOLEAN /\ a.writable \in BOOLEAN
Flagged(a) == a.signer \in BOOLEAN /\ a.writable \in BOOLEAN

LEMMA AccountFlags ==
  ASSUME NEW a, NEW name, NEW signs, NEW at, IsAccount(a, name, signs, at)
  PROVE  Flagged(a)
BY DEF IsAccount, Flagged

LEMMA CallerAccounts ==
  ASSUME NEW n
  PROVE  /\ IsAccount(Signs(n), n, TRUE, AnyAddress) /\ IsAccount(Pays(n), n, TRUE, AnyAddress)
         /\ IsAccount(Writes(n), n, FALSE, AnyAddress) /\ IsAccount(Reads(n), n, FALSE, AnyAddress)
<1>1. IsAccount(Signs(n), n, TRUE, AnyAddress)
  BY AccountFields DEF Signs, IsAccount
<1>2. IsAccount(Pays(n), n, TRUE, AnyAddress)
  BY AccountFields DEF Pays, IsAccount
<1>3. IsAccount(Writes(n), n, FALSE, AnyAddress)
  BY AccountFields DEF Writes, IsAccount
<1>4. IsAccount(Reads(n), n, FALSE, AnyAddress)
  BY AccountFields DEF Reads, IsAccount
<1> QED
  BY <1>1, <1>2, <1>3, <1>4

LEMMA SeededAccounts ==
  /\ IsAccount(TokenProgram, "token_program", FALSE, ProgramAt("token"))
  /\ IsAccount(SystemProgram, "system_program", FALSE, ProgramAt("system"))
  /\ IsAccount(EscrowConfigAt({}), "escrow_config", FALSE, Prefix("escrow_config"))
  /\ IsAccount(EscrowConfigAt({"writable"}), "escrow_config", FALSE, Prefix("escrow_config"))
  /\ IsAccount(MerchantWalletRead, "merchant_wallet", FALSE, ByOwn("merchant_wallet", "merchant_id"))
  /\ IsAccount(Account("merchant_wallet", {"writable"}, ByArg("merchant_wallet", "merchant_id")),
               "merchant_wallet", FALSE, ByArg("merchant_wallet", "merchant_id"))
  /\ IsAccount(OrderWritten, "order", FALSE, ByArg("order", "order_id"))
  /\ IsAccount(VaultWritten, "vault", FALSE, ByArg("vault", "order_id"))
  /\ IsAccount(DirectoryStateAt({"writable"}), "directory_state", FALSE, Prefix("directory_state"))
  /\ IsAccount(MerchantWritten, "merchant", FALSE, ByArg("merchant", "merchant_id"))
  /\ IsAccount(ReceiptConfigAt({"writable"}), "receipt_config", FALSE, Prefix("receipt_config"))
  /\ IsAccount(ReceiptAt({"writable"}), "receipt", FALSE, ByArg("receipt", "receipt_id"))
<1> DEFINE Seeded(n, f, at) == "signer" \notin f => IsAccount(Account(n, f, at), n, FALSE, at)
<1>1. \A n, f, at : Seeded(n, f, at)
  <2> TAKE n, f, at
  <2> QED
    BY AccountFields DEF IsAccount
<1> QED
  BY <1>1 DEF TokenProgram, SystemProgram, EscrowConfigAt, MerchantWalletRead, OrderWritten, VaultWritten,
       DirectoryStateAt, MerchantWritten, ReceiptConfigAt, ReceiptAt

LEMMA ResolveTable ==
  LET a == ResolveIx.accounts
      f == ResolveIx.args
  IN  /\ WellFormed(ResolveIx) /\ Len(a) = 9 /\ Len(f) = 2
      /\ IsAccount(a[1], "arbiter", TRUE, AnyAddress)
      /\ IsAccount(a[2], "escrow_config", FALSE, Prefix("escrow_config"))
      /\ IsAccount(a[3], "order", FALSE, ByArg("order", "order_id"))
      /\ IsAccount(a[4], "vault", FALSE, ByArg("vault", "order_id"))
      /\ IsAccount(a[5], "buyer_token_account", FALSE, AnyAddress)
      /\ IsAccount(a[6], "merchant_wallet", FALSE, ByOwn("merchant_wallet", "merchant_id"))
      /\ IsAccount(a[7], "merchant_token_account", FALSE, AnyAddress)
      /\ IsAccount(a[8], "buyer", FALSE, AnyAddress)
      /\ IsAccount(a[9], "token_program", FALSE, ProgramAt("token"))
      /\ f[1] = <<"order_id", "u64">> /\ f[2] = <<"release_to_merchant", "bool">>
<1> DEFINE a == ResolveIx.accounts
           f == ResolveIx.args
<1>1. /\ Len(a) = 9 /\ DOMAIN a = 1..9
      /\ a[1] = Signs("arbiter") /\ a[2] = EscrowConfigAt({}) /\ a[3] = OrderWritten /\ a[4] = VaultWritten
      /\ a[5] = Writes("buyer_token_account") /\ a[6] = MerchantWalletRead
      /\ a[7] = Writes("merchant_token_account") /\ a[8] = Writes("buyer") /\ a[9] = TokenProgram
      /\ Len(f) = 2 /\ DOMAIN f = 1..2 /\ f[1] = <<"order_id", "u64">>
      /\ f[2] = <<"release_to_merchant", "bool">>
  BY DEF ResolveIx, Instruction
<1> HIDE DEF a, f
<1>2. /\ IsAccount(a[1], "arbiter", TRUE, AnyAddress)
      /\ IsAccount(a[2], "escrow_config", FALSE, Prefix("escrow_config"))
      /\ IsAccount(a[3], "order", FALSE, ByArg("order", "order_id"))
      /\ IsAccount(a[4], "vault", FALSE, ByArg("vault", "order_id"))
      /\ IsAccount(a[5], "buyer_token_account", FALSE, AnyAddress)
      /\ IsAccount(a[6], "merchant_wallet", FALSE, ByOwn("merchant_wallet", "merchant_id"))
      /\ IsAccount(a[7], "merchant_token_account", FALSE, AnyAddress)
      /\ IsAccount(a[8], "buyer", FALSE, AnyAddress)
      /\ IsAccount(a[9], "token_program", FALSE, ProgramAt("token"))
  <2>1. IsAccount(a[1], "arbiter", TRUE, AnyAddress)
    BY <1>1, CallerAccounts
  <2>2. IsAccount(a[2], "escrow_config", FALSE, Prefix("escrow_config"))
    BY <1>1, SeededAccounts
  <2>3. IsAccount(a[3], "order", FALSE, ByArg("order", "order_id"))
    BY <1>1, SeededAccounts
  <2>4. IsAccount(a[4], "vault", FALSE, ByArg("vault", "order_id"))
    BY <1>1, SeededAccounts
  <2>5. IsAccount(a[5], "buyer_token_account", FALSE, AnyAddress)
    BY <1>1, CallerAccounts
  <2>6. IsAccount(a[6], "merchant_wallet", FALSE, ByOwn("merchant_wallet", "merchant_id"))
    BY <1>1, SeededAccounts
  <2>7. IsAccount(a[7], "merchant_token_account", FALSE, AnyAddress)
    BY <1>1, CallerAccounts
  <2>8. IsAccount(a[8], "buyer", FALSE, AnyAddress)
    BY <1>1, CallerAccounts
  <2>9. IsAccount(a[9], "token_program", FALSE, ProgramAt("token"))
    BY <1>1, SeededAccounts
  <2> QED
    BY <2>1, <2>2, <2>3, <2>4, <2>5, <2>6, <2>7, <2>8, <2>9
<1>3. \A i \in 1..9 : Flagged(a[i])
  <2>1. /\ Flagged(a[1]) /\ Flagged(a[2]) /\ Flagged(a[3]) /\ Flagged(a[4]) /\ Flagged(a[5])
        /\ Flagged(a[6]) /\ Flagged(a[7]) /\ Flagged(a[8]) /\ Flagged(a[9])
    BY <1>2, AccountFlags
  <2> QED
    BY <2>1
<1>4. \A i, j \in 1..9 : a[i].name = a[j].name => i = j
  BY <1>2 DEF IsAccount
<1>5. WellFormed(ResolveIx)
  BY <1>1, <1>3, <1>4 DEF WellFormed, Numbered, Flagged, a, f
<1> QED
  BY <1>1, <1>2, <1>5 DEF a, f

LEMMA FundTable ==
  LET a == FundIx.accounts
      f == FundIx.args
  IN  /\ WellFormed(FundIx) /\ Len(a) = 9 /\ Len(f) = 5
      /\ IsAccount(a[1], "buyer", TRUE, AnyAddress)
      /\ IsAccount(a[2], "escrow_config", FALSE, Prefix("escrow_config"))
      /\ IsAccount(a[3], "merchant_wallet", FALSE, ByOwn("merchant_wallet", "merchant_id"))
      /\ IsAccount(a[4], "order", FALSE, ByArg("order", "order_id"))
      /\ IsAccount(a[5], "usdc_mint", FALSE, AnyAddress)
      /\ IsAccount(a[6], "vault", FALSE, ByArg("vault", "order_id"))
      /\ IsAccount(a[7], "buyer_token_account", FALSE, AnyAddress)
      /\ IsAccount(a[8], "token_program", FALSE, ProgramAt("token"))
      /\ IsAccount(a[9], "system_program", FALSE, ProgramAt("system"))
      /\ f[1] = <<"order_id", "u64">> /\ f[2] = <<"amount", "u64">> /\ f[3] = <<"quote_hash", "bytes32">>
      /\ f[4] = <<"pickup_code_hash", "bytes32">> /\ f[5] = <<"release_deadline", "i64">>
<1> DEFINE a == FundIx.accounts
           f == FundIx.args
<1>1. /\ Len(a) = 9 /\ DOMAIN a = 1..9
      /\ a[1] = Pays("buyer") /\ a[2] = EscrowConfigAt({"writable"}) /\ a[3] = MerchantWalletRead
      /\ a[4] = OrderWritten /\ a[5] = Reads("usdc_mint") /\ a[6] = VaultWritten
      /\ a[7] = Writes("buyer_token_account") /\ a[8] = TokenProgram /\ a[9] = SystemProgram
      /\ Len(f) = 5 /\ DOMAIN f = 1..5 /\ f[1] = <<"order_id", "u64">> /\ f[2] = <<"amount", "u64">>
      /\ f[3] = <<"quote_hash", "bytes32">> /\ f[4] = <<"pickup_code_hash", "bytes32">>
      /\ f[5] = <<"release_deadline", "i64">>
  BY DEF FundIx, Instruction
<1> HIDE DEF a, f
<1>2. /\ IsAccount(a[1], "buyer", TRUE, AnyAddress)
      /\ IsAccount(a[2], "escrow_config", FALSE, Prefix("escrow_config"))
      /\ IsAccount(a[3], "merchant_wallet", FALSE, ByOwn("merchant_wallet", "merchant_id"))
      /\ IsAccount(a[4], "order", FALSE, ByArg("order", "order_id"))
      /\ IsAccount(a[5], "usdc_mint", FALSE, AnyAddress)
      /\ IsAccount(a[6], "vault", FALSE, ByArg("vault", "order_id"))
      /\ IsAccount(a[7], "buyer_token_account", FALSE, AnyAddress)
      /\ IsAccount(a[8], "token_program", FALSE, ProgramAt("token"))
      /\ IsAccount(a[9], "system_program", FALSE, ProgramAt("system"))
  <2>1. IsAccount(a[1], "buyer", TRUE, AnyAddress)
    BY <1>1, CallerAccounts
  <2>2. IsAccount(a[2], "escrow_config", FALSE, Prefix("escrow_config"))
    BY <1>1, SeededAccounts
  <2>3. IsAccount(a[3], "merchant_wallet", FALSE, ByOwn("merchant_wallet", "merchant_id"))
    BY <1>1, SeededAccounts
  <2>4. IsAccount(a[4], "order", FALSE, ByArg("order", "order_id"))
    BY <1>1, SeededAccounts
  <2>5. IsAccount(a[5], "usdc_mint", FALSE, AnyAddress)
    BY <1>1, CallerAccounts
  <2>6. IsAccount(a[6], "vault", FALSE, ByArg("vault", "order_id"))
    BY <1>1, SeededAccounts
  <2>7. IsAccount(a[7], "buyer_token_account", FALSE, AnyAddress)
    BY <1>1, CallerAccounts
  <2>8. IsAccount(a[8], "token_program", FALSE, ProgramAt("token"))
    BY <1>1, SeededAccounts
  <2>9. IsAccount(a[9], "system_program", FALSE, ProgramAt("system"))
    BY <1>1, SeededAccounts
  <2> QED
    BY <2>1, <2>2, <2>3, <2>4, <2>5, <2>6, <2>7, <2>8, <2>9
<1>3. \A i \in 1..9 : Flagged(a[i])
  <2>1. /\ Flagged(a[1]) /\ Flagged(a[2]) /\ Flagged(a[3]) /\ Flagged(a[4]) /\ Flagged(a[5])
        /\ Flagged(a[6]) /\ Flagged(a[7]) /\ Flagged(a[8]) /\ Flagged(a[9])
    BY <1>2, AccountFlags
  <2> QED
    BY <2>1
<1>4. \A i, j \in 1..9 : a[i].name = a[j].name => i = j
  BY <1>2 DEF IsAccount
<1>5. WellFormed(FundIx)
  BY <1>1, <1>3, <1>4 DEF WellFormed, Numbered, Flagged, a, f
<1> QED
  BY <1>1, <1>2, <1>5 DEF a, f

LEMMA SetMerchantWalletTable ==
  LET a == SetMerchantWalletIx.accounts
      f == SetMerchantWalletIx.args
  IN  /\ WellFormed(SetMerchantWalletIx) /\ Len(a) = 4 /\ Len(f) = 2
      /\ IsAccount(a[1], "authority", TRUE, AnyAddress)
      /\ IsAccount(a[2], "escrow_config", FALSE, Prefix("escrow_config"))
      /\ IsAccount(a[3], "merchant_wallet", FALSE, ByArg("merchant_wallet", "merchant_id"))
      /\ IsAccount(a[4], "system_program", FALSE, ProgramAt("system"))
      /\ f[1] = <<"merchant_id", "u64">> /\ f[2] = <<"wallet", "pubkey">>
<1> DEFINE a == SetMerchantWalletIx.accounts
           f == SetMerchantWalletIx.args
<1>1. /\ Len(a) = 4 /\ DOMAIN a = 1..4
      /\ a[1] = Pays("authority") /\ a[2] = EscrowConfigAt({})
      /\ a[3] = Account("merchant_wallet", {"writable"}, ByArg("merchant_wallet", "merchant_id"))
      /\ a[4] = SystemProgram
      /\ Len(f) = 2 /\ DOMAIN f = 1..2 /\ f[1] = <<"merchant_id", "u64">> /\ f[2] = <<"wallet", "pubkey">>
  BY DEF SetMerchantWalletIx, Instruction
<1> HIDE DEF a, f
<1>2. /\ IsAccount(a[1], "authority", TRUE, AnyAddress)
      /\ IsAccount(a[2], "escrow_config", FALSE, Prefix("escrow_config"))
      /\ IsAccount(a[3], "merchant_wallet", FALSE, ByArg("merchant_wallet", "merchant_id"))
      /\ IsAccount(a[4], "system_program", FALSE, ProgramAt("system"))
  <2>1. IsAccount(a[1], "authority", TRUE, AnyAddress)
    BY <1>1, CallerAccounts
  <2>2. IsAccount(a[2], "escrow_config", FALSE, Prefix("escrow_config"))
    BY <1>1, SeededAccounts
  <2>3. IsAccount(a[3], "merchant_wallet", FALSE, ByArg("merchant_wallet", "merchant_id"))
    BY <1>1, SeededAccounts
  <2>4. IsAccount(a[4], "system_program", FALSE, ProgramAt("system"))
    BY <1>1, SeededAccounts
  <2> QED
    BY <2>1, <2>2, <2>3, <2>4
<1>3. \A i \in 1..4 : Flagged(a[i])
  <2>1. Flagged(a[1]) /\ Flagged(a[2]) /\ Flagged(a[3]) /\ Flagged(a[4])
    BY <1>2, AccountFlags
  <2> QED
    BY <2>1
<1>4. \A i, j \in 1..4 : a[i].name = a[j].name => i = j
  BY <1>2 DEF IsAccount
<1>5. WellFormed(SetMerchantWalletIx)
  BY <1>1, <1>3, <1>4 DEF WellFormed, Numbered, Flagged, a, f
<1> QED
  BY <1>1, <1>2, <1>5 DEF a, f

LEMMA ListMerchantTable ==
  LET a == ListMerchantIx.accounts
      f == ListMerchantIx.args
  IN  /\ WellFormed(ListMerchantIx) /\ Len(a) = 4 /\ Len(f) = 8
      /\ IsAccount(a[1], "authority", TRUE, AnyAddress)
      /\ IsAccount(a[2], "directory_state", FALSE, Prefix("directory_state"))
      /\ IsAccount(a[3], "merchant", FALSE, ByArg("merchant", "merchant_id"))
      /\ IsAccount(a[4], "system_program", FALSE, ProgramAt("system"))
      /\ f[1] = <<"merchant_id", "u64">> /\ f[2] = <<"agent_id", "u64">> /\ f[3] = <<"name", "string">>
      /\ f[4] = <<"category", "string">> /\ f[5] = <<"endpoint_uri", "string">> /\ f[6] = <<"wallet", "pubkey">>
      /\ f[7] = <<"geo_hash", "bytes32">> /\ f[8] = <<"attestation_uid", "bytes32">>
<1> DEFINE a == ListMerchantIx.accounts
           f == ListMerchantIx.args
<1>1. /\ Len(a) = 4 /\ DOMAIN a = 1..4
      /\ a[1] = Pays("authority") /\ a[2] = DirectoryStateAt({"writable"}) /\ a[3] = MerchantWritten
      /\ a[4] = SystemProgram
      /\ Len(f) = 8 /\ DOMAIN f = 1..8 /\ f[1] = <<"merchant_id", "u64">> /\ f[2] = <<"agent_id", "u64">>
      /\ f[3] = <<"name", "string">> /\ f[4] = <<"category", "string">> /\ f[5] = <<"endpoint_uri", "string">>
      /\ f[6] = <<"wallet", "pubkey">> /\ f[7] = <<"geo_hash", "bytes32">>
      /\ f[8] = <<"attestation_uid", "bytes32">>
  BY DEF ListMerchantIx, Instruction
<1> HIDE DEF a, f
<1>2. /\ IsAccount(a[1], "authority", TRUE, AnyAddress)
      /\ IsAccount(a[2], "directory_state", FALSE, Prefix("directory_state"))
      /\ IsAccount(a[3], "merchant", FALSE, ByArg("merchant", "merchant_id"))
      /\ IsAccount(a[4], "system_program", FALSE, ProgramAt("system"))
  <2>1. IsAccount(a[1], "authority", TRUE, AnyAddress)
    BY <1>1, CallerAccounts
  <2>2. IsAccount(a[2], "directory_state", FALSE, Prefix("directory_state"))
    BY <1>1, SeededAccounts
  <2>3. IsAccount(a[3], "merchant", FALSE, ByArg("merchant", "merchant_id"))
    BY <1>1, SeededAccounts
  <2>4. IsAccount(a[4], "system_program", FALSE, ProgramAt("system"))
    BY <1>1, SeededAccounts
  <2> QED
    BY <2>1, <2>2, <2>3, <2>4
<1>3. \A i \in 1..4 : Flagged(a[i])
  <2>1. Flagged(a[1]) /\ Flagged(a[2]) /\ Flagged(a[3]) /\ Flagged(a[4])
    BY <1>2, AccountFlags
  <2> QED
    BY <2>1
<1>4. \A i, j \in 1..4 : a[i].name = a[j].name => i = j
  BY <1>2 DEF IsAccount
<1>5. WellFormed(ListMerchantIx)
  BY <1>1, <1>3, <1>4 DEF WellFormed, Numbered, Flagged, a, f
<1> QED
  BY <1>1, <1>2, <1>5 DEF a, f

LEMMA RefundTable ==
  LET a == RefundIx.accounts
      f == RefundIx.args
  IN  /\ WellFormed(RefundIx) /\ Len(a) = 6 /\ Len(f) = 1
      /\ IsAccount(a[1], "caller", TRUE, AnyAddress)
      /\ IsAccount(a[2], "order", FALSE, ByArg("order", "order_id"))
      /\ IsAccount(a[3], "vault", FALSE, ByArg("vault", "order_id"))
      /\ IsAccount(a[4], "buyer_token_account", FALSE, AnyAddress)
      /\ IsAccount(a[5], "buyer", FALSE, AnyAddress)
      /\ IsAccount(a[6], "token_program", FALSE, ProgramAt("token"))
      /\ f[1] = <<"order_id", "u64">>
<1> DEFINE a == RefundIx.accounts
           f == RefundIx.args
<1>1. /\ Len(a) = 6 /\ DOMAIN a = 1..6
      /\ a[1] = Signs("caller") /\ a[2] = OrderWritten /\ a[3] = VaultWritten
      /\ a[4] = Writes("buyer_token_account") /\ a[5] = Writes("buyer") /\ a[6] = TokenProgram
      /\ Len(f) = 1 /\ DOMAIN f = 1..1 /\ f[1] = <<"order_id", "u64">>
  BY DEF RefundIx, Instruction, OrderIdOnly
<1> HIDE DEF a, f
<1>2. /\ IsAccount(a[1], "caller", TRUE, AnyAddress)
      /\ IsAccount(a[2], "order", FALSE, ByArg("order", "order_id"))
      /\ IsAccount(a[3], "vault", FALSE, ByArg("vault", "order_id"))
      /\ IsAccount(a[4], "buyer_token_account", FALSE, AnyAddress)
      /\ IsAccount(a[5], "buyer", FALSE, AnyAddress)
      /\ IsAccount(a[6], "token_program", FALSE, ProgramAt("token"))
  <2>1. IsAccount(a[1], "caller", TRUE, AnyAddress)
    BY <1>1, CallerAccounts
  <2>2. IsAccount(a[2], "order", FALSE, ByArg("order", "order_id"))
    BY <1>1, SeededAccounts
  <2>3. IsAccount(a[3], "vault", FALSE, ByArg("vault", "order_id"))
    BY <1>1, SeededAccounts
  <2>4. IsAccount(a[4], "buyer_token_account", FALSE, AnyAddress)
    BY <1>1, CallerAccounts
  <2>5. IsAccount(a[5], "buyer", FALSE, AnyAddress)
    BY <1>1, CallerAccounts
  <2>6. IsAccount(a[6], "token_program", FALSE, ProgramAt("token"))
    BY <1>1, SeededAccounts
  <2> QED
    BY <2>1, <2>2, <2>3, <2>4, <2>5, <2>6
<1>3. \A i \in 1..6 : Flagged(a[i])
  <2>1. /\ Flagged(a[1]) /\ Flagged(a[2]) /\ Flagged(a[3]) /\ Flagged(a[4]) /\ Flagged(a[5])
        /\ Flagged(a[6])
    BY <1>2, AccountFlags
  <2> QED
    BY <2>1
<1>4. \A i, j \in 1..6 : a[i].name = a[j].name => i = j
  BY <1>2 DEF IsAccount
<1>5. WellFormed(RefundIx)
  BY <1>1, <1>3, <1>4 DEF WellFormed, Numbered, Flagged, a, f
<1> QED
  BY <1>1, <1>2, <1>5 DEF a, f

LEMMA UserReleaseTable ==
  LET a == UserReleaseIx.accounts
      f == UserReleaseIx.args
  IN  /\ WellFormed(UserReleaseIx) /\ Len(a) = 6 /\ Len(f) = 1
      /\ IsAccount(a[1], "buyer", TRUE, AnyAddress)
      /\ IsAccount(a[2], "order", FALSE, ByArg("order", "order_id"))
      /\ IsAccount(a[3], "vault", FALSE, ByArg("vault", "order_id"))
      /\ IsAccount(a[4], "merchant_wallet", FALSE, ByOwn("merchant_wallet", "merchant_id"))
      /\ IsAccount(a[5], "merchant_token_account", FALSE, AnyAddress)
      /\ IsAccount(a[6], "token_program", FALSE, ProgramAt("token"))
      /\ f[1] = <<"order_id", "u64">>
<1> DEFINE a == UserReleaseIx.accounts
           f == UserReleaseIx.args
<1>1. /\ Len(a) = 6 /\ DOMAIN a = 1..6
      /\ a[1] = Signs("buyer") /\ a[2] = OrderWritten /\ a[3] = VaultWritten /\ a[4] = MerchantWalletRead
      /\ a[5] = Writes("merchant_token_account") /\ a[6] = TokenProgram
      /\ Len(f) = 1 /\ DOMAIN f = 1..1 /\ f[1] = <<"order_id", "u64">>
  BY DEF UserReleaseIx, Instruction, OrderIdOnly
<1> HIDE DEF a, f
<1>2. /\ IsAccount(a[1], "buyer", TRUE, AnyAddress)
      /\ IsAccount(a[2], "order", FALSE, ByArg("order", "order_id"))
      /\ IsAccount(a[3], "vault", FALSE, ByArg("vault", "order_id"))
      /\ IsAccount(a[4], "merchant_wallet", FALSE, ByOwn("merchant_wallet", "merchant_id"))
      /\ IsAccount(a[5], "merchant_token_account", FALSE, AnyAddress)
      /\ IsAccount(a[6], "token_program", FALSE, ProgramAt("token"))
  <2>1. IsAccount(a[1], "buyer", TRUE, AnyAddress)
    BY <1>1, CallerAccounts
  <2>2. IsAccount(a[2], "order", FALSE, ByArg("order", "order_id"))
    BY <1>1, SeededAccounts
  <2>3. IsAccount(a[3], "vault", FALSE, ByArg("vault", "order_id"))
    BY <1>1, SeededAccounts
  <2>4. IsAccount(a[4], "merchant_wallet", FALSE, ByOwn("merchant_wallet", "merchant_id"))
    BY <1>1, SeededAccounts
  <2>5. IsAccount(a[5], "merchant_token_account", FALSE, AnyAddress)
    BY <1>1, CallerAccounts
  <2>6. IsAccount(a[6], "token_program", FALSE, ProgramAt("token"))
    BY <1>1, SeededAccounts
  <2> QED
    BY <2>1, <2>2, <2>3, <2>4, <2>5, <2>6
<1>3. \A i \in 1..6 : Flagged(a[i])
  <2>1. /\ Flagged(a[1]) /\ Flagged(a[2]) /\ Flagged(a[3]) /\ Flagged(a[4]) /\ Flagged(a[5])
        /\ Flagged(a[6])
    BY <1>2, AccountFlags
  <2> QED
    BY <2>1
<1>4. \A i, j \in 1..6 : a[i].name = a[j].name => i = j
  BY <1>2 DEF IsAccount
<1>5. WellFormed(UserReleaseIx)
  BY <1>1, <1>3, <1>4 DEF WellFormed, Numbered, Flagged, a, f
<1> QED
  BY <1>1, <1>2, <1>5 DEF a, f

LEMMA MarkPreparingTable ==
  LET a == MarkPreparingIx.accounts
      f == MarkPreparingIx.args
  IN  /\ WellFormed(MarkPreparingIx) /\ Len(a) = 3 /\ Len(f) = 1
      /\ IsAccount(a[1], "merchant", TRUE, AnyAddress)
      /\ IsAccount(a[2], "merchant_wallet", FALSE, ByOwn("merchant_wallet", "merchant_id"))
      /\ IsAccount(a[3], "order", FALSE, ByArg("order", "order_id"))
      /\ f[1] = <<"order_id", "u64">>
<1> DEFINE a == MarkPreparingIx.accounts
           f == MarkPreparingIx.args
<1>1. /\ Len(a) = 3 /\ DOMAIN a = 1..3
      /\ a[1] = Signs("merchant") /\ a[2] = MerchantWalletRead /\ a[3] = OrderWritten
      /\ Len(f) = 1 /\ DOMAIN f = 1..1 /\ f[1] = <<"order_id", "u64">>
  BY DEF MarkPreparingIx, Instruction, OrderIdOnly
<1> HIDE DEF a, f
<1>2. /\ IsAccount(a[1], "merchant", TRUE, AnyAddress)
      /\ IsAccount(a[2], "merchant_wallet", FALSE, ByOwn("merchant_wallet", "merchant_id"))
      /\ IsAccount(a[3], "order", FALSE, ByArg("order", "order_id"))
  <2>1. IsAccount(a[1], "merchant", TRUE, AnyAddress)
    BY <1>1, CallerAccounts
  <2>2. IsAccount(a[2], "merchant_wallet", FALSE, ByOwn("merchant_wallet", "merchant_id"))
    BY <1>1, SeededAccounts
  <2>3. IsAccount(a[3], "order", FALSE, ByArg("order", "order_id"))
    BY <1>1, SeededAccounts
  <2> QED
    BY <2>1, <2>2, <2>3
<1>3. \A i \in 1..3 : Flagged(a[i])
  <2>1. Flagged(a[1]) /\ Flagged(a[2]) /\ Flagged(a[3])
    BY <1>2, AccountFlags
  <2> QED
    BY <2>1
<1>4. \A i, j \in 1..3 : a[i].name = a[j].name => i = j
  BY <1>2 DEF IsAccount
<1>5. WellFormed(MarkPreparingIx)
  BY <1>1, <1>3, <1>4 DEF WellFormed, Numbered, Flagged, a, f
<1> QED
  BY <1>1, <1>2, <1>5 DEF a, f

LEMMA MarkReadyTable ==
  LET a == MarkReadyIx.accounts
      f == MarkReadyIx.args
  IN  /\ WellFormed(MarkReadyIx) /\ Len(a) = 3 /\ Len(f) = 1
      /\ IsAccount(a[1], "merchant", TRUE, AnyAddress)
      /\ IsAccount(a[2], "merchant_wallet", FALSE, ByOwn("merchant_wallet", "merchant_id"))
      /\ IsAccount(a[3], "order", FALSE, ByArg("order", "order_id"))
      /\ f[1] = <<"order_id", "u64">>
<1> DEFINE a == MarkReadyIx.accounts
           f == MarkReadyIx.args
<1>1. /\ Len(a) = 3 /\ DOMAIN a = 1..3
      /\ a[1] = Signs("merchant") /\ a[2] = MerchantWalletRead /\ a[3] = OrderWritten
      /\ Len(f) = 1 /\ DOMAIN f = 1..1 /\ f[1] = <<"order_id", "u64">>
  BY DEF MarkReadyIx, Instruction, OrderIdOnly
<1> HIDE DEF a, f
<1>2. /\ IsAccount(a[1], "merchant", TRUE, AnyAddress)
      /\ IsAccount(a[2], "merchant_wallet", FALSE, ByOwn("merchant_wallet", "merchant_id"))
      /\ IsAccount(a[3], "order", FALSE, ByArg("order", "order_id"))
  <2>1. IsAccount(a[1], "merchant", TRUE, AnyAddress)
    BY <1>1, CallerAccounts
  <2>2. IsAccount(a[2], "merchant_wallet", FALSE, ByOwn("merchant_wallet", "merchant_id"))
    BY <1>1, SeededAccounts
  <2>3. IsAccount(a[3], "order", FALSE, ByArg("order", "order_id"))
    BY <1>1, SeededAccounts
  <2> QED
    BY <2>1, <2>2, <2>3
<1>3. \A i \in 1..3 : Flagged(a[i])
  <2>1. Flagged(a[1]) /\ Flagged(a[2]) /\ Flagged(a[3])
    BY <1>2, AccountFlags
  <2> QED
    BY <2>1
<1>4. \A i, j \in 1..3 : a[i].name = a[j].name => i = j
  BY <1>2 DEF IsAccount
<1>5. WellFormed(MarkReadyIx)
  BY <1>1, <1>3, <1>4 DEF WellFormed, Numbered, Flagged, a, f
<1> QED
  BY <1>1, <1>2, <1>5 DEF a, f

LEMMA ConfirmPickupTable ==
  LET a == ConfirmPickupIx.accounts
      f == ConfirmPickupIx.args
  IN  /\ WellFormed(ConfirmPickupIx) /\ Len(a) = 7 /\ Len(f) = 2
      /\ IsAccount(a[1], "merchant", TRUE, AnyAddress)
      /\ IsAccount(a[2], "merchant_wallet", FALSE, ByOwn("merchant_wallet", "merchant_id"))
      /\ IsAccount(a[3], "order", FALSE, ByArg("order", "order_id"))
      /\ IsAccount(a[4], "vault", FALSE, ByArg("vault", "order_id"))
      /\ IsAccount(a[5], "merchant_token_account", FALSE, AnyAddress)
      /\ IsAccount(a[6], "buyer", FALSE, AnyAddress)
      /\ IsAccount(a[7], "token_program", FALSE, ProgramAt("token"))
      /\ f[1] = <<"order_id", "u64">> /\ f[2] = <<"code", "string">>
<1> DEFINE a == ConfirmPickupIx.accounts
           f == ConfirmPickupIx.args
<1>1. /\ Len(a) = 7 /\ DOMAIN a = 1..7
      /\ a[1] = Signs("merchant") /\ a[2] = MerchantWalletRead /\ a[3] = OrderWritten /\ a[4] = VaultWritten
      /\ a[5] = Writes("merchant_token_account") /\ a[6] = Writes("buyer") /\ a[7] = TokenProgram
      /\ Len(f) = 2 /\ DOMAIN f = 1..2 /\ f[1] = <<"order_id", "u64">> /\ f[2] = <<"code", "string">>
  BY DEF ConfirmPickupIx, Instruction
<1> HIDE DEF a, f
<1>2. /\ IsAccount(a[1], "merchant", TRUE, AnyAddress)
      /\ IsAccount(a[2], "merchant_wallet", FALSE, ByOwn("merchant_wallet", "merchant_id"))
      /\ IsAccount(a[3], "order", FALSE, ByArg("order", "order_id"))
      /\ IsAccount(a[4], "vault", FALSE, ByArg("vault", "order_id"))
      /\ IsAccount(a[5], "merchant_token_account", FALSE, AnyAddress)
      /\ IsAccount(a[6], "buyer", FALSE, AnyAddress)
      /\ IsAccount(a[7], "token_program", FALSE, ProgramAt("token"))
  <2>1. IsAccount(a[1], "merchant", TRUE, AnyAddress)
    BY <1>1, CallerAccounts
  <2>2. IsAccount(a[2], "merchant_wallet", FALSE, ByOwn("merchant_wallet", "merchant_id"))
    BY <1>1, SeededAccounts
  <2>3. IsAccount(a[3], "order", FALSE, ByArg("order", "order_id"))
    BY <1>1, SeededAccounts
  <2>4. IsAccount(a[4], "vault", FALSE, ByArg("vault", "order_id"))
    BY <1>1, SeededAccounts
  <2>5. IsAccount(a[5], "merchant_token_account", FALSE, AnyAddress)
    BY <1>1, CallerAccounts
  <2>6. IsAccount(a[6], "buyer", FALSE, AnyAddress)
    BY <1>1, CallerAccounts
  <2>7. IsAccount(a[7], "token_program", FALSE, ProgramAt("token"))
    BY <1>1, SeededAccounts
  <2> QED
    BY <2>1, <2>2, <2>3, <2>4, <2>5, <2>6, <2>7
<1>3. \A i \in 1..7 : Flagged(a[i])
  <2>1. /\ Flagged(a[1]) /\ Flagged(a[2]) /\ Flagged(a[3]) /\ Flagged(a[4]) /\ Flagged(a[5])
        /\ Flagged(a[6]) /\ Flagged(a[7])
    BY <1>2, AccountFlags
  <2> QED
    BY <2>1
<1>4. \A i, j \in 1..7 : a[i].name = a[j].name => i = j
  BY <1>2 DEF IsAccount
<1>5. WellFormed(ConfirmPickupIx)
  BY <1>1, <1>3, <1>4 DEF WellFormed, Numbered, Flagged, a, f
<1> QED
  BY <1>1, <1>2, <1>5 DEF a, f

LEMMA CreateReceiptTable ==
  LET a == CreateReceiptIx.accounts
      f == CreateReceiptIx.args
  IN  /\ WellFormed(CreateReceiptIx) /\ Len(a) = 4 /\ Len(f) = 8
      /\ IsAccount(a[1], "relayer", TRUE, AnyAddress)
      /\ IsAccount(a[2], "receipt_config", FALSE, Prefix("receipt_config"))
      /\ IsAccount(a[3], "receipt", FALSE, ByArg("receipt", "receipt_id"))
      /\ IsAccount(a[4], "system_program", FALSE, ProgramAt("system"))
      /\ f[1] = <<"receipt_id", "u64">> /\ f[2] = <<"task_ref", "string">>
      /\ f[3] = <<"total_research_micro_usdc", "u64">> /\ f[4] = <<"total_main_micro_usdc", "u64">>
      /\ f[5] = <<"completed_items", "u64">> /\ f[6] = <<"total_items", "u64">>
      /\ f[7] = <<"metadata_uri", "string">> /\ f[8] = <<"metadata_hash", "bytes32">>
<1> DEFINE a == CreateReceiptIx.accounts
           f == CreateReceiptIx.args
<1>1. /\ Len(a) = 4 /\ DOMAIN a = 1..4
      /\ a[1] = Pays("relayer") /\ a[2] = ReceiptConfigAt({"writable"}) /\ a[3] = ReceiptAt({"writable"})
      /\ a[4] = SystemProgram
      /\ Len(f) = 8 /\ DOMAIN f = 1..8 /\ f[1] = <<"receipt_id", "u64">> /\ f[2] = <<"task_ref", "string">>
      /\ f[3] = <<"total_research_micro_usdc", "u64">> /\ f[4] = <<"total_main_micro_usdc", "u64">>
      /\ f[5] = <<"completed_items", "u64">> /\ f[6] = <<"total_items", "u64">>
      /\ f[7] = <<"metadata_uri", "string">> /\ f[8] = <<"metadata_hash", "bytes32">>
  BY DEF CreateReceiptIx, Instruction
<1> HIDE DEF a, f
<1>2. /\ IsAccount(a[1], "relayer", TRUE, AnyAddress)
      /\ IsAccount(a[2], "receipt_config", FALSE, Prefix("receipt_config"))
      /\ IsAccount(a[3], "receipt", FALSE, ByArg("receipt", "receipt_id"))
      /\ IsAccount(a[4], "system_program", FALSE, ProgramAt("system"))
  <2>1. IsAccount(a[1], "relayer", TRUE, AnyAddress)
    BY <1>1, CallerAccounts
  <2>2. IsAccount(a[2], "receipt_config", FALSE, Prefix("receipt_config"))
    BY <1>1, SeededAccounts
  <2>3. IsAccount(a[3], "receipt", FALSE, ByArg("receipt", "receipt_id"))
    BY <1>1, SeededAccounts
  <2>4. IsAccount(a[4], "system_program", FALSE, ProgramAt("system"))
    BY <1>1, SeededAccounts
  <2> QED
    BY <2>1, <2>2, <2>3, <2>4
<1>3. \A i \in 1..4 : Flagged(a[i])
  <2>1. Flagged(a[1]) /\ Flagged(a[2]) /\ Flagged(a[3]) /\ Flagged(a[4])
    BY <1>2, AccountFlags
  <2> QED
    BY <2>1
<1>4. \A i, j \in 1..4 : a[i].name = a[j].name => i = j
  BY <1>2 DEF IsAccount
<1>5. WellFormed(CreateReceiptIx)
  BY <1>1, <1>3, <1>4 DEF WellFormed, Numbered, Flagged, a, f
<1> QED
  BY <1>1, <1>2, <1>5 DEF a, f

-----------------------------------------------------------------------------
(* Addresses. *)
LEMMA AddressGiven ==
  ASSUME NEW a, NEW name, NEW signs, NEW at, IsAccount(a, name, signs, at), at.by # "fixed", NEW accounts
  PROVE  AddressOf(a, accounts) = accounts[name]
BY DEF IsAccount, AddressOf

LEMMA Seeds ==
  /\ AnyAddress.by = "caller"
  /\ \A p : Prefix(p).by = "nothing" /\ Prefix(p).prefix = p
  /\ \A p : ProgramAt(p).by = "fixed" /\ ProgramAt(p).prefix = p
  /\ \A p, x : ByArg(p, x).by = "arg" /\ ByArg(p, x).prefix = p /\ ByArg(p, x).path = x
  /\ \A p, x : ByOwn(p, x).by = "account" /\ ByOwn(p, x).prefix = p
BY DEF AnyAddress, Prefix, ProgramAt, ByArg, ByOwn

LEMMA SameNumber ==
  ASSUME NEW i \in Small, NEW j \in Small, LittleEndian(i, 8) = LittleEndian(j, 8)
  PROVE  i = j
<1>1. FromBytes(LittleEndian(i, 8)) = i /\ FromBytes(LittleEndian(j, 8)) = j
  BY Bytes
<1> QED
  BY <1>1

LEMMA SameMerchantWallet ==
  ASSUME NEW i \in Small, NEW j \in Small, MerchantWalletPda(i) = MerchantWalletPda(j)
  PROVE  i = j
BY SameNumber DEF MerchantWalletPda, Derived

LEMMA Values32 == ASSUME NEW n \in Nat PROVE [i \in 1..32 |-> n] \in [1..32 -> Nat]
OBVIOUS

-----------------------------------------------------------------------------
(* The calls of the desk and the bootstrap, as the programs read them. *)
LEMMA DirectoryInstructions == Only(MerchantDirectoryIdl, ListMerchantIx) /\ ListMerchantIx.name = "list_merchant"
<1>1. InitializeDirectoryIx.name = "initialize" /\ ListMerchantIx.name = "list_merchant" /\ SetActiveIx.name = "set_active"
  BY DEF Instruction, InitializeDirectoryIx, ListMerchantIx, SetActiveIx
<1>2. MerchantDirectoryIdl.instructions = {InitializeDirectoryIx, ListMerchantIx, SetActiveIx}
  BY DEF MerchantDirectoryIdl
<1> QED
  BY <1>1, <1>2 DEF Only

LEMMA ReceiptInstructions == Only(OrderReceiptIdl, CreateReceiptIx) /\ CreateReceiptIx.name = "create_receipt"
<1>1. CreateReceiptIx.name = "create_receipt" /\ InitializeReceiptIx.name = "initialize" /\ RecordRefundIx.name = "record_refund"
  BY DEF Instruction, CreateReceiptIx, InitializeReceiptIx, RecordRefundIx
<1>2. OrderReceiptIdl.instructions = {CreateReceiptIx, InitializeReceiptIx, RecordRefundIx}
  BY DEF OrderReceiptIdl
<1> QED
  BY <1>1, <1>2 DEF Only

LEMMA EscrowOnly ==
  /\ Only(OrderEscrowIdl, ConfirmPickupIx) /\ Only(OrderEscrowIdl, FundIx) /\ Only(OrderEscrowIdl, MarkPreparingIx)
  /\ Only(OrderEscrowIdl, MarkReadyIx) /\ Only(OrderEscrowIdl, RefundIx) /\ Only(OrderEscrowIdl, ResolveIx)
  /\ Only(OrderEscrowIdl, SetMerchantWalletIx) /\ Only(OrderEscrowIdl, UserReleaseIx)
<1>1. {ConfirmPickupIx, FundIx, MarkPreparingIx, MarkReadyIx, RefundIx, ResolveIx, SetMerchantWalletIx, UserReleaseIx}
        \subseteq OrderEscrowIdl.instructions
  BY DEF OrderEscrowIdl
<1> QED
  BY <1>1, EscrowInstructions

LEMMA ListArrives ==
  ASSUME NEW id \in Small, NEW agent \in Small, NEW w \in Nat, NEW d \in ToDirectory(ListCall(id, agent, w))
  PROVE  d.args.merchant_id = id /\ d.args.wallet = Wallet(w)
<1> DEFINE two == Name \o Name
           sevens == [i \in 1..32 |-> 7]
           zeros == [i \in 1..32 |-> 0]
           key == Wallet(w)
           accounts == [authority |-> Wallet(Relayer), directory_state |-> DirectoryStatePda, merchant |-> MerchantPda(id)]
           args == [merchant_id |-> id, agent_id |-> agent, name |-> Name, category |-> Name, endpoint_uri |-> two,
                    wallet |-> key, geo_hash |-> sevens, attestation_uid |-> zeros]
           f == ListMerchantIx.args
<1>1. WellTyped("u64", id) /\ WellTyped("u64", agent)
  BY DEF WellTyped, Types
<1>2. WellTyped("string", Name) /\ WellTyped("string", two)
  <2>1. Name \in Seq(Nat) /\ Len(Name) \in Small
    BY DEF Name, Small
  <2>2. two \in Seq(Nat) /\ Len(two) \in Small
    BY DEF Name, Small
  <2> QED
    BY <2>1, <2>2 DEF WellTyped, Types
<1>3. WellTyped("pubkey", key)
  BY DEF WellTyped, Types
<1>4. WellTyped("bytes32", sevens) /\ WellTyped("bytes32", zeros)
  BY Values32 DEF WellTyped, Types
<1>5. ListCall(id, agent, w) = BuildInstruction(MerchantDirectoryIdl, "merchant_directory", "list_merchant", accounts, args)
  BY DEF ListCall
<1> HIDE DEF two, sevens, zeros, key, accounts
<1>6. /\ args.merchant_id = id /\ args.agent_id = agent /\ args.name = Name /\ args.category = Name
      /\ args.endpoint_uri = two /\ args.wallet = key /\ args.geo_hash = sevens /\ args.attestation_uid = zeros
  OBVIOUS
<1> HIDE DEF args
<1>7. Fits(f, args)
  <2> DEFINE Good(k) == WellTyped(f[k][2], args[f[k][1]])
  <2>1. Len(f) = 8
    BY ListMerchantTable
  <2>2. Good(1) /\ Good(2) /\ Good(3) /\ Good(4) /\ Good(5) /\ Good(6) /\ Good(7) /\ Good(8)
    BY <1>1, <1>2, <1>3, <1>4, <1>6, ListMerchantTable
  <2> HIDE DEF Good
  <2>3. \A k \in 1..8 : Good(k)
    BY <2>2
  <2> QED
    BY <2>1, <2>3 DEF Fits, Good
<1>8. Comes(MerchantDirectoryIdl, ListMerchantIx, "merchant_directory", accounts, args, Wallet(Relayer), DOMAIN wallets, d)
  <2>1. PICK sent \in ListCall(id, agent, w) :
          d \in Delivered(MerchantDirectoryIdl, "merchant_directory", sent, Wallet(Relayer), DOMAIN wallets)
    BY Zenon DEF ToDirectory, Arriving
  <2>2. /\ Only(MerchantDirectoryIdl, ListMerchantIx) /\ WellFormed(ListMerchantIx)
        /\ sent \in BuildInstruction(MerchantDirectoryIdl, "merchant_directory", ListMerchantIx.name, accounts, args)
    BY <1>5, <2>1, DirectoryInstructions, ListMerchantTable
  <2> QED
    BY <1>7, <2>1, <2>2 DEF Comes
<1>9. d.args = Values(ListMerchantIx, args)
  BY <1>8, WhatIsRead
<1>10. {"merchant_id", "wallet"} \subseteq Names(f)
  BY ListMerchantTable DEF Names, NameOf
<1> QED
  BY <1>6, <1>9, <1>10 DEF Values, key

LEMMA SetWalletArrives ==
  ASSUME NEW id \in Small, NEW w \in Nat, NEW d \in ToEscrow(SetWalletCall(id, w))
  PROVE  d.args.merchant_id = id /\ d.args.wallet = Wallet(w)
<1> DEFINE key == Wallet(w)
           accounts == [authority |-> Wallet(Relayer), escrow_config |-> EscrowConfigPda,
                        merchant_wallet |-> MerchantWalletPda(id)]
           args == [merchant_id |-> id, wallet |-> key]
           f == SetMerchantWalletIx.args
<1>1. WellTyped("u64", id)
  BY DEF WellTyped, Types
<1>2. WellTyped("pubkey", key)
  BY DEF WellTyped, Types
<1>3. SetWalletCall(id, w) = BuildInstruction(OrderEscrowIdl, "order_escrow", "set_merchant_wallet", accounts, args)
  BY DEF SetWalletCall
<1> HIDE DEF key, accounts
<1>4. args.merchant_id = id /\ args.wallet = key
  OBVIOUS
<1> HIDE DEF args
<1>5. Fits(f, args)
  <2> DEFINE Good(k) == WellTyped(f[k][2], args[f[k][1]])
  <2>1. Len(f) = 2
    BY SetMerchantWalletTable
  <2>2. Good(1) /\ Good(2)
    BY <1>1, <1>2, <1>4, SetMerchantWalletTable
  <2> HIDE DEF Good
  <2>3. \A k \in 1..2 : Good(k)
    BY <2>2
  <2> QED
    BY <2>1, <2>3 DEF Fits, Good
<1>6. Comes(OrderEscrowIdl, SetMerchantWalletIx, "order_escrow", accounts, args, Wallet(Relayer), DOMAIN wallets, d)
  <2>1. PICK sent \in SetWalletCall(id, w) :
          d \in Delivered(OrderEscrowIdl, "order_escrow", sent, Wallet(Relayer), DOMAIN wallets)
    BY Zenon DEF ToEscrow, Arriving
  <2>2. /\ Only(OrderEscrowIdl, SetMerchantWalletIx) /\ WellFormed(SetMerchantWalletIx)
        /\ sent \in BuildInstruction(OrderEscrowIdl, "order_escrow", SetMerchantWalletIx.name, accounts, args)
    BY <1>3, <2>1, EscrowOnly, EscrowNames, SetMerchantWalletTable
  <2> QED
    BY <1>5, <2>1, <2>2 DEF Comes
<1>7. d.args = Values(SetMerchantWalletIx, args)
  BY <1>6, WhatIsRead
<1>8. {"merchant_id", "wallet"} \subseteq Names(f)
  BY SetMerchantWalletTable DEF Names, NameOf
<1> QED
  BY <1>4, <1>7, <1>8 DEF Values, key

LEMMA ResolveArrives ==
  ASSUME NEW f, f.escrow \in Small, NEW d \in ToEscrow(ResolveCall(f))
  PROVE  /\ d.args.release_to_merchant = ReleaseToMerchant(f.to)
         /\ d.accounts["merchant_wallet"] = MerchantWalletPda(f.id)
         /\ d.accounts["merchant_token_account"] = AssociatedToken(f.wallet)
         /\ d.accounts["buyer_token_account"] = AssociatedToken(Wallet(Buyer))
<1> DEFINE id == f.escrow
           flag == ReleaseToMerchant(f.to)
           at == MerchantWalletPda(f.id)
           theirs == AssociatedToken(f.wallet)
           back == AssociatedToken(Wallet(Buyer))
           accounts == [arbiter |-> Wallet(Relayer), escrow_config |-> EscrowConfigPda, order |-> OrderPda(id),
                        vault |-> VaultPda(id), buyer_token_account |-> back, merchant_wallet |-> at,
                        merchant_token_account |-> theirs, buyer |-> Wallet(Buyer)]
           args == [order_id |-> id, release_to_merchant |-> flag]
           g == ResolveIx.args
           a == ResolveIx.accounts
<1>1. WellTyped("u64", id)
  BY DEF WellTyped, Types
<1>2. WellTyped("bool", flag)
  BY DEF WellTyped, Types, ReleaseToMerchant
<1>3. ResolveCall(f) = BuildInstruction(OrderEscrowIdl, "order_escrow", "resolve", accounts, args)
  BY Zenon DEF ResolveCall
<1> HIDE DEF id, flag, at, theirs, back
<1>4. args.order_id = id /\ args.release_to_merchant = flag
  OBVIOUS
<1>5. /\ accounts["merchant_wallet"] = at /\ accounts["merchant_token_account"] = theirs
      /\ accounts["buyer_token_account"] = back
  OBVIOUS
<1> HIDE DEF args, accounts
<1>6. Fits(g, args)
  <2> DEFINE Good(k) == WellTyped(g[k][2], args[g[k][1]])
  <2>1. Len(g) = 2
    BY ResolveTable
  <2>2. Good(1) /\ Good(2)
    BY <1>1, <1>2, <1>4, ResolveTable
  <2> HIDE DEF Good
  <2>3. \A k \in 1..2 : Good(k)
    BY <2>2
  <2> QED
    BY <2>1, <2>3 DEF Fits, Good
<1>7. Comes(OrderEscrowIdl, ResolveIx, "order_escrow", accounts, args, Wallet(Relayer), DOMAIN wallets, d)
  <2>1. PICK sent \in ResolveCall(f) :
          d \in Delivered(OrderEscrowIdl, "order_escrow", sent, Wallet(Relayer), DOMAIN wallets)
    BY Zenon DEF ToEscrow, Arriving
  <2>2. /\ Only(OrderEscrowIdl, ResolveIx) /\ WellFormed(ResolveIx)
        /\ sent \in BuildInstruction(OrderEscrowIdl, "order_escrow", ResolveIx.name, accounts, args)
    BY <1>3, <2>1, EscrowOnly, EscrowNames, ResolveTable
  <2> QED
    BY <1>6, <2>1, <2>2 DEF Comes
<1>8. d.args = Values(ResolveIx, args) /\ Addressed(ResolveIx, accounts, d)
  BY <1>7, WhatIsRead
<1>9. d.args.release_to_merchant = flag
  <2>1. "release_to_merchant" \in Names(g)
    BY ResolveTable DEF Names, NameOf
  <2> QED
    BY <1>4, <1>8, <2>1 DEF Values
<1>10. /\ Len(a) = 9
       /\ IsAccount(a[5], "buyer_token_account", FALSE, AnyAddress)
       /\ IsAccount(a[6], "merchant_wallet", FALSE, ByOwn("merchant_wallet", "merchant_id"))
       /\ IsAccount(a[7], "merchant_token_account", FALSE, AnyAddress)
  BY ResolveTable
<1>11. AnyAddress.by # "fixed" /\ ByOwn("merchant_wallet", "merchant_id").by # "fixed"
  BY Seeds
<1>12. \A j \in 1..9 : d.accounts[a[j].name] = AddressOf(a[j], accounts)
  BY <1>8, <1>10 DEF Addressed
<1> HIDE DEF a
<1>13. /\ a[5].name = "buyer_token_account" /\ a[6].name = "merchant_wallet"
       /\ a[7].name = "merchant_token_account"
  BY <1>10 DEF IsAccount
<1>14. AddressOf(a[5], accounts) = accounts["buyer_token_account"]
  BY <1>10, <1>11, AddressGiven
<1>15. AddressOf(a[6], accounts) = accounts["merchant_wallet"]
  BY <1>10, <1>11, AddressGiven
<1>16. AddressOf(a[7], accounts) = accounts["merchant_token_account"]
  BY <1>10, <1>11, AddressGiven
<1>17. /\ d.accounts["buyer_token_account"] = back /\ d.accounts["merchant_wallet"] = at
       /\ d.accounts["merchant_token_account"] = theirs
  BY <1>5, <1>12, <1>13, <1>14, <1>15, <1>16
<1> QED
  BY <1>9, <1>17 DEF flag, at, theirs, back

LEMMA DirectoryIsRead ==
  ASSUME Relayer \in Nat, NEW n \in Small,
         NEW state \in DecodeAccountData(MerchantDirectoryIdl, "DirectoryState",
                   Stored(DirectoryStateFields, "DirectoryState",
                          [authority |-> Wallet(Relayer), next_merchant_id |-> n, bump |-> 255]))
  PROVE  state.next_merchant_id = n
<1> DEFINE key == Wallet(Relayer)
           values == [authority |-> key, next_merchant_id |-> n, bump |-> 255]
           f == DirectoryStateFields
<1>1. WellTyped("pubkey", key) /\ WellTyped("u64", n) /\ WellTyped("u8", 255)
  BY DEF WellTyped, Types
<1>2. /\ f[1] = <<"authority", "pubkey">> /\ f[2] = <<"next_merchant_id", "u64">> /\ f[3] = <<"bump", "u8">>
      /\ Len(f) = 3
  BY DEF DirectoryStateFields
<1> HIDE DEF key
<1>3. values.authority = key /\ values.next_merchant_id = n /\ values.bump = 255
  OBVIOUS
<1> HIDE DEF values, f
<1>4. Fits(f, values)
  <2> DEFINE Good(k) == WellTyped(f[k][2], values[f[k][1]])
  <2>1. Good(1) /\ Good(2) /\ Good(3)
    BY <1>1, <1>2, <1>3
  <2> HIDE DEF Good
  <2>2. \A k \in 1..3 : Good(k)
    BY <2>1
  <2> QED
    BY <1>2, <2>2 DEF Fits, Good
<1>5. {x \in MerchantDirectoryIdl.types : x[1] = "DirectoryState"} = {<<"DirectoryState", f>>}
  BY DEF MerchantDirectoryIdl, f
<1>6. DecodeAccountData(MerchantDirectoryIdl, "DirectoryState", Stored(f, "DirectoryState", values))
        = {[m \in Names(f) |-> values[m]]}
  BY <1>4, <1>5, AccountIsRead
<1>7. state = [m \in Names(f) |-> values[m]]
  BY <1>6 DEF key, values, f
<1>8. "next_merchant_id" \in Names(f)
  BY <1>2 DEF Names, NameOf
<1> QED
  BY <1>3, <1>7, <1>8

LEMMA WalletIsRead ==
  ASSUME NEW id \in Small, NEW n \in Nat
  PROVE  /\ \E account : ReadMerchantWallet(id, Wallet(n)) = {account}
         /\ \A account \in ReadMerchantWallet(id, Wallet(n)) : account.wallet = Wallet(n)
<1> DEFINE key == Wallet(n)
           values == [merchant_id |-> id, wallet |-> key, bump |-> 255]
           f == MerchantWalletFields
<1>1. WellTyped("pubkey", key) /\ WellTyped("u64", id) /\ WellTyped("u8", 255)
  BY DEF WellTyped, Types
<1>2. /\ f[1] = <<"merchant_id", "u64">> /\ f[2] = <<"wallet", "pubkey">> /\ f[3] = <<"bump", "u8">>
      /\ Len(f) = 3
  BY DEF MerchantWalletFields
<1> HIDE DEF key
<1>3. values.merchant_id = id /\ values.wallet = key /\ values.bump = 255
  OBVIOUS
<1>0. ReadMerchantWallet(id, Wallet(n)) =
        DecodeAccountData(OrderEscrowIdl, "MerchantWallet", Stored(f, "MerchantWallet", values))
  BY DEF ReadMerchantWallet, key
<1> HIDE DEF values, f
<1>4. Fits(f, values)
  <2> DEFINE Good(k) == WellTyped(f[k][2], values[f[k][1]])
  <2>1. Good(1) /\ Good(2) /\ Good(3)
    BY <1>1, <1>2, <1>3
  <2> HIDE DEF Good
  <2>2. \A k \in 1..3 : Good(k)
    BY <2>1
  <2> QED
    BY <1>2, <2>2 DEF Fits, Good
<1>5. {x \in OrderEscrowIdl.types : x[1] = "MerchantWallet"} = {<<"MerchantWallet", f>>}
  BY DEF OrderEscrowIdl, f
<1>6. DecodeAccountData(OrderEscrowIdl, "MerchantWallet", Stored(f, "MerchantWallet", values))
        = {[m \in Names(f) |-> values[m]]}
  BY <1>4, <1>5, AccountIsRead
<1>8. "wallet" \in Names(f)
  BY <1>2 DEF Names, NameOf
<1> DEFINE read == [m \in Names(f) |-> values[m]]
<1>9. read.wallet = key
  BY <1>3, <1>8
<1>10. ReadMerchantWallet(id, Wallet(n)) = {read}
  BY <1>0, <1>6
<1> HIDE DEF read
<1> QED
  BY <1>9, <1>10 DEF key

LEMMA ConfigIsRead ==
  ASSUME Relayer \in Nat, Mint \in Nat, NEW n \in Small
  PROVE  \E conf : ReadConfig(n) = {conf} /\ conf.next_order_id = n
<1> DEFINE key == Wallet(Relayer)
           mint == Wallet(Mint)
           values == [authority |-> key, arbiter |-> key, usdc_mint |-> mint, next_order_id |-> n, bump |-> 255]
           f == EscrowConfigFields
<1>1. WellTyped("pubkey", key) /\ WellTyped("pubkey", mint) /\ WellTyped("u64", n) /\ WellTyped("u8", 255)
  BY DEF WellTyped, Types
<1>2. /\ f[1] = <<"authority", "pubkey">> /\ f[2] = <<"arbiter", "pubkey">> /\ f[3] = <<"usdc_mint", "pubkey">>
      /\ f[4] = <<"next_order_id", "u64">> /\ f[5] = <<"bump", "u8">> /\ Len(f) = 5
  BY DEF EscrowConfigFields
<1>3. ReadConfig(n) = DecodeAccountData(OrderEscrowIdl, "EscrowConfig", Stored(f, "EscrowConfig", values))
  BY DEF ReadConfig
<1> HIDE DEF key, mint
<1>4. /\ values.authority = key /\ values.arbiter = key /\ values.usdc_mint = mint
      /\ values.next_order_id = n /\ values.bump = 255
  OBVIOUS
<1> HIDE DEF values, f
<1>5. Fits(f, values)
  <2> DEFINE Good(k) == WellTyped(f[k][2], values[f[k][1]])
  <2>1. Good(1) /\ Good(2) /\ Good(3) /\ Good(4) /\ Good(5)
    BY <1>1, <1>2, <1>4
  <2> HIDE DEF Good
  <2>2. \A k \in 1..5 : Good(k)
    BY <2>1
  <2> QED
    BY <1>2, <2>2 DEF Fits, Good
<1>6. {x \in OrderEscrowIdl.types : x[1] = "EscrowConfig"} = {<<"EscrowConfig", f>>}
  BY DEF OrderEscrowIdl, f
<1> DEFINE read == [m \in Names(f) |-> values[m]]
<1>7. ReadConfig(n) = {read}
  BY <1>3, <1>5, <1>6, AccountIsRead
<1>8. read.next_order_id = n
  <2>1. "next_order_id" \in Names(f)
    BY <1>2 DEF Names, NameOf
  <2> QED
    BY <1>4, <2>1
<1> HIDE DEF read
<1> QED
  BY <1>7, <1>8

(* What fund is called with, for the terms the model fixes. *)
FundAccounts(buyer, m, n) ==
    [buyer |-> buyer, escrow_config |-> EscrowConfigPda, merchant_wallet |-> MerchantWalletPda(m),
     order |-> OrderPda(n), usdc_mint |-> Wallet(Mint), vault |-> VaultPda(n),
     buyer_token_account |-> AssociatedToken(buyer)]
FundArgs(n) ==
    [order_id |-> n, amount |-> Terms.amount, quote_hash |-> Terms.quoteHash,
     pickup_code_hash |-> Terms.pickupCodeHash, release_deadline |-> Terms.releaseDeadline]

LEMMA FundIsSent ==
  ASSUME Relayer \in Nat, Mint \in Nat, NEW buyer, NEW m, NEW n \in Small
  PROVE  Fund(buyer, m, n, Terms) =
           BuildInstruction(OrderEscrowIdl, "order_escrow", "fund", FundAccounts(buyer, m, n), FundArgs(n))
<1>1. PICK conf : ReadConfig(n) = {conf} /\ conf.next_order_id = n
  BY ConfigIsRead
<1> DEFINE a == [buyer |-> buyer, escrowConfig |-> EscrowConfigPda, merchantWallet |-> MerchantWalletPda(m),
                 order |-> OrderPda(conf.next_order_id), usdcMint |-> Wallet(Mint),
                 vault |-> VaultPda(conf.next_order_id), buyerTokenAccount |-> AssociatedToken(buyer)]
           x == [Terms EXCEPT !.orderId = conf.next_order_id]
<1>2. Fund(buyer, m, n, Terms) = BuildFundInstruction(a, x)
  <2> DEFINE Built(c) ==
               BuildFundInstruction(
                   [buyer |-> buyer, escrowConfig |-> EscrowConfigPda, merchantWallet |-> MerchantWalletPda(m),
                    order |-> OrderPda(c.next_order_id), usdcMint |-> Wallet(Mint),
                    vault |-> VaultPda(c.next_order_id), buyerTokenAccount |-> AssociatedToken(buyer)],
                   [Terms EXCEPT !.orderId = c.next_order_id])
  <2>1. Fund(buyer, m, n, Terms) = UNION {Built(c) : c \in ReadConfig(n)}
    BY Zenon DEF Fund
  <2>2. Built(conf) = BuildFundInstruction(a, x)
    OBVIOUS
  <2> HIDE DEF Built, a, x
  <2>3. UNION {Built(c) : c \in {conf}} = Built(conf)
    OBVIOUS
  <2> QED
    BY <1>1, <2>1, <2>2, <2>3
<1>3. /\ x.orderId = n /\ x.amount = Terms.amount /\ x.quoteHash = Terms.quoteHash
      /\ x.pickupCodeHash = Terms.pickupCodeHash /\ x.releaseDeadline = Terms.releaseDeadline
  BY <1>1 DEF Terms
<1>4. /\ a.buyer = buyer /\ a.escrowConfig = EscrowConfigPda /\ a.merchantWallet = MerchantWalletPda(m)
      /\ a.order = OrderPda(n) /\ a.usdcMint = Wallet(Mint) /\ a.vault = VaultPda(n)
      /\ a.buyerTokenAccount = AssociatedToken(buyer)
  BY <1>1
<1> HIDE DEF a, x
<1>5. BuildFundInstruction(a, x) =
        BuildInstruction(OrderEscrowIdl, "order_escrow", "fund", FundAccounts(buyer, m, n), FundArgs(n))
  BY <1>3, <1>4 DEF BuildFundInstruction, FundAccounts, FundArgs
<1> QED
  BY <1>2, <1>5

LEMMA FundFits ==
  ASSUME NEW n \in Small
  PROVE  Fits(FundIx.args, FundArgs(n))
<1> DEFINE f == FundIx.args
           args == FundArgs(n)
           quote == Terms.quoteHash
           code == Terms.pickupCodeHash
<1>1. WellTyped("u64", n) /\ WellTyped("u64", Terms.amount) /\ WellTyped("i64", Terms.releaseDeadline)
  BY DEF WellTyped, Types, Terms, Small
<1>2. WellTyped("bytes32", quote) /\ WellTyped("bytes32", code)
  BY DEF WellTyped, Types, Terms
<1> HIDE DEF quote, code
<1>3. /\ args.order_id = n /\ args.amount = Terms.amount /\ args.quote_hash = quote
      /\ args.pickup_code_hash = code /\ args.release_deadline = Terms.releaseDeadline
  BY DEF FundArgs, quote, code
<1> HIDE DEF args
<1> DEFINE Good(k) == WellTyped(f[k][2], args[f[k][1]])
<1>4. Len(f) = 5
  BY FundTable
<1>5. Good(1) /\ Good(2) /\ Good(3) /\ Good(4) /\ Good(5)
  BY <1>1, <1>2, <1>3, FundTable
<1> HIDE DEF Good
<1>6. \A k \in 1..5 : Good(k)
  BY <1>5
<1> QED
  BY <1>4, <1>6 DEF Fits, Good, args

LEMMA FundArrives ==
  ASSUME Relayer \in Nat, Mint \in Nat, NEW m \in Small, NEW n \in Small, DOMAIN wallets \subseteq Small,
         NEW d \in Arriving(OrderEscrowIdl, "order_escrow", Fund(Wallet(Buyer), m, n, Terms), Wallet(Buyer))
  PROVE  d.args.order_id = n /\ m \in DOMAIN wallets
<1> DEFINE accounts == FundAccounts(Wallet(Buyer), m, n)
           args == FundArgs(n)
           a == FundIx.accounts
<1>1. Comes(OrderEscrowIdl, FundIx, "order_escrow", accounts, args, Wallet(Buyer), DOMAIN wallets, d)
  <2>1. PICK sent \in Fund(Wallet(Buyer), m, n, Terms) :
          d \in Delivered(OrderEscrowIdl, "order_escrow", sent, Wallet(Buyer), DOMAIN wallets)
    BY Zenon DEF Arriving
  <2>2. /\ Only(OrderEscrowIdl, FundIx) /\ WellFormed(FundIx)
        /\ sent \in BuildInstruction(OrderEscrowIdl, "order_escrow", FundIx.name, accounts, args)
    BY <2>1, FundIsSent, EscrowOnly, EscrowNames, FundTable
  <2> QED
    BY <2>1, <2>2, FundFits DEF Comes
<1>2. /\ d.args = Values(FundIx, args)
      /\ Accepted("order_escrow", FundIx, accounts, args, Wallet(Buyer), DOMAIN wallets)
  BY <1>1, WhatIsRead
<1>3. d.args.order_id = n
  <2>1. args.order_id = n
    BY DEF FundArgs
  <2>2. "order_id" \in Names(FundIx.args)
    BY FundTable DEF Names, NameOf
  <2> HIDE DEF args
  <2> QED
    BY <1>2, <2>1, <2>2 DEF Values
<1>4. m \in DOMAIN wallets
  <2>0. WellFormed(FundIx) /\ Len(a) = 9
        /\ IsAccount(a[3], "merchant_wallet", FALSE, ByOwn("merchant_wallet", "merchant_id"))
    BY FundTable
  <2>1. 3 \in DOMAIN a
    BY <2>0 DEF WellFormed, Numbered
  <2>2. Meets("order_escrow", a[3], Key(a[3], accounts), Values(FundIx, args), DOMAIN wallets)
    BY <1>2, <2>1 DEF Accepted
  <2>3. Key(a[3], accounts).pubkey = MerchantWalletPda(m)
    <3>1. accounts["merchant_wallet"] = MerchantWalletPda(m)
      BY DEF FundAccounts
    <3>2. ByOwn("merchant_wallet", "merchant_id").by # "fixed"
      BY Seeds
    <3> HIDE DEF accounts, a
    <3>3. AddressOf(a[3], accounts) = accounts["merchant_wallet"]
      BY <2>0, <3>2, AddressGiven
    <3> QED
      BY <3>1, <3>3 DEF Key
  <2>4. a[3].at.by = "account" /\ a[3].at.prefix = "merchant_wallet"
    BY <2>0, Seeds DEF IsAccount
  <2> HIDE DEF accounts, args, a
  <2>5. PICK id \in DOMAIN wallets :
          Key(a[3], accounts).pubkey = Derived("order_escrow", "merchant_wallet", LittleEndian(id, 8))
    BY <2>2, <2>4 DEF Meets
  <2>6. MerchantWalletPda(m) = MerchantWalletPda(id)
    BY <2>3, <2>5 DEF MerchantWalletPda
  <2> QED
    BY <2>5, <2>6, SameMerchantWallet
<1> QED
  BY <1>3, <1>4

-----------------------------------------------------------------------------
(* The inductive invariant. *)

\* What the requests, the tables and the accounts hold.
Keys == {Wallet(n) : n \in Range(SeedWallet) \cup {Payout[o] : o \in Orgs}}
Outcome(to) == IF to = "refunded" THEN "Refunded" ELSE "Released"
Escrow == [order : Orders, state : {"Funded", "Disputed", "Released", "Refunded"}, merchantId : 1..MaxListings,
           paidTo : Keys \cup {NoOne, Wallet(Buyer)}]

Answers == {"refunded", "released"}
AtId     == [op : {"publish"}, at : {"id"}, org : Orgs]
AfterId  == [op : {"publish"}, at : {"list", "wallet", "stamp"}, org : Orgs, id : 1..MaxListings]
AtStatus == [op : {"status"}, at : {"write"}, dispute : Disputes, to : {"reviewing", "closed"}]
AtOrg    == [op : {"resolve"}, at : {"org"}, dispute : Disputes, to : Answers, escrow : 1..MaxEscrows]
AtWallet == [op : {"resolve"}, at : {"wallet"}, dispute : Disputes, to : Answers, escrow : 1..MaxEscrows,
             id : 1..MaxListings]
Sending  == [op : {"resolve"}, at : {"send", "row", "write"}, dispute : Disputes, to : Answers,
             escrow : 1..MaxEscrows, id : 1..MaxListings, wallet : Keys]
IsFrame(f) == f = Idle \/ f \in AtId \/ f \in AfterId \/ f \in AtStatus \/ f \in AtOrg \/ f \in AtWallet \/ f \in Sending

Typed ==
    /\ orgs \in [Orgs -> [exists : BOOLEAN, chainId : 0..MaxListings]]
    /\ disputes \in [Disputes -> {"none", "open", "reviewing", "refunded", "released", "closed"}]
    /\ rows \in [Orders -> [state : {"none", "Funded", "Released", "Refunded"}, escrow : 0..MaxEscrows]]
    /\ paid \subseteq Orders
    /\ reports \subseteq [escrow : EscrowIds, state : {"Funded", "Released"}]
    /\ missing \subseteq DOMAIN SeedWallet \cap DOMAIN listed
    /\ overwritten \subseteq DOMAIN SeedWallet
    /\ settledOn \in [Disputes -> 0..MaxEscrows]
    /\ DOMAIN requests = Requests /\ \A r \in Requests : IsFrame(requests[r])
    /\ programs \subseteq Programs
    /\ listed \in Seq(Keys) /\ Len(listed) <= MaxListings
    /\ DOMAIN wallets \subseteq 1..Len(listed) /\ \A k \in DOMAIN wallets : wallets[k] \in Keys
    /\ escrows \in Seq(Escrow) /\ Len(escrows) <= MaxEscrows

\* A number's wallet account has the wallet of its listing, or the seed's.
Walleted ==
    \A k \in DOMAIN wallets :
        \/ wallets[k] = listed[k]
        \/ k \in DOMAIN SeedWallet /\ wallets[k] = Wallet(SeedWallet[k])

\* A number is listed for the organization's payout wallet and pays it, or the seed's that the script set over it.
PaysOrg(id, o) ==
    /\ id \in DOMAIN listed /\ listed[id] = Wallet(Payout[o])
    /\ id \in DOMAIN wallets
    /\ \/ wallets[id] = Wallet(Payout[o])
       \/ id \in overwritten /\ wallets[id] = Wallet(SeedWallet[id])

\* An organization's number is its own.
Registered ==
    \A o \in Orgs :
        orgs[o].chainId # 0 => /\ PaysOrg(orgs[o].chainId, o)
                               /\ \A other \in Orgs \ {o} : orgs[other].chainId # orgs[o].chainId

\* A publication that has listed its merchant holds a number nobody else has or carries.
Lists(f) == f.op = "publish" /\ f.at \in {"wallet", "stamp"}
Holds(r) ==
    LET f == requests[r] IN
    /\ f.id \in DOMAIN listed /\ listed[f.id] = Wallet(Payout[f.org])
    /\ f.at = "stamp" => PaysOrg(f.id, f.org)
    /\ \A o \in Orgs : orgs[o].chainId # f.id
    /\ \A q \in Requests \ {r} : Lists(requests[q]) => requests[q].id # f.id
Published == \A r \in Requests : Lists(requests[r]) => Holds(r)

\* An escrow is for a seed's number with a wallet, and was settled to the buyer or to whom it may pay; rows and
\* reports speak of escrows there are.
GoodEscrow(e) ==
    /\ escrows[e].merchantId \in DOMAIN wallets \cap DOMAIN SeedWallet
    /\ escrows[e].state = "Refunded" => escrows[e].paidTo = Wallet(Buyer)
    /\ escrows[e].state = "Released" => escrows[e].paidTo \in Payees(e)
IsOf(e, x) == e \in DOMAIN escrows /\ escrows[e].order = x
GoodRow(x) ==
    /\ rows[x].escrow # 0 => IsOf(rows[x].escrow, x)
    /\ rows[x].state \in {"Released", "Refunded"} =>
          \E e \in DOMAIN escrows : escrows[e].order = x /\ escrows[e].state = rows[x].state
GoodReport(m) == m.escrow \in DOMAIN escrows /\ (m.state = "Released" => escrows[m.escrow].state = "Released")
Escrowed ==
    /\ \A e \in DOMAIN escrows : GoodEscrow(e)
    /\ \A x \in Orders : GoodRow(x)
    /\ \A m \in reports : GoodReport(m)

\* A resolution is about an escrow of its order, pays a wallet that the organization's number has or had, and
\* after it landed the escrow is settled as it was asked.
DeskPays(x) == {Wallet(Payout[OrgOf[x]])} \cup {Wallet(SeedWallet[i]) : i \in overwritten}
GoodResolve(f) ==
    LET x == OrderOf[f.dispute] IN
    /\ IsOf(f.escrow, x)
    /\ f.at = "wallet" => PaysOrg(f.id, OrgOf[x])
    /\ f.at \in {"send", "row", "write"} => f.wallet \in DeskPays(x)
    /\ f.at \in {"row", "write"} => escrows[f.escrow].state = Outcome(f.to)
Resolving == \A r \in Requests : requests[r].op = "resolve" => GoodResolve(requests[r])

\* An escrow settles one dispute at most, of those that are settled and those under way.
Resolves(f) == f.op = "resolve" /\ f.at \in {"row", "write"}
Closes(d) == disputes[d] \in {"released", "refunded"}
SettledOnce ==
    /\ \A d \in Disputes :
          Closes(d) => /\ IsOf(settledOn[d], OrderOf[d]) /\ escrows[settledOn[d]].state = Outcome(disputes[d])
                       /\ \A other \in Disputes \ {d} : Closes(other) => settledOn[other] # settledOn[d]
    /\ \A r \in Requests :
          Resolves(requests[r]) =>
              /\ \A d \in Disputes : Closes(d) => settledOn[d] # requests[r].escrow
              /\ \A q \in Requests \ {r} : Resolves(requests[q]) => requests[q].escrow # requests[r].escrow

DeskInv == Typed /\ Walleted /\ Registered /\ Published /\ Escrowed /\ Resolving /\ SettledOnce

(* A programme of the chain's steps: a listing, a payout wallet. *)
Listing(key)    == listed' = Append(listed, key) /\ UNCHANGED <<programs, wallets, escrows>>
Paying(id, key) == wallets' = With(wallets, id, key) /\ UNCHANGED <<programs, listed, escrows>>

LEMMA Sizes ==
  /\ 1..MaxListings \subseteq Small /\ 0..MaxEscrows \subseteq Small
  /\ MaxEscrows \in Nat /\ MaxListings \in Nat
  /\ {0} \subseteq Small
BY DeskAssumption DEF Small

LEMMA TheKeys ==
  /\ \A i \in DOMAIN SeedWallet : i \in 1..MaxListings /\ SeedWallet[i] \in Nat /\ Wallet(SeedWallet[i]) \in Keys
  /\ \A o \in Orgs : Payout[o] \in Nat /\ Wallet(Payout[o]) \in Keys
  /\ \A k \in Keys : \E n \in Nat : k = Wallet(n)
<1>1. ASSUME NEW i \in DOMAIN SeedWallet
      PROVE  i \in 1..MaxListings /\ SeedWallet[i] \in Nat /\ Wallet(SeedWallet[i]) \in Keys
  <2>1. i \in 1..Len(SeedWallet) /\ SeedWallet[i] \in Nat
    BY DeskAssumption
  <2>2. SeedWallet[i] \in Range(SeedWallet)
    BY DEF Range
  <2> QED
    BY <2>1, <2>2, DeskAssumption DEF Keys
<1>2. ASSUME NEW o \in Orgs
      PROVE  Payout[o] \in Nat /\ Wallet(Payout[o]) \in Keys
  <2>1. Payout[o] \in Nat /\ Payout[o] \in {Payout[p] : p \in Orgs}
    BY DeskAssumption
  <2> QED
    BY <2>1 DEF Keys
<1>3. \A k \in Keys : \E n \in Nat : k = Wallet(n)
  <2>1. Range(SeedWallet) \subseteq Nat
    BY <1>1 DEF Range
  <2> QED
    BY <1>2, <2>1 DEF Keys
<1> QED
  BY <1>1, <1>2, <1>3

LEMMA IdsSmall ==
  ASSUME Typed
  PROVE  /\ DOMAIN wallets \subseteq Small /\ \A k \in DOMAIN wallets : k \in 1..MaxListings
         /\ Len(listed) \in Nat /\ DOMAIN listed = 1..Len(listed)
         /\ Len(escrows) \in Nat /\ DOMAIN escrows = 1..Len(escrows) /\ DOMAIN escrows \subseteq 1..MaxEscrows
         /\ \A e \in DOMAIN escrows : escrows[e] \in Escrow
<1>1. listed \in Seq(Keys) /\ escrows \in Seq(Escrow) /\ Len(escrows) <= MaxEscrows
  BY DEF Typed
<1>2. /\ Len(listed) \in Nat /\ DOMAIN listed = 1..Len(listed)
      /\ Len(escrows) \in Nat /\ DOMAIN escrows = 1..Len(escrows) /\ DOMAIN escrows \subseteq 1..MaxEscrows
  BY <1>1, Sizes
<1>3. \A e \in DOMAIN escrows : escrows[e] \in Escrow
  BY <1>1, <1>2
<1>4. DOMAIN wallets \subseteq Small /\ \A k \in DOMAIN wallets : k \in 1..MaxListings
  <2>1. DOMAIN wallets \subseteq 1..Len(listed) /\ Len(listed) <= MaxListings
    BY DEF Typed
  <2> QED
    BY <1>2, <2>1, Sizes
<1> QED
  BY <1>2, <1>3, <1>4

(* What each request and the bootstrap script do to the chain. *)
LEMMA EnsureListedSteps ==
  ASSUME Typed, NEW i \in DOMAIN SeedWallet, EnsureMerchantListed(i)
  PROVE  UNCHANGED <<db, requests, notes>> /\ i = Len(listed) + 1 /\ Listing(Wallet(SeedWallet[i]))
<1>1. i \in Small /\ SeedWallet[i] \in Nat /\ i \in 1..MaxListings /\ Len(listed) \in Nat
  BY TheKeys, Sizes, IdsSmall
<1>2. PICK d \in ToDirectory(ListCall(i, i, SeedWallet[i])) : HandleListMerchant(d)
  BY DEF EnsureMerchantListed
<1>3. d.args.merchant_id = i /\ d.args.wallet = Wallet(SeedWallet[i])
  BY <1>1, ListArrives
<1>4. UNCHANGED <<db, requests, notes>>
  BY DEF EnsureMerchantListed
<1> QED
  BY <1>2, <1>3, <1>4 DEF HandleListMerchant, Listing

LEMMA SetSeedWalletSteps ==
  ASSUME Typed, NEW i \in DOMAIN SeedWallet, SetSeedWallet(i)
  PROVE  /\ i \in missing /\ Paying(i, Wallet(SeedWallet[i]))
         /\ overwritten' = IF i \in DOMAIN wallets /\ wallets[i] # Wallet(SeedWallet[i])
                           THEN overwritten \cup {i} ELSE overwritten
         /\ UNCHANGED <<db, requests, reports, missing, settledOn>>
<1>1. i \in Small /\ SeedWallet[i] \in Nat
  BY TheKeys, Sizes
<1>2. PICK d \in ToEscrow(SetWalletCall(i, SeedWallet[i])) : HandleSetMerchantWallet(d)
  BY DEF SetSeedWallet
<1>3. d.args.merchant_id = i /\ d.args.wallet = Wallet(SeedWallet[i])
  BY <1>1, SetWalletArrives
<1>4. Paying(i, Wallet(SeedWallet[i]))
  BY <1>2, <1>3 DEF HandleSetMerchantWallet, Paying
<1> QED
  BY <1>4 DEF SetSeedWallet

\* A request of the desk at some point, with what its frame holds there.
LEMMA PublishFrame ==
  ASSUME Typed, NEW r \in Requests, requests[r].op = "publish", requests[r].at # "id"
  PROVE  /\ requests[r] \in AfterId
         /\ Payout[requests[r].org] \in Nat /\ Wallet(Payout[requests[r].org]) \in Keys
<1>1. IsFrame(requests[r])
  BY DEF Typed
<1>2. requests[r] \in AfterId
  BY <1>1 DEF IsFrame, Idle, AtId, AfterId, AtStatus, AtOrg, AtWallet, Sending
<1> QED
  BY <1>2, TheKeys DEF AfterId

LEMMA ResolveFrame ==
  ASSUME Typed, NEW r \in Requests, requests[r].op = "resolve"
  PROVE  LET f == requests[r] IN
         /\ f.dispute \in Disputes /\ f.to \in Answers /\ f.escrow \in 1..MaxEscrows
         /\ OrderOf[f.dispute] \in Orders /\ OrgOf[OrderOf[f.dispute]] \in Orgs
         /\ f.at = "org" => f \in AtOrg
         /\ f.at = "wallet" => f \in AtWallet
         /\ f.at \notin {"org", "wallet"} => f \in Sending
<1>1. IsFrame(requests[r])
  BY DEF Typed
<1>2. requests[r] \in AtOrg \/ requests[r] \in AtWallet \/ requests[r] \in Sending
  BY <1>1 DEF IsFrame, Idle, AtId, AfterId, AtStatus, AtOrg, AtWallet, Sending
<1>3. /\ requests[r].dispute \in Disputes /\ requests[r].to \in Answers /\ requests[r].escrow \in 1..MaxEscrows
      /\ requests[r].at = "org" => requests[r] \in AtOrg
      /\ requests[r].at = "wallet" => requests[r] \in AtWallet
      /\ requests[r].at \notin {"org", "wallet"} => requests[r] \in Sending
  BY <1>2 DEF AtOrg, AtWallet, Sending
<1> QED
  BY <1>3, DeskAssumption

LEMMA SendListingSteps ==
  ASSUME Typed, NEW r \in Requests, SendListing(r)
  PROVE  LET f == requests[r] IN
         /\ f.op = "publish" /\ f.at = "list" /\ UNCHANGED <<db, notes>>
         /\ \/ /\ f.id = Len(listed) + 1 /\ Listing(Wallet(Payout[f.org]))
               /\ \/ Goes(r, [f EXCEPT !.at = "wallet"])
                  \/ Goes(r, Idle)
            \/ UNCHANGED chain /\ Goes(r, Idle)
<1> DEFINE f == requests[r]
<1>1. f.op = "publish" /\ f.at = "list" /\ UNCHANGED <<db, notes>>
  BY DEF SendListing, At
<1>2. f.id \in Small /\ Payout[f.org] \in Nat
  BY <1>1, PublishFrame, Sizes DEF AfterId
<1>3. 0 \in Small
  BY Sizes
<1>4. ASSUME NEW d \in ToDirectory(ListCall(f.id, 0, Payout[f.org])), HandleListMerchant(d)
      PROVE  f.id = Len(listed) + 1 /\ Listing(Wallet(Payout[f.org]))
  <2>1. d.args.merchant_id = f.id /\ d.args.wallet = Wallet(Payout[f.org])
    BY <1>2, <1>3, ListArrives
  <2> QED
    BY <1>4, <2>1 DEF HandleListMerchant, Listing
<1>5. Sent(r, \E d \in ToDirectory(ListCall(f.id, 0, Payout[f.org])) : HandleListMerchant(d),
           [f EXCEPT !.at = "wallet"])
  BY DEF SendListing
<1> QED
  BY <1>1, <1>4, <1>5 DEF Sent, AfterSending

LEMMA SendWalletSteps ==
  ASSUME Typed, NEW r \in Requests, SendWallet(r)
  PROVE  LET f == requests[r] IN
         /\ f.op = "publish" /\ f.at = "wallet" /\ UNCHANGED <<db, notes>>
         /\ \/ /\ Paying(f.id, Wallet(Payout[f.org]))
               /\ \/ Goes(r, [f EXCEPT !.at = "stamp"])
                  \/ Goes(r, Idle)
            \/ UNCHANGED chain /\ Goes(r, Idle)
<1> DEFINE f == requests[r]
<1>1. f.op = "publish" /\ f.at = "wallet" /\ UNCHANGED <<db, notes>>
  BY DEF SendWallet, At
<1>2. f.id \in Small /\ Payout[f.org] \in Nat
  BY <1>1, PublishFrame, Sizes DEF AfterId
<1>3. ASSUME NEW d \in ToEscrow(SetWalletCall(f.id, Payout[f.org])), HandleSetMerchantWallet(d)
      PROVE  Paying(f.id, Wallet(Payout[f.org]))
  <2>1. d.args.merchant_id = f.id /\ d.args.wallet = Wallet(Payout[f.org])
    BY <1>2, SetWalletArrives
  <2> QED
    BY <1>3, <2>1 DEF HandleSetMerchantWallet, Paying
<1>4. Sent(r, \E d \in ToEscrow(SetWalletCall(f.id, Payout[f.org])) : HandleSetMerchantWallet(d),
           [f EXCEPT !.at = "stamp"])
  BY DEF SendWallet
<1> QED
  BY <1>1, <1>3, <1>4 DEF Sent, AfterSending

LEMMA SendResolveSteps ==
  ASSUME Typed, NEW r \in Requests, SendResolve(r)
  PROVE  LET f == requests[r]
             e == f.escrow
         IN
         /\ f.op = "resolve" /\ f.at = "send" /\ UNCHANGED <<db, notes>>
         /\ \/ /\ escrows[e].state = "Disputed" /\ UNCHANGED <<programs, listed, wallets>>
               /\ escrows' = [escrows EXCEPT ![e].state = Outcome(f.to),
                                             ![e].paidTo = IF f.to = "released" THEN f.wallet ELSE Wallet(Buyer)]
               /\ \/ Goes(r, [f EXCEPT !.at = "row"])
                  \/ Goes(r, Idle)
            \/ UNCHANGED chain /\ Goes(r, Idle)
<1> DEFINE f == requests[r]
           e == f.escrow
           to == IF f.to = "released" THEN f.wallet ELSE Wallet(Buyer)
<1>1. f.op = "resolve" /\ f.at = "send" /\ UNCHANGED <<db, notes>>
  BY DEF SendResolve, At
<1>2. f.to \in {"refunded", "released"} /\ e \in Small
  BY <1>1, ResolveFrame, Sizes DEF Answers
<1>3. ASSUME NEW d \in ToEscrow(ResolveCall(f)), HandleResolve(e, d)
      PROVE  /\ escrows[e].state = "Disputed" /\ UNCHANGED <<programs, listed, wallets>>
             /\ escrows' = [escrows EXCEPT ![e].state = Outcome(f.to), ![e].paidTo = to]
  <2> DEFINE paying == IF d.args.release_to_merchant THEN d.accounts["merchant_token_account"]
                                                      ELSE d.accounts["buyer_token_account"]
  <2>1. /\ d.args.release_to_merchant = ReleaseToMerchant(f.to)
        /\ d.accounts["merchant_token_account"] = AssociatedToken(f.wallet)
        /\ d.accounts["buyer_token_account"] = AssociatedToken(Wallet(Buyer))
    BY <1>2, ResolveArrives
  <2>2. AssociatedToken(f.wallet)[2] = f.wallet /\ AssociatedToken(Wallet(Buyer))[2] = Wallet(Buyer)
    BY DEF AssociatedToken, TokenAccount
  <2>3. /\ escrows[e].state = "Disputed" /\ UNCHANGED <<programs, listed, wallets>>
        /\ Settled(e, IF d.args.release_to_merchant THEN "Released" ELSE "Refunded", paying[2])
    BY <1>3, Zenon DEF HandleResolve
  <2>4. CASE f.to = "released"
    <3>1. d.args.release_to_merchant = TRUE
      BY <2>1, <2>4 DEF ReleaseToMerchant
    <3>2. paying[2] = to /\ Outcome(f.to) = "Released"
      BY <2>1, <2>2, <2>4, <3>1 DEF Outcome
    <3> QED
      BY <2>3, <3>1, <3>2 DEF Settled
  <2>5. CASE f.to = "refunded"
    <3>1. d.args.release_to_merchant = FALSE
      BY <2>1, <2>5 DEF ReleaseToMerchant
    <3>2. paying[2] = to /\ Outcome(f.to) = "Refunded"
      BY <2>1, <2>2, <2>5, <3>1 DEF Outcome
    <3> QED
      BY <2>3, <3>1, <3>2 DEF Settled
  <2> QED
    BY <1>2, <2>4, <2>5
<1>4. Sent(r, \E d \in ToEscrow(ResolveCall(f)) : HandleResolve(e, d), [f EXCEPT !.at = "row"])
  BY DEF SendResolve
<1> HIDE DEF to
<1>5. \/ /\ \E d \in ToEscrow(ResolveCall(f)) : HandleResolve(e, d)
         /\ Goes(r, [f EXCEPT !.at = "row"]) \/ Goes(r, Idle)
      \/ UNCHANGED chain /\ Goes(r, Idle)
  BY <1>4 DEF Sent, AfterSending
<1> QED
  BY <1>1, <1>3, <1>5 DEF to

LEMMA ReadNextIdSteps ==
  ASSUME Typed, NEW r \in Requests, ReadNextId(r)
  PROVE  /\ requests[r] \in AtId
         /\ UNCHANGED <<db, chain, notes>>
         /\ \/ \E id \in 1..MaxListings :
                  Goes(r, [op |-> "publish", at |-> "list", org |-> requests[r].org, id |-> id])
            \/ Goes(r, Idle)
<1> DEFINE n == Len(listed) + 1
           states == DecodeAccountData(MerchantDirectoryIdl, "DirectoryState",
                         Stored(DirectoryStateFields, "DirectoryState",
                                [authority |-> Wallet(Relayer), next_merchant_id |-> n, bump |-> 255]))
<1>1. requests[r] \in AtId /\ UNCHANGED <<db, chain, notes>>
  <2>1. At(r, "publish", "id") /\ UNCHANGED <<db, chain, notes>>
    BY Zenon DEF ReadNextId
  <2>2. IsFrame(requests[r])
    BY DEF Typed
  <2> QED
    BY <2>1, <2>2 DEF At, IsFrame, Idle, AtId, AfterId, AtStatus, AtOrg, AtWallet, Sending
<1>2. n \in 1..MaxListings /\ n \in Small /\ Relayer \in Nat
  <2>1. Len(listed) < MaxListings
    BY Zenon DEF ReadNextId
  <2>2. Len(listed) \in Nat /\ MaxListings \in Nat /\ Relayer \in Nat
    BY IdsSmall, DeskAssumption
  <2> QED
    BY <2>1, <2>2, Sizes
<1>3. ASSUME NEW state \in states  PROVE state.next_merchant_id = n
  BY <1>2, DirectoryIsRead
<1>4. \/ \E state \in states :
            Goes(r, [op |-> "publish", at |-> "list", org |-> requests[r].org, id |-> state.next_merchant_id])
      \/ Goes(r, Idle)
  BY DEF ReadNextId
<1> HIDE DEF states, n
<1> QED
  BY <1>1, <1>2, <1>3, <1>4

LEMMA ReadWalletSteps ==
  ASSUME Typed, NEW r \in Requests, ReadWallet(r)
  PROVE  LET f == requests[r] IN
         /\ f.op = "resolve" /\ f.at = "wallet" /\ UNCHANGED <<db, chain, notes>>
         /\ \/ Goes(r, Idle)
            \/ /\ f.id \in DOMAIN wallets
               /\ Goes(r, [op |-> "resolve", at |-> "send", dispute |-> f.dispute, to |-> f.to, escrow |-> f.escrow,
                           id |-> f.id, wallet |-> wallets[f.id]])
<1> DEFINE f == requests[r]
           Frame(key) == [op |-> "resolve", at |-> "send", dispute |-> f.dispute, to |-> f.to, escrow |-> f.escrow,
                          id |-> f.id, wallet |-> key]
<1>1. f.op = "resolve" /\ f.at = "wallet" /\ UNCHANGED <<db, chain, notes>>
  BY Zenon DEF ReadWallet, At
<1>2. IF f.id \notin DOMAIN wallets THEN Goes(r, Idle)
      ELSE \E account \in ReadMerchantWallet(f.id, wallets[f.id]) : Goes(r, Frame(account.wallet))
  BY Zenon DEF ReadWallet
<1> HIDE DEF Frame
<1>3. CASE f.id \in DOMAIN wallets
  <2>1. wallets[f.id] \in Keys /\ f.id \in Small
    BY <1>3, IdsSmall DEF Typed
  <2>2. PICK n \in Nat : wallets[f.id] = Wallet(n)
    BY <2>1, TheKeys
  <2>3. \A account \in ReadMerchantWallet(f.id, wallets[f.id]) : account.wallet = wallets[f.id]
    BY <2>1, <2>2, WalletIsRead
  <2>4. Goes(r, Frame(wallets[f.id]))
    BY <1>2, <1>3, <2>3
  <2> QED
    BY <1>1, <1>3, <2>4 DEF Frame
<1> QED
  BY <1>1, <1>2, <1>3

LEMMA FundSteps ==
  ASSUME Typed, NEW x \in Orders, FundFromWeb(x)
  PROVE  /\ Len(escrows) < MaxEscrows /\ UNCHANGED <<programs, listed, wallets, db, requests, notes>>
         /\ \E m \in DOMAIN wallets \cap DOMAIN SeedWallet :
               escrows' = Append(escrows, [order |-> x, state |-> "Funded", merchantId |-> m, paidTo |-> NoOne])
<1> DEFINE m == SeedId[OrgOf[x]]
           n == NextOrderId
           heard == Arriving(OrderEscrowIdl, "order_escrow", Fund(Wallet(Buyer), m, n, Terms), Wallet(Buyer))
           made == Append(escrows, [order |-> x, state |-> "Funded", merchantId |-> m, paidTo |-> NoOne])
<1>1. /\ Len(escrows) < MaxEscrows /\ UNCHANGED <<programs, listed, wallets, db, requests, notes>>
      /\ OrgOf[x] \in DOMAIN SeedId
      /\ \E d \in heard : escrows' = made
  BY Zenon DEF FundFromWeb
<1>2. n \in Small
  <2>1. Len(escrows) \in Nat /\ MaxEscrows \in Nat
    BY Sizes, IdsSmall
  <2> QED
    BY <1>1, <2>1, Sizes DEF NextOrderId
<1>3. m \in DOMAIN SeedWallet /\ m \in Small
  BY <1>1, DeskAssumption, TheKeys, Sizes
<1>4. Relayer \in Nat /\ Mint \in Nat /\ DOMAIN wallets \subseteq Small
  BY DeskAssumption, IdsSmall
<1>5. \A d \in heard : m \in DOMAIN wallets
  BY <1>2, <1>3, <1>4, FundArrives
<1> HIDE DEF heard, n, m
<1> QED
  BY <1>1, <1>3, <1>5

-----------------------------------------------------------------------------
(* What a step leaves alone keeps its part of the invariant. *)

\* Listings stay, and an account keeps its wallet, takes the one of its listing, or the seed's.
WalletsGrow ==
    /\ \A i \in DOMAIN listed : i \in DOMAIN listed' /\ listed'[i] = listed[i]
    /\ overwritten \subseteq overwritten'
    /\ DOMAIN wallets \subseteq DOMAIN wallets'
    /\ \A k \in DOMAIN wallets' :
          \/ k \in DOMAIN wallets /\ wallets'[k] = wallets[k]
          \/ wallets'[k] = listed'[k]
          \/ /\ k \in DOMAIN SeedWallet /\ wallets'[k] = Wallet(SeedWallet[k])
             /\ k \in DOMAIN wallets => k \in overwritten'

\* An escrow keeps its order and its merchant, and once settled everything.
EscrowsGrow ==
    \A e \in DOMAIN escrows :
        /\ e \in DOMAIN escrows'
        /\ escrows'[e].order = escrows[e].order /\ escrows'[e].merchantId = escrows[e].merchantId
        /\ escrows'[e] = escrows[e] \/ escrows[e].state \in {"Funded", "Disputed"}

SameNumbers    == \A o \in Orgs : orgs'[o].chainId = orgs[o].chainId
NoPublishing   == \A r \in Requests : requests'[r] = requests[r] \/ ~ Lists(requests'[r])
NoResolving    == \A r \in Requests : requests'[r] = requests[r] \/ requests'[r].op # "resolve"
NewEscrows     == \A e \in DOMAIN escrows' : (e \in DOMAIN escrows /\ escrows'[e] = escrows[e]) \/ GoodEscrow(e)'
NewRows        == \A x \in Orders : rows'[x] = rows[x] \/ GoodRow(x)'
NewReports     == \A m \in reports' : m \in reports \/ GoodReport(m)'
NewResolutions == \A r \in Requests :
                     requests'[r] = requests[r] \/ requests'[r].op # "resolve" \/ GoodResolve(requests[r])'
SameClosed     == \A d \in Disputes :
                     Closes(d)' => Closes(d) /\ disputes'[d] = disputes[d] /\ settledOn'[d] = settledOn[d]
SameLanded     == \A r \in Requests :
                     Resolves(requests'[r]) => Resolves(requests[r]) /\ requests'[r].escrow = requests[r].escrow

LEMMA KeepsWalleted ==
  ASSUME Typed, Walleted, WalletsGrow
  PROVE  Walleted'
<1>1. DOMAIN wallets \subseteq DOMAIN listed
  BY IdsSmall DEF Typed
<1> QED
  BY <1>1 DEF Walleted, WalletsGrow

LEMMA PaysStill ==
  ASSUME Typed, WalletsGrow, NEW id, NEW o \in Orgs, PaysOrg(id, o)
  PROVE  PaysOrg(id, o)'
BY DEF PaysOrg, WalletsGrow

LEMMA KeepsRegistered ==
  ASSUME Typed, Registered, WalletsGrow, SameNumbers
  PROVE  Registered'
<1> SUFFICES ASSUME NEW o \in Orgs, orgs'[o].chainId # 0
             PROVE  PaysOrg(orgs[o].chainId, o)' /\ \A other \in Orgs \ {o} : orgs'[other].chainId # orgs'[o].chainId
  BY DEF Registered
<1>1. PICK id : id = orgs[o].chainId
  OBVIOUS
<1>2. orgs'[o].chainId = id /\ id # 0
  BY <1>1 DEF SameNumbers
<1>3. PaysOrg(id, o) /\ \A other \in Orgs \ {o} : orgs[other].chainId # id
  BY <1>1, <1>2 DEF Registered
<1>4. PaysOrg(id, o)'
  BY <1>3, PaysStill
<1> QED
  BY <1>2, <1>3, <1>4 DEF SameNumbers, PaysOrg

LEMMA KeepsPublished ==
  ASSUME Typed, Published, WalletsGrow, SameNumbers, NoPublishing
  PROVE  Published'
<1> SUFFICES ASSUME NEW r \in Requests, Lists(requests'[r]) PROVE Holds(r)'
  BY DEF Published, Lists
<1>1. requests'[r] = requests[r] /\ Lists(requests[r]) /\ Holds(r)
  BY DEF NoPublishing, Published
<1>2. PICK f : f = requests[r]
  OBVIOUS
<1>3. f.org \in Orgs
  BY <1>1, <1>2, PublishFrame DEF AfterId, Lists
<1>4. /\ f.id \in DOMAIN listed' /\ listed'[f.id] = Wallet(Payout[f.org])
      /\ \A o \in Orgs : orgs'[o].chainId # f.id
      /\ \A q \in Requests \ {r} : Lists(requests'[q]) => requests'[q].id # f.id
  BY <1>1, <1>2 DEF Holds, WalletsGrow, SameNumbers, NoPublishing
<1>5. f.at = "stamp" => PaysOrg(f.id, f.org)'
  BY <1>1, <1>2, <1>3, PaysStill DEF Holds
<1> QED
  BY <1>1, <1>2, <1>4, <1>5 DEF Holds, PaysOrg, Lists

LEMMA KeepsEscrowed ==
  ASSUME Typed, Escrowed, WalletsGrow, EscrowsGrow, NewEscrows, NewRows, NewReports
  PROVE  Escrowed'
<1>1. ASSUME NEW e \in DOMAIN escrows' PROVE GoodEscrow(e)'
  <2>1. CASE e \in DOMAIN escrows /\ escrows'[e] = escrows[e]
    <3>1. GoodEscrow(e)
      BY <2>1 DEF Escrowed
    <3>2. escrows[e].merchantId \in DOMAIN listed
      BY <3>1, IdsSmall DEF GoodEscrow, Typed
    <3>3. Payees(e) \subseteq Payees(e)'
      BY <2>1, <3>2 DEF Payees, WalletsGrow
    <3> QED
      BY <2>1, <3>1, <3>3 DEF GoodEscrow, WalletsGrow
  <2> QED
    BY <2>1 DEF NewEscrows
<1>2. ASSUME NEW x \in Orders PROVE GoodRow(x)'
  <2>1. CASE rows'[x] = rows[x]
    <3>1. GoodRow(x)
      BY DEF Escrowed
    <3> QED
      BY <2>1, <3>1 DEF GoodRow, IsOf, EscrowsGrow
  <2> QED
    BY <2>1 DEF NewRows
<1>3. ASSUME NEW m \in reports' PROVE GoodReport(m)'
  <2>1. CASE m \in reports
    BY <2>1 DEF Escrowed, GoodReport, EscrowsGrow
  <2> QED
    BY <2>1 DEF NewReports
<1> QED
  BY <1>1, <1>2, <1>3 DEF Escrowed

LEMMA GoodStill ==
  ASSUME Typed, WalletsGrow, EscrowsGrow, NEW f, f.dispute \in Disputes, GoodResolve(f)
  PROVE  GoodResolve(f)'
<1> DEFINE x == OrderOf[f.dispute]
<1>1. OrgOf[x] \in Orgs
  BY DeskAssumption
<1>2. IsOf(f.escrow, x)'
  BY DEF GoodResolve, IsOf, EscrowsGrow
<1>3. f.at = "wallet" => PaysOrg(f.id, OrgOf[x])'
  BY <1>1, PaysStill DEF GoodResolve
<1>4. f.at \in {"send", "row", "write"} => f.wallet \in DeskPays(x)'
  BY DEF GoodResolve, DeskPays, WalletsGrow
<1>5. f.at \in {"row", "write"} => escrows'[f.escrow].state = Outcome(f.to)
  BY DEF GoodResolve, IsOf, EscrowsGrow, Outcome
<1> QED
  BY <1>2, <1>3, <1>4, <1>5 DEF GoodResolve, IsOf, DeskPays, PaysOrg

LEMMA KeepsResolving ==
  ASSUME Typed, Resolving, WalletsGrow, EscrowsGrow, NewResolutions
  PROVE  Resolving'
<1> SUFFICES ASSUME NEW r \in Requests, requests'[r].op = "resolve" PROVE GoodResolve(requests[r])'
  BY DEF Resolving
<1>1. CASE requests'[r] = requests[r]
  <2>1. PICK f : f = requests[r]
    OBVIOUS
  <2>2. f.dispute \in Disputes /\ GoodResolve(f)
    BY <1>1, <2>1, ResolveFrame DEF Resolving
  <2>3. GoodResolve(f)'
    BY <2>2, GoodStill
  <2> QED
    BY <1>1, <2>1, <2>3 DEF GoodResolve, IsOf, DeskPays, PaysOrg
<1> QED
  BY <1>1 DEF NewResolutions

LEMMA KeepsSettled ==
  ASSUME SettledOnce, EscrowsGrow, SameClosed, SameLanded
  PROVE  SettledOnce'
<1>1. ASSUME NEW d \in Disputes, Closes(d)'
      PROVE  /\ IsOf(settledOn[d], OrderOf[d])' /\ escrows'[settledOn'[d]].state = Outcome(disputes'[d])
             /\ \A other \in Disputes \ {d} : Closes(other)' => settledOn'[other] # settledOn'[d]
  <2>1. Closes(d) /\ disputes'[d] = disputes[d] /\ settledOn'[d] = settledOn[d]
    BY <1>1 DEF SameClosed
  <2>2. IsOf(settledOn[d], OrderOf[d]) /\ escrows[settledOn[d]].state = Outcome(disputes[d])
    BY <2>1 DEF SettledOnce
  <2>3. escrows'[settledOn[d]] = escrows[settledOn[d]] /\ settledOn[d] \in DOMAIN escrows'
    BY <2>2 DEF IsOf, EscrowsGrow, Outcome
  <2>4. \A other \in Disputes \ {d} : Closes(other)' => settledOn'[other] # settledOn'[d]
    BY <2>1 DEF SettledOnce, SameClosed
  <2> QED
    BY <2>1, <2>2, <2>3, <2>4 DEF IsOf
<1>2. ASSUME NEW r \in Requests, Resolves(requests'[r])
      PROVE  /\ \A d \in Disputes : Closes(d)' => settledOn'[d] # requests'[r].escrow
             /\ \A q \in Requests \ {r} : Resolves(requests'[q]) => requests'[q].escrow # requests'[r].escrow
  BY <1>2 DEF SettledOnce, SameClosed, SameLanded
<1> QED
  BY <1>1, <1>2 DEF SettledOnce, Resolves

LEMMA SameChain ==
  /\ UNCHANGED <<listed, wallets, overwritten>> => WalletsGrow
  /\ UNCHANGED escrows => EscrowsGrow /\ NewEscrows
  /\ UNCHANGED <<disputes, settledOn>> => SameClosed
  /\ UNCHANGED rows => NewRows
  /\ UNCHANGED reports => NewReports
  /\ UNCHANGED orgs => SameNumbers
  /\ UNCHANGED requests => NoPublishing /\ NoResolving
  /\ NoResolving => NewResolutions /\ SameLanded
BY DEF WalletsGrow, EscrowsGrow, NewEscrows, SameClosed, NewRows, NewReports, SameNumbers, NoPublishing, NoResolving,
       NewResolutions, SameLanded, Closes, Resolves

\* A step under which every part but three is known to be kept, and one under which all are.
Steady == WalletsGrow /\ EscrowsGrow /\ NewEscrows /\ NewRows /\ NewReports /\ NewResolutions

LEMMA SteadyKeeps ==
  ASSUME DeskInv, Typed', Steady, Registered', Published', SettledOnce'
  PROVE  DeskInv'
<1>1. Walleted' /\ Escrowed' /\ Resolving'
  BY KeepsWalleted, KeepsEscrowed, KeepsResolving DEF DeskInv, Steady
<1> QED
  BY <1>1 DEF DeskInv

LEMMA QuietKeeps ==
  ASSUME DeskInv, Typed', Steady, SameNumbers, NoPublishing, SameClosed, SameLanded
  PROVE  DeskInv'
<1>1. Registered' /\ Published' /\ SettledOnce'
  BY KeepsRegistered, KeepsPublished, KeepsSettled DEF DeskInv, Steady
<1> QED
  BY <1>1, SteadyKeeps

LEMMA FrameAfter ==
  ASSUME Typed, NEW r \in Requests, NEW g, Goes(r, g)
  PROVE  DOMAIN requests' = Requests /\ \A q \in Requests : requests'[q] = IF q = r THEN g ELSE requests[q]
BY DEF Typed, Goes

\* A request that goes on to a frame, and every frame with it.
LEMMA FramesAfter ==
  ASSUME Typed, NEW r \in Requests, NEW g, Goes(r, g), IsFrame(g)
  PROVE  DOMAIN requests' = Requests /\ \A q \in Requests : IsFrame(requests'[q])
<1>1. DOMAIN requests' = Requests /\ \A q \in Requests : requests'[q] = IF q = r THEN g ELSE requests[q]
  BY FrameAfter
<1>2. \A q \in Requests : IsFrame(requests[q])
  BY DEF Typed
<1> QED
  BY <1>1, <1>2

LEMMA QuietGoing ==
  ASSUME Typed, NEW r \in Requests, NEW g, Goes(r, g)
  PROVE  /\ ~ Lists(g) => NoPublishing
         /\ g.op # "resolve" => NoResolving /\ NewResolutions /\ SameLanded
<1>1. \A q \in Requests : requests'[q] = IF q = r THEN g ELSE requests[q]
  BY FrameAfter
<1>2. ~ Lists(g) => NoPublishing
  BY <1>1 DEF NoPublishing
<1>3. g.op # "resolve" => NoResolving
  BY <1>1 DEF NoResolving
<1> QED
  BY <1>2, <1>3, SameChain

LEMMA IdleFrame == IsFrame(Idle) /\ Idle.op = "idle" /\ ~ Lists(Idle)
BY DEF IsFrame, Idle, Lists

\* A step that changes the tables of requests only.
LEMMA OnlyRequests ==
  ASSUME DeskInv, UNCHANGED <<db, chain, notes>>, NEW r \in Requests, NEW g, Goes(r, g), IsFrame(g), ~ Lists(g),
         NewResolutions, SameLanded
  PROVE  DeskInv'
<1>1. UNCHANGED <<orgs, disputes, rows, paid, programs, listed, wallets, escrows, reports, missing, overwritten, settledOn>>
  BY DEF db, chain, notes
<1>2. Typed
  BY DEF DeskInv
<1>3. DOMAIN requests' = Requests /\ \A q \in Requests : IsFrame(requests'[q])
  BY <1>2, FramesAfter
<1>4. Typed'
  BY <1>1, <1>2, <1>3 DEF Typed, IsFrame
<1>5. NoPublishing
  BY <1>2, QuietGoing
<1>6. Steady /\ SameNumbers /\ SameClosed
  BY <1>1, SameChain DEF Steady
<1> QED
  BY <1>4, <1>5, <1>6, QuietKeeps

-----------------------------------------------------------------------------
(* The invariant, action by action: the bootstrap script and publications. *)
LEMMA EnsureInitializedStep ==
  ASSUME DeskInv, NEW p \in Programs, EnsureInitialized(p)
  PROVE  DeskInv'
<1>1. /\ UNCHANGED <<orgs, disputes, rows, paid, requests, listed, wallets, escrows, reports, missing, overwritten, settledOn>>
      /\ programs' = programs \cup {p}
  BY Zenon DEF EnsureInitialized, HandleInitialize, db, notes
<1>2. Typed'
  BY <1>1 DEF DeskInv, Typed, IsFrame
<1>3. Steady /\ SameNumbers /\ NoPublishing /\ SameClosed /\ SameLanded
  BY <1>1, SameChain DEF Steady
<1> QED
  BY <1>2, <1>3, QuietKeeps

\* A listing takes the next number; a wallet account takes its listing's wallet, or the seed's.
LEMMA ListingKeeps ==
  ASSUME Typed, NEW key \in Keys, Len(listed) < MaxListings, Listing(key), UNCHANGED overwritten
  PROVE  /\ listed' \in Seq(Keys) /\ Len(listed') = Len(listed) + 1 /\ Len(listed') <= MaxListings
         /\ DOMAIN listed' = 1..(Len(listed) + 1) /\ listed'[Len(listed) + 1] = key
         /\ WalletsGrow
<1>1. listed \in Seq(Keys) /\ Len(listed) \in Nat /\ MaxListings \in Nat
  BY Sizes DEF Typed
<1>2. listed' = Append(listed, key) /\ UNCHANGED wallets
  BY DEF Listing
<1>3. /\ listed' \in Seq(Keys) /\ Len(listed') = Len(listed) + 1 /\ Len(listed') <= MaxListings
      /\ \A i \in DOMAIN listed : i \in DOMAIN listed' /\ listed'[i] = listed[i]
      /\ DOMAIN listed' = 1..(Len(listed) + 1) /\ listed'[Len(listed) + 1] = key
  BY <1>1, <1>2
<1> QED
  BY <1>2, <1>3 DEF WalletsGrow

LEMMA PayingKeeps ==
  ASSUME Typed, NEW id \in 1..Len(listed), NEW key \in Keys, Paying(id, key), overwritten \subseteq overwritten',
         \/ key = listed[id]
         \/ /\ id \in DOMAIN SeedWallet /\ key = Wallet(SeedWallet[id])
            /\ id \in DOMAIN wallets /\ wallets[id] # key => id \in overwritten'
  PROVE  /\ DOMAIN wallets' = DOMAIN wallets \cup {id} /\ wallets'[id] = key
         /\ \A k \in DOMAIN wallets' : wallets'[k] \in Keys
         /\ WalletsGrow
<1>1. /\ wallets' = With(wallets, id, key) /\ UNCHANGED <<programs, listed, escrows>>
      /\ \A k \in DOMAIN wallets : wallets[k] \in Keys
  BY DEF Paying, Typed
<1>2. /\ DOMAIN wallets' = DOMAIN wallets \cup {id} /\ wallets'[id] = key
      /\ \A k \in DOMAIN wallets : k # id => wallets'[k] = wallets[k]
  BY <1>1 DEF With
<1>3. \A k \in DOMAIN wallets' : wallets'[k] \in Keys
  BY <1>1, <1>2
<1>4. WalletsGrow
  BY <1>1, <1>2 DEF WalletsGrow
<1> QED
  BY <1>2, <1>3, <1>4

LEMMA EnsureMerchantListedStep ==
  ASSUME DeskInv, NEW i \in DOMAIN SeedWallet, EnsureMerchantListed(i)
  PROVE  DeskInv'
<1> DEFINE key == Wallet(SeedWallet[i])
<1>1. Typed
  BY DEF DeskInv
<1>2. /\ UNCHANGED <<orgs, disputes, rows, paid, requests, reports, missing, overwritten, settledOn>>
      /\ i = Len(listed) + 1 /\ Listing(key)
  BY <1>1, EnsureListedSteps DEF db, notes
<1>3. key \in Keys /\ i \in 1..MaxListings /\ Len(listed) \in Nat
  BY <1>1, TheKeys, IdsSmall
<1> HIDE DEF key
<1>4. Len(listed) < MaxListings
  BY <1>2, <1>3, Sizes
<1>5. /\ listed' \in Seq(Keys) /\ Len(listed') = Len(listed) + 1 /\ Len(listed') <= MaxListings
      /\ DOMAIN listed \subseteq DOMAIN listed' /\ WalletsGrow
  BY <1>1, <1>2, <1>3, <1>4, ListingKeeps DEF WalletsGrow
<1>6. UNCHANGED <<programs, wallets, escrows>>
  BY <1>2 DEF Listing
<1>7. Typed'
  BY <1>1, <1>2, <1>3, <1>5, <1>6 DEF Typed, IsFrame
<1>8. Steady /\ SameNumbers /\ NoPublishing /\ SameClosed /\ SameLanded
  BY <1>2, <1>5, <1>6, SameChain DEF Steady
<1> QED
  BY <1>7, <1>8, QuietKeeps

LEMMA LookForWalletStep ==
  ASSUME DeskInv, NEW i \in DOMAIN SeedWallet, LookForWallet(i)
  PROVE  DeskInv'
<1>1. /\ UNCHANGED <<orgs, disputes, rows, paid, requests, programs, listed, wallets, escrows, reports, overwritten, settledOn>>
      /\ missing' = missing \cup {i} /\ i <= Len(listed)
  BY Zenon DEF LookForWallet, db, chain
<1>2. i \in DOMAIN listed
  BY <1>1, IdsSmall, TheKeys DEF DeskInv
<1>3. Typed'
  BY <1>1, <1>2 DEF DeskInv, Typed, IsFrame
<1>4. Steady /\ SameNumbers /\ NoPublishing /\ SameClosed /\ SameLanded
  BY <1>1, SameChain DEF Steady
<1> QED
  BY <1>3, <1>4, QuietKeeps

LEMMA SetSeedWalletStep ==
  ASSUME DeskInv, NEW i \in DOMAIN SeedWallet, SetSeedWallet(i)
  PROVE  DeskInv'
<1> DEFINE key == Wallet(SeedWallet[i])
<1>1. Typed
  BY DEF DeskInv
<1>2. /\ i \in missing /\ Paying(i, key)
      /\ overwritten' = IF i \in DOMAIN wallets /\ wallets[i] # key THEN overwritten \cup {i} ELSE overwritten
      /\ UNCHANGED <<orgs, disputes, rows, paid, requests, reports, missing, settledOn>>
  BY <1>1, SetSeedWalletSteps DEF db
<1>3. key \in Keys /\ i \in 1..Len(listed)
  <2>1. i \in DOMAIN listed
    BY <1>1, <1>2 DEF Typed
  <2> QED
    BY <1>1, <2>1, TheKeys, IdsSmall
<1>4. overwritten \subseteq overwritten' /\ (i \in DOMAIN wallets /\ wallets[i] # key => i \in overwritten')
  BY <1>2
<1>5. /\ DOMAIN wallets' = DOMAIN wallets \cup {i} /\ \A k \in DOMAIN wallets' : wallets'[k] \in Keys
      /\ WalletsGrow
  BY <1>1, <1>2, <1>3, <1>4, PayingKeeps
<1> HIDE DEF key
<1>6. UNCHANGED <<programs, listed, escrows>> /\ overwritten' \subseteq DOMAIN SeedWallet
  BY <1>1, <1>2 DEF Paying, Typed
<1>7. Typed'
  BY <1>1, <1>2, <1>3, <1>5, <1>6 DEF Typed, IsFrame
<1>8. Steady /\ SameNumbers /\ NoPublishing /\ SameClosed /\ SameLanded
  BY <1>2, <1>5, <1>6, SameChain DEF Steady
<1> QED
  BY <1>7, <1>8, QuietKeeps

LEMMA CreateMerchantOrgStep ==
  ASSUME DeskInv, NEW o \in Orgs, CreateMerchantOrg(o)
  PROVE  DeskInv'
<1>1. /\ orgs' = [orgs EXCEPT ![o].exists = TRUE]
      /\ UNCHANGED <<disputes, rows, paid, programs, listed, wallets, escrows, requests, reports, missing, overwritten, settledOn>>
  BY DEF CreateMerchantOrg, chain, notes
<1>2. orgs' \in [Orgs -> [exists : BOOLEAN, chainId : 0..MaxListings]] /\ SameNumbers
  BY <1>1 DEF DeskInv, Typed, SameNumbers
<1>3. Typed'
  BY <1>1, <1>2 DEF DeskInv, Typed, IsFrame
<1>4. Steady /\ NoPublishing /\ SameClosed /\ SameLanded
  BY <1>1, SameChain DEF Steady
<1> QED
  BY <1>2, <1>3, <1>4, QuietKeeps

LEMMA PublishStep ==
  ASSUME DeskInv, NEW r \in Requests, NEW o \in Orgs, Publish(r, o)
  PROVE  DeskInv'
<1> DEFINE g == [op |-> "publish", at |-> "id", org |-> o]
<1>1. Goes(r, g) /\ UNCHANGED <<db, chain, notes>>
  BY DEF Publish, Begin, Goes
<1>2. IsFrame(g) /\ g.op # "resolve" /\ ~ Lists(g)
  BY DEF IsFrame, Lists, AtId
<1> HIDE DEF g
<1>3. NewResolutions /\ SameLanded
  BY <1>1, <1>2, QuietGoing DEF DeskInv
<1> QED
  BY <1>1, <1>2, <1>3, OnlyRequests

LEMMA ReadNextIdStep ==
  ASSUME DeskInv, NEW r \in Requests, ReadNextId(r)
  PROVE  DeskInv'
<1>1. Typed
  BY DEF DeskInv
<1>2. /\ requests[r] \in AtId /\ UNCHANGED <<db, chain, notes>>
      /\ \/ \E id \in 1..MaxListings :
               Goes(r, [op |-> "publish", at |-> "list", org |-> requests[r].org, id |-> id])
         \/ Goes(r, Idle)
  BY <1>1, ReadNextIdSteps
<1>3. PICK g : Goes(r, g) /\ IsFrame(g) /\ g.op # "resolve" /\ ~ Lists(g)
  <2>1. CASE Goes(r, Idle)
    BY <2>1, IdleFrame
  <2>2. ASSUME NEW id \in 1..MaxListings, Goes(r, [op |-> "publish", at |-> "list", org |-> requests[r].org, id |-> id])
        PROVE  \E g : Goes(r, g) /\ IsFrame(g) /\ g.op # "resolve" /\ ~ Lists(g)
    <3> DEFINE h == [op |-> "publish", at |-> "list", org |-> requests[r].org, id |-> id]
    <3>1. h \in AfterId /\ h.op # "resolve" /\ ~ Lists(h)
      BY <1>2 DEF AtId, AfterId, Lists
    <3> QED
      BY <2>2, <3>1 DEF IsFrame
  <2> QED
    BY <1>2, <2>1, <2>2
<1>4. NewResolutions /\ SameLanded
  BY <1>1, <1>3, QuietGoing
<1> QED
  BY <1>2, <1>3, <1>4, OnlyRequests

LEMMA SendListingStep ==
  ASSUME DeskInv, NEW r \in Requests, SendListing(r)
  PROVE  DeskInv'
<1> DEFINE f == requests[r]
           id == Len(listed) + 1
           key == Wallet(Payout[f.org])
           g == [f EXCEPT !.at = "wallet"]
<1>1. Typed /\ Registered /\ Published /\ SettledOnce
  BY DEF DeskInv
<1>2. /\ f.op = "publish" /\ f.at = "list" /\ UNCHANGED <<db, notes>>
      /\ \/ f.id = id /\ Listing(key) /\ (Goes(r, g) \/ Goes(r, Idle))
         \/ UNCHANGED chain /\ Goes(r, Idle)
  BY <1>1, SendListingSteps
<1>3. f \in AfterId /\ key \in Keys
  BY <1>1, <1>2, PublishFrame
<1>4. CASE UNCHANGED chain /\ Goes(r, Idle)
  <2>1. NewResolutions /\ SameLanded
    BY <1>1, <1>4, IdleFrame, QuietGoing
  <2> QED
    BY <1>2, <1>4, <2>1, IdleFrame, OnlyRequests
<1>5. CASE f.id = id /\ Listing(key) /\ (Goes(r, g) \/ Goes(r, Idle))
  <2>1. id \in 1..MaxListings /\ Len(listed) \in Nat /\ DOMAIN listed = 1..Len(listed)
    BY <1>1, <1>3, <1>5, IdsSmall DEF AfterId
  <2>2. Len(listed) < MaxListings /\ id \notin DOMAIN listed
    BY <2>1, Sizes
  <2>3. g \in AfterId /\ g.op # "resolve" /\ g.id = id /\ g.org = f.org /\ g.at = "wallet"
    BY <1>3, <1>5 DEF AfterId
  <2>4. IsFrame(g)
    BY <2>3 DEF IsFrame
  <2> HIDE DEF g
  <2>5. UNCHANGED <<orgs, disputes, rows, paid, programs, wallets, escrows, reports, missing, overwritten, settledOn>>
    BY <1>2, <1>5 DEF db, notes, Listing
  <2>6. /\ listed' \in Seq(Keys) /\ Len(listed') = Len(listed) + 1 /\ Len(listed') <= MaxListings
        /\ DOMAIN listed' = 1..(Len(listed) + 1) /\ listed'[id] = key /\ WalletsGrow
    BY <1>1, <1>3, <1>5, <2>2, <2>5, ListingKeeps
  <2>7. DOMAIN requests' = Requests /\ \A q \in Requests : IsFrame(requests'[q])
    BY <1>1, <1>5, <2>4, IdleFrame, FramesAfter
  <2>8. Typed'
    <3>1. DOMAIN listed \subseteq DOMAIN listed' /\ 1..Len(listed) \subseteq 1..Len(listed')
      BY <2>1, <2>6
    <3> QED
      BY <1>1, <2>5, <2>6, <2>7, <3>1 DEF Typed, IsFrame
  <2>9. NewResolutions /\ SameLanded
    BY <1>1, <1>5, <2>3, IdleFrame, QuietGoing
  <2>10. Steady /\ SameNumbers /\ SameClosed
    BY <2>5, <2>6, <2>9, SameChain DEF Steady
  <2>11. CASE Goes(r, Idle)
    <3>1. NoPublishing
      BY <1>1, <2>11, IdleFrame, QuietGoing
    <3> QED
      BY <2>8, <2>9, <2>10, <3>1, QuietKeeps
  <2>12. CASE Goes(r, g)
    <3>1. DOMAIN requests' = Requests /\ \A q \in Requests : requests'[q] = IF q = r THEN g ELSE requests[q]
      BY <1>1, <2>12, FrameAfter
    <3>2. ASSUME NEW q \in Requests, Lists(requests[q]) PROVE requests[q].id # id
      BY <1>1, <2>2, <3>2 DEF Published, Holds
    <3>3. ASSUME NEW o \in Orgs PROVE orgs'[o].chainId # id
      <4>1. orgs[o].chainId \in 0..MaxListings
        BY <1>1 DEF Typed
      <4> QED
        BY <1>1, <2>1, <2>2, <2>5, <4>1 DEF Registered, PaysOrg
    <3>4. ASSUME NEW q \in Requests, Lists(requests'[q]) PROVE Holds(q)'
      <4>1. CASE q = r
        <5>1. requests'[q] = g
          BY <3>1, <4>1
        <5>2. g.id \in DOMAIN listed' /\ listed'[g.id] = Wallet(Payout[g.org])
          BY <2>1, <2>3, <2>6
        <5>3. \A p \in Requests \ {q} : Lists(requests'[p]) => requests'[p].id # id
          BY <3>1, <3>2, <4>1
        <5> QED
          BY <2>3, <3>3, <5>1, <5>2, <5>3 DEF Holds, Lists, PaysOrg
      <4>2. CASE q # r
        <5>1. PICK h : h = requests[q]
          OBVIOUS
        <5>2. requests'[q] = h /\ Lists(h) /\ Holds(q)
          BY <1>1, <3>1, <3>4, <4>2, <5>1 DEF Published
        <5>3. h.org \in Orgs
          BY <1>1, <5>1, <5>2, PublishFrame DEF AfterId, Lists
        <5>4. h.id \in DOMAIN listed' /\ listed'[h.id] = Wallet(Payout[h.org]) /\ \A o \in Orgs : orgs'[o].chainId # h.id
          BY <2>5, <2>6, <5>1, <5>2 DEF Holds, WalletsGrow
        <5>5. h.at = "stamp" => PaysOrg(h.id, h.org)'
          BY <1>1, <2>6, <5>1, <5>2, <5>3, PaysStill DEF Holds
        <5>6. \A p \in Requests \ {q} : Lists(requests'[p]) => requests'[p].id # h.id
          BY <2>3, <3>1, <3>2, <5>1, <5>2 DEF Holds
        <5> QED
          BY <5>2, <5>4, <5>5, <5>6 DEF Holds, PaysOrg, Lists
      <4> QED
        BY <4>1, <4>2
    <3>5. Published'
      BY <3>4 DEF Published, Lists
    <3>6. Registered' /\ SettledOnce'
      BY <1>1, <2>6, <2>9, <2>10, KeepsRegistered, KeepsSettled DEF Steady
    <3> QED
      BY <2>8, <2>10, <3>5, <3>6, SteadyKeeps
  <2> QED
    BY <1>5, <2>11, <2>12
<1> QED
  BY <1>2, <1>4, <1>5

LEMMA SendWalletStep ==
  ASSUME DeskInv, NEW r \in Requests, SendWallet(r)
  PROVE  DeskInv'
<1> DEFINE f == requests[r]
           key == Wallet(Payout[f.org])
           g == [f EXCEPT !.at = "stamp"]
<1>1. Typed /\ Registered /\ Published /\ SettledOnce
  BY DEF DeskInv
<1>2. /\ f.op = "publish" /\ f.at = "wallet" /\ UNCHANGED <<db, notes>>
      /\ \/ Paying(f.id, key) /\ (Goes(r, g) \/ Goes(r, Idle))
         \/ UNCHANGED chain /\ Goes(r, Idle)
  BY <1>1, SendWalletSteps
<1>3. f \in AfterId /\ key \in Keys
  BY <1>1, <1>2, PublishFrame
<1>4. CASE UNCHANGED chain /\ Goes(r, Idle)
  <2>1. NewResolutions /\ SameLanded
    BY <1>1, <1>4, IdleFrame, QuietGoing
  <2> QED
    BY <1>2, <1>4, <2>1, IdleFrame, OnlyRequests
<1>5. CASE Paying(f.id, key) /\ (Goes(r, g) \/ Goes(r, Idle))
  <2>1. Holds(r) /\ Lists(f)
    BY <1>1, <1>2 DEF Published, Lists
  <2>2. f.id \in 1..Len(listed) /\ f.id \in DOMAIN listed /\ listed[f.id] = key
    BY <1>1, <2>1, IdsSmall DEF Holds
  <2>3. g \in AfterId /\ g.op # "resolve" /\ g.id = f.id /\ g.org = f.org /\ g.at = "stamp"
    BY <1>3 DEF AfterId
  <2>4. IsFrame(g)
    BY <2>3 DEF IsFrame
  <2> HIDE DEF g
  <2>5. UNCHANGED <<orgs, disputes, rows, paid, programs, listed, escrows, reports, missing, overwritten, settledOn>>
    BY <1>2, <1>5 DEF db, notes, Paying
  <2>6. /\ DOMAIN wallets' = DOMAIN wallets \cup {f.id} /\ wallets'[f.id] = key
        /\ \A k \in DOMAIN wallets' : wallets'[k] \in Keys /\ WalletsGrow
    BY <1>1, <1>3, <1>5, <2>2, <2>5, PayingKeeps
  <2>7. DOMAIN requests' = Requests /\ \A q \in Requests : IsFrame(requests'[q])
    BY <1>1, <1>5, <2>4, IdleFrame, FramesAfter
  <2>8. Typed'
    BY <1>1, <2>2, <2>5, <2>6, <2>7 DEF Typed, IsFrame
  <2>9. WalletsGrow
    BY <2>6
  <2>10. NewResolutions /\ SameLanded
    BY <1>1, <1>5, <2>3, IdleFrame, QuietGoing
  <2>11. Steady /\ SameNumbers /\ SameClosed
    BY <2>5, <2>9, <2>10, SameChain DEF Steady
  <2>12. CASE Goes(r, Idle)
    <3>1. NoPublishing
      BY <1>1, <2>12, IdleFrame, QuietGoing
    <3> QED
      BY <2>8, <2>10, <2>11, <3>1, QuietKeeps
  <2>13. CASE Goes(r, g)
    <3>1. DOMAIN requests' = Requests /\ \A q \in Requests : requests'[q] = IF q = r THEN g ELSE requests[q]
      BY <1>1, <2>13, FrameAfter
    <3>2. \A q \in Requests : /\ Lists(requests'[q]) <=> Lists(requests[q])
                              /\ requests'[q].id = requests[q].id /\ requests'[q].org = requests[q].org
      <4>1. Lists(g) /\ Lists(f) /\ requests'[r] = g
        BY <1>3, <2>1, <2>3, <3>1 DEF Lists, AfterId
      <4> QED
        BY <2>3, <3>1, <4>1
    <3>3. ASSUME NEW q \in Requests, Lists(requests'[q]) PROVE Holds(q)'
      <4>1. PICK h : h = requests'[q]
        OBVIOUS
      <4>2. Lists(requests[q]) /\ Holds(q) /\ h.id = requests[q].id /\ h.org = requests[q].org
        BY <1>1, <3>2, <3>3, <4>1 DEF Published
      <4>3. h.org \in Orgs
        BY <1>1, <4>2, PublishFrame DEF AfterId, Lists
      <4>4. h.id \in DOMAIN listed' /\ listed'[h.id] = Wallet(Payout[h.org]) /\ \A o \in Orgs : orgs'[o].chainId # h.id
        BY <2>5, <4>2 DEF Holds
      <4>5. \A p \in Requests \ {q} : Lists(requests'[p]) => requests'[p].id # h.id
        BY <3>2, <4>2 DEF Holds
      <4>6. h.at = "stamp" => PaysOrg(h.id, h.org)'
        <5>1. CASE q = r
          <6>1. h.id \in DOMAIN wallets' /\ wallets'[h.id] = Wallet(Payout[h.org])
            BY <2>6, <4>2, <5>1
          <6> QED
            BY <4>4, <6>1 DEF PaysOrg
        <5>2. CASE q # r
          BY <1>1, <2>9, <3>1, <4>1, <4>2, <4>3, <5>2, PaysStill DEF Holds
        <5> QED
          BY <5>1, <5>2
      <4> QED
        BY <4>1, <4>4, <4>5, <4>6 DEF Holds, PaysOrg, Lists
    <3>4. Published'
      BY <3>3 DEF Published, Lists
    <3>5. Registered' /\ SettledOnce'
      BY <1>1, <2>9, <2>10, <2>11, KeepsRegistered, KeepsSettled DEF Steady
    <3> QED
      BY <2>8, <2>11, <3>4, <3>5, SteadyKeeps
  <2> QED
    BY <1>5, <2>12, <2>13
<1> QED
  BY <1>2, <1>4, <1>5

LEMMA PublishMerchantOrgStep ==
  ASSUME DeskInv, NEW r \in Requests, PublishMerchantOrg(r)
  PROVE  DeskInv'
<1> DEFINE f == requests[r]
<1>1. Typed /\ Registered /\ Published /\ SettledOnce
  BY DEF DeskInv
<1>2. /\ f.op = "publish" /\ f.at = "stamp"
      /\ orgs' = [orgs EXCEPT ![f.org].chainId = f.id] /\ Goes(r, Idle)
      /\ UNCHANGED <<disputes, rows, paid, programs, listed, wallets, escrows, reports, missing, overwritten, settledOn>>
  BY DEF PublishMerchantOrg, At, chain, notes
<1>3. f \in AfterId
  BY <1>1, <1>2, PublishFrame
<1>4. f.org \in Orgs /\ f.id \in 1..MaxListings /\ f.id # 0
  BY <1>3, Sizes DEF AfterId
<1>5. Holds(r) /\ Lists(f) /\ PaysOrg(f.id, f.org)
  BY <1>1, <1>2 DEF Published, Lists, Holds
<1>6. /\ orgs' \in [Orgs -> [exists : BOOLEAN, chainId : 0..MaxListings]]
      /\ \A o \in Orgs : orgs'[o].chainId = IF o = f.org THEN f.id ELSE orgs[o].chainId
  <2>1. f.id \in 0..MaxListings
    BY <1>4, Sizes
  <2> QED
    BY <1>1, <1>2, <1>4, <2>1 DEF Typed
<1>7. DOMAIN requests' = Requests /\ \A q \in Requests : requests'[q] = IF q = r THEN Idle ELSE requests[q]
  BY <1>1, <1>2, FrameAfter
<1>8. Typed'
  <2>1. DOMAIN requests' = Requests /\ \A q \in Requests : IsFrame(requests'[q])
    BY <1>1, <1>2, IdleFrame, FramesAfter
  <2> QED
    BY <1>1, <1>2, <1>6, <2>1 DEF Typed, IsFrame
<1>9. NewResolutions /\ SameLanded
  BY <1>1, <1>2, IdleFrame, QuietGoing
<1>10. Steady /\ SameClosed
  BY <1>2, <1>9, SameChain DEF Steady
<1>11. Registered'
  <2>1. ASSUME NEW o \in Orgs, orgs'[o].chainId # 0
        PROVE  PaysOrg(orgs[o].chainId, o)' /\ \A other \in Orgs \ {o} : orgs'[other].chainId # orgs'[o].chainId
    <3>1. CASE o = f.org
      <4>1. orgs'[o].chainId = f.id /\ \A other \in Orgs \ {o} : orgs'[other].chainId = orgs[other].chainId
        BY <1>6, <3>1
      <4> QED
        BY <1>2, <1>5, <3>1, <4>1 DEF Holds, PaysOrg
    <3>2. CASE o # f.org
      <4>1. orgs'[o].chainId = orgs[o].chainId /\ orgs[o].chainId # f.id
        BY <1>5, <1>6, <3>2 DEF Holds
      <4>2. PaysOrg(orgs[o].chainId, o) /\ \A other \in Orgs \ {o} : orgs[other].chainId # orgs[o].chainId
        BY <1>1, <2>1, <4>1 DEF Registered
      <4> QED
        BY <1>2, <1>6, <4>1, <4>2 DEF PaysOrg
    <3> QED
      BY <3>1, <3>2
  <2> QED
    BY <2>1 DEF Registered
<1>12. Published'
  <2>1. ASSUME NEW q \in Requests, Lists(requests'[q]) PROVE Holds(q)'
    <3>1. q # r /\ requests'[q] = requests[q] /\ Lists(requests[q])
      BY <1>7, <2>1, IdleFrame
    <3>2. Holds(q) /\ requests[q].id # f.id
      BY <1>1, <1>5, <3>1 DEF Published, Holds
    <3>3. \A o \in Orgs : orgs'[o].chainId # requests[q].id
      BY <1>6, <3>2 DEF Holds
    <3>4. \A p \in Requests \ {q} : Lists(requests'[p]) => requests'[p].id # requests[q].id
      BY <1>7, <3>2, IdleFrame DEF Holds
    <3> QED
      BY <1>2, <3>1, <3>2, <3>3, <3>4 DEF Holds, PaysOrg, Lists
  <2> QED
    BY <2>1 DEF Published, Lists
<1>13. SettledOnce'
  BY <1>1, <1>9, <1>10, KeepsSettled DEF Steady
<1> QED
  BY <1>8, <1>10, <1>11, <1>12, <1>13, SteadyKeeps

-----------------------------------------------------------------------------
(* The disputes. *)

\* A resolution that goes on.
LEMMA ResolutionGoes ==
  ASSUME DeskInv, WalletsGrow, EscrowsGrow, NEW r \in Requests, NEW g, Goes(r, g), g.dispute \in Disputes,
         GoodResolve(g)
  PROVE  /\ NewResolutions
         /\ ~ Resolves(g) => SameLanded
         /\ Resolves(requests[r]) /\ g.escrow = requests[r].escrow => SameLanded
<1>1. Typed
  BY DEF DeskInv
<1>2. GoodResolve(g)'
  BY <1>1, GoodStill
<1>3. \A q \in Requests : requests'[q] = IF q = r THEN g ELSE requests[q]
  BY <1>1, FrameAfter
<1>4. GoodResolve(requests[r])'
  BY <1>2, <1>3 DEF GoodResolve, IsOf, DeskPays, PaysOrg
<1> QED
  BY <1>3, <1>4 DEF NewResolutions, SameLanded

LEMMA CreateDisputeStep ==
  ASSUME DeskInv, NEW d \in Disputes, CreateDispute(d)
  PROVE  DeskInv'
<1>1. /\ disputes[d] = "none" /\ disputes' = [disputes EXCEPT ![d] = "open"]
      /\ UNCHANGED <<orgs, rows, paid, programs, listed, wallets, escrows, requests, reports, missing, overwritten, settledOn>>
  BY DEF CreateDispute, chain, notes
<1>2. disputes \in [Disputes -> {"none", "open", "reviewing", "refunded", "released", "closed"}]
  BY DEF DeskInv, Typed
<1>3. Typed'
  BY <1>1, <1>2 DEF DeskInv, Typed, IsFrame
<1>4. SameClosed
  BY <1>1, <1>2 DEF SameClosed, Closes
<1>5. Steady /\ SameNumbers /\ NoPublishing /\ SameLanded
  BY <1>1, SameChain DEF Steady
<1> QED
  BY <1>3, <1>4, <1>5, QuietKeeps

LEMMA SetDisputeStatusStep ==
  ASSUME DeskInv, NEW r \in Requests, NEW d \in Disputes, NEW to \in {"reviewing", "closed"}, SetDisputeStatus(r, d, to)
  PROVE  DeskInv'
<1> DEFINE g == [op |-> "status", at |-> "write", dispute |-> d, to |-> to]
<1>1. Goes(r, g) /\ UNCHANGED <<db, chain, notes>>
  BY DEF SetDisputeStatus, Begin, Goes
<1>2. g \in AtStatus /\ g.op # "resolve" /\ ~ Lists(g)
  BY DEF AtStatus, Lists
<1> HIDE DEF g
<1>3. IsFrame(g)
  BY <1>2 DEF IsFrame
<1>4. NewResolutions /\ SameLanded
  BY <1>1, <1>2, QuietGoing DEF DeskInv
<1> QED
  BY <1>1, <1>2, <1>3, <1>4, OnlyRequests

LEMMA ResolveDisputeStep ==
  ASSUME DeskInv, NEW r \in Requests, NEW d \in Disputes, NEW to \in {"refunded", "released"}, ResolveDispute(r, d, to)
  PROVE  DeskInv'
<1> DEFINE x == OrderOf[d]
           e == rows[x].escrow
           g == [op |-> "resolve", at |-> "org", dispute |-> d, to |-> to, escrow |-> e]
<1>1. Goes(r, g) /\ UNCHANGED <<db, chain, notes>> /\ e # 0
  BY DEF ResolveDispute, Begin, Goes
<1>2. x \in Orders
  BY DeskAssumption
<1>3. IsOf(e, x) /\ e \in 1..MaxEscrows
  <2>1. GoodRow(x)
    BY <1>2 DEF DeskInv, Escrowed
  <2>2. IsOf(e, x)
    BY <1>1, <2>1 DEF GoodRow
  <2> QED
    BY <2>2, IdsSmall DEF DeskInv, IsOf
<1>4. g \in AtOrg /\ g.dispute = d /\ g.escrow = e /\ g.at = "org" /\ g.op = "resolve"
  BY <1>3 DEF AtOrg, Answers
<1> HIDE DEF g, e
<1>5. IsFrame(g) /\ ~ Lists(g) /\ ~ Resolves(g) /\ GoodResolve(g)
  BY <1>3, <1>4 DEF IsFrame, Lists, Resolves, GoodResolve
<1>6. WalletsGrow /\ EscrowsGrow
  BY <1>1, SameChain DEF chain, notes
<1>7. NewResolutions /\ SameLanded
  BY <1>1, <1>4, <1>5, <1>6, ResolutionGoes
<1> QED
  BY <1>1, <1>5, <1>7, OnlyRequests

LEMMA ReadOrgStep ==
  ASSUME DeskInv, NEW r \in Requests, ReadOrg(r)
  PROVE  DeskInv'
<1> DEFINE f == requests[r]
           o == OrgOf[OrderOf[f.dispute]]
           id == orgs[o].chainId
           g == [op |-> "resolve", at |-> "wallet", dispute |-> f.dispute, to |-> f.to, escrow |-> f.escrow, id |-> id]
<1>1. f.op = "resolve" /\ f.at = "org" /\ Goes(r, IF id = 0 THEN Idle ELSE g) /\ UNCHANGED <<db, chain, notes>>
  BY Zenon DEF ReadOrg, At
<1>2. f.dispute \in Disputes /\ f.to \in Answers /\ f.escrow \in 1..MaxEscrows /\ o \in Orgs
  BY <1>1, ResolveFrame DEF DeskInv
<1>3. CASE id = 0
  <2>1. Goes(r, Idle)
    BY <1>1, <1>3
  <2>2. NewResolutions /\ SameLanded
    BY <2>1, IdleFrame, QuietGoing DEF DeskInv
  <2> QED
    BY <1>1, <2>1, <2>2, IdleFrame, OnlyRequests
<1>4. CASE id # 0
  <2>1. PaysOrg(id, o)
    BY <1>2, <1>4 DEF DeskInv, Registered
  <2>2. id \in 1..MaxListings
    BY <2>1, IdsSmall DEF DeskInv, PaysOrg
  <2>3. GoodResolve(f)
    BY <1>1 DEF DeskInv, Resolving
  <2>4. /\ g \in AtWallet /\ g.op = "resolve" /\ g.at = "wallet" /\ g.dispute = f.dispute /\ g.escrow = f.escrow
        /\ g.id = id
    BY <1>2, <2>2 DEF AtWallet
  <2>5. Goes(r, g)
    BY <1>1, <1>4
  <2> HIDE DEF g, id
  <2>6. IsFrame(g) /\ ~ Lists(g) /\ ~ Resolves(g) /\ GoodResolve(g)
    BY <2>1, <2>3, <2>4 DEF IsFrame, Lists, Resolves, GoodResolve
  <2>7. WalletsGrow /\ EscrowsGrow
    BY <1>1, SameChain DEF chain, notes
  <2>8. NewResolutions /\ SameLanded
    BY <1>2, <2>4, <2>5, <2>6, <2>7, ResolutionGoes
  <2> QED
    BY <1>1, <2>5, <2>6, <2>8, OnlyRequests
<1> QED
  BY <1>3, <1>4

LEMMA ReadWalletStep ==
  ASSUME DeskInv, NEW r \in Requests, ReadWallet(r)
  PROVE  DeskInv'
<1> DEFINE f == requests[r]
           x == OrderOf[f.dispute]
           key == wallets[f.id]
           g == [op |-> "resolve", at |-> "send", dispute |-> f.dispute, to |-> f.to, escrow |-> f.escrow,
                 id |-> f.id, wallet |-> key]
<1>1. /\ f.op = "resolve" /\ f.at = "wallet" /\ UNCHANGED <<db, chain, notes>>
      /\ Goes(r, Idle) \/ (f.id \in DOMAIN wallets /\ Goes(r, g))
  BY ReadWalletSteps DEF DeskInv
<1>2. /\ f.dispute \in Disputes /\ f.to \in Answers /\ f.escrow \in 1..MaxEscrows /\ OrgOf[x] \in Orgs
      /\ f \in AtWallet
  BY <1>1, ResolveFrame DEF DeskInv
<1>3. CASE Goes(r, Idle)
  <2>1. NewResolutions /\ SameLanded
    BY <1>3, IdleFrame, QuietGoing DEF DeskInv
  <2> QED
    BY <1>1, <1>3, <2>1, IdleFrame, OnlyRequests
<1>4. CASE f.id \in DOMAIN wallets /\ Goes(r, g)
  <2>1. GoodResolve(f)
    BY <1>1 DEF DeskInv, Resolving
  <2>2. PaysOrg(f.id, OrgOf[x])
    BY <1>1, <2>1 DEF GoodResolve
  <2>3. key \in DeskPays(x) /\ key \in Keys
    BY <1>4, <2>2 DEF PaysOrg, DeskPays, DeskInv, Typed
  <2>4. /\ g \in Sending /\ g.op = "resolve" /\ g.at = "send" /\ g.dispute = f.dispute /\ g.escrow = f.escrow
        /\ g.wallet = key
    BY <1>2, <2>3 DEF AtWallet, Sending
  <2> HIDE DEF g, key
  <2>5. IsFrame(g) /\ ~ Lists(g) /\ ~ Resolves(g) /\ GoodResolve(g)
    BY <2>1, <2>3, <2>4 DEF IsFrame, Lists, Resolves, GoodResolve
  <2>6. WalletsGrow /\ EscrowsGrow
    BY <1>1, SameChain DEF chain, notes
  <2>7. NewResolutions /\ SameLanded
    BY <1>2, <1>4, <2>4, <2>5, <2>6, ResolutionGoes
  <2> QED
    BY <1>1, <1>4, <2>5, <2>7, OnlyRequests
<1> QED
  BY <1>1, <1>3, <1>4

LEMMA FailStep ==
  ASSUME DeskInv, NEW r \in Requests, Fail(r)
  PROVE  DeskInv'
<1>1. Goes(r, Idle) /\ UNCHANGED <<db, chain, notes>>
  BY DEF Fail
<1>2. NewResolutions /\ SameLanded
  BY <1>1, IdleFrame, QuietGoing DEF DeskInv
<1> QED
  BY <1>1, <1>2, IdleFrame, OnlyRequests

LEMMA FunctionIsSeq ==
  ASSUME NEW S, NEW n \in Nat, NEW s \in [1..n -> S]
  PROVE  s \in Seq(S) /\ Len(s) = n
OBVIOUS

\* An escrow in a new state: those before it stay as they are.
LEMMA EscrowMoves ==
  ASSUME Typed, NEW e \in DOMAIN escrows, escrows[e].state \in {"Funded", "Disputed"},
         NEW state \in {"Disputed", "Released", "Refunded"}, NEW to \in Keys \cup {NoOne, Wallet(Buyer)},
         escrows' = [escrows EXCEPT ![e].state = state, ![e].paidTo = to]
  PROVE  /\ escrows' \in Seq(Escrow) /\ Len(escrows') = Len(escrows) /\ DOMAIN escrows' = DOMAIN escrows
         /\ escrows'[e].state = state /\ escrows'[e].paidTo = to
         /\ escrows'[e].order = escrows[e].order /\ escrows'[e].merchantId = escrows[e].merchantId
         /\ \A i \in DOMAIN escrows : i # e => escrows'[i] = escrows[i]
         /\ EscrowsGrow
<1>1. escrows \in Seq(Escrow) /\ escrows[e] \in Escrow
  BY IdsSmall DEF Typed
<1>2. DOMAIN escrows = 1..Len(escrows) /\ Len(escrows) \in Nat
  BY IdsSmall
<1>3. [escrows[e] EXCEPT !.state = state, !.paidTo = to] \in Escrow
  BY <1>1 DEF Escrow
<1>4. /\ DOMAIN escrows' = DOMAIN escrows
      /\ escrows'[e] = [escrows[e] EXCEPT !.state = state, !.paidTo = to]
      /\ \A i \in DOMAIN escrows : i # e => escrows'[i] = escrows[i]
  OBVIOUS
<1>5. \A i \in DOMAIN escrows : escrows'[i] \in Escrow
  BY <1>1, <1>3, <1>4, IdsSmall
<1>6. escrows' \in Seq(Escrow) /\ Len(escrows') = Len(escrows)
  <2>1. \A n \in Nat : \A s \in [1..n -> Escrow] : s \in Seq(Escrow) /\ Len(s) = n
    BY FunctionIsSeq
  <2>2. escrows' \in [1..Len(escrows) -> Escrow]
    BY <1>2, <1>4, <1>5
  <2> QED
    BY <1>2, <2>1, <2>2, Zenon
<1>7. /\ escrows'[e].state = state /\ escrows'[e].paidTo = to
      /\ escrows'[e].order = escrows[e].order /\ escrows'[e].merchantId = escrows[e].merchantId
  BY <1>1, <1>4 DEF Escrow
<1>8. EscrowsGrow
  BY <1>4, <1>7 DEF EscrowsGrow
<1> QED
  BY <1>4, <1>6, <1>7, <1>8

\* The escrows settled: the one that moves may go to the buyer or to whom it may pay.
LEMMA SettlingKeeps ==
  ASSUME DeskInv, WalletsGrow, NEW e \in DOMAIN escrows, EscrowsGrow, DOMAIN escrows' = DOMAIN escrows,
         \A i \in DOMAIN escrows : i # e => escrows'[i] = escrows[i],
         escrows'[e].state = "Refunded" => escrows'[e].paidTo = Wallet(Buyer),
         escrows'[e].state = "Released" => escrows'[e].paidTo \in Payees(e)
  PROVE  NewEscrows
<1>1. GoodEscrow(e) /\ Typed
  BY DEF DeskInv, Escrowed
<1>2. escrows[e].merchantId \in DOMAIN listed
  BY <1>1, IdsSmall DEF GoodEscrow, Typed
<1>3. escrows'[e].merchantId = escrows[e].merchantId /\ escrows'[e].order = escrows[e].order
  BY DEF EscrowsGrow
<1>4. Payees(e) \subseteq Payees(e)'
  BY <1>2, <1>3 DEF Payees, WalletsGrow
<1>5. GoodEscrow(e)'
  BY <1>1, <1>3, <1>4 DEF GoodEscrow, WalletsGrow
<1> QED
  BY <1>5 DEF NewEscrows

LEMMA SendResolveStep ==
  ASSUME DeskInv, NEW r \in Requests, SendResolve(r)
  PROVE  DeskInv'
<1> DEFINE f == requests[r]
           e == f.escrow
           x == OrderOf[f.dispute]
           to == IF f.to = "released" THEN f.wallet ELSE Wallet(Buyer)
           g == [f EXCEPT !.at = "row"]
<1>1. Typed /\ Registered /\ Published /\ SettledOnce
  BY DEF DeskInv
<1>2. /\ f.op = "resolve" /\ f.at = "send" /\ UNCHANGED <<db, notes>>
      /\ \/ /\ escrows[e].state = "Disputed" /\ UNCHANGED <<programs, listed, wallets>>
            /\ escrows' = [escrows EXCEPT ![e].state = Outcome(f.to), ![e].paidTo = to]
            /\ Goes(r, g) \/ Goes(r, Idle)
         \/ UNCHANGED chain /\ Goes(r, Idle)
  BY <1>1, SendResolveSteps
<1>3. f \in Sending /\ f.dispute \in Disputes /\ f.to \in Answers /\ OrgOf[x] \in Orgs
  BY <1>1, <1>2, ResolveFrame
<1>4. GoodResolve(f)
  BY <1>2 DEF DeskInv, Resolving
<1>5. CASE UNCHANGED chain /\ Goes(r, Idle)
  <2>1. NewResolutions /\ SameLanded
    BY <1>1, <1>5, IdleFrame, QuietGoing
  <2> QED
    BY <1>2, <1>5, <2>1, IdleFrame, OnlyRequests
<1>6. CASE /\ escrows[e].state = "Disputed" /\ UNCHANGED <<programs, listed, wallets>>
           /\ escrows' = [escrows EXCEPT ![e].state = Outcome(f.to), ![e].paidTo = to]
           /\ Goes(r, g) \/ Goes(r, Idle)
  <2>1. IsOf(e, x) /\ f.wallet \in DeskPays(x) /\ f.wallet \in Keys
    BY <1>2, <1>3, <1>4 DEF GoodResolve, Sending
  <2>2. /\ Outcome(f.to) \in {"Disputed", "Released", "Refunded"} /\ to \in Keys \cup {NoOne, Wallet(Buyer)}
        /\ Outcome(f.to) = "Refunded" => to = Wallet(Buyer)
        /\ Outcome(f.to) = "Released" => to = f.wallet
    BY <1>3, <2>1 DEF Outcome, Answers
  <2>3. /\ g \in Sending /\ g.op = "resolve" /\ g.at = "row" /\ g.dispute = f.dispute /\ g.escrow = e
        /\ g.wallet = f.wallet /\ g.to = f.to
    BY <1>3 DEF Sending
  <2> HIDE DEF g, to
  <2>4. e \in DOMAIN escrows
    BY <2>1 DEF IsOf
  <2>5. /\ escrows' \in Seq(Escrow) /\ Len(escrows') = Len(escrows) /\ DOMAIN escrows' = DOMAIN escrows
        /\ escrows'[e].state = Outcome(f.to) /\ escrows'[e].paidTo = to
        /\ \A i \in DOMAIN escrows : i # e => escrows'[i] = escrows[i]
        /\ EscrowsGrow
    BY <1>1, <1>6, <2>2, <2>4, EscrowMoves
  <2>6. UNCHANGED <<orgs, disputes, rows, paid, programs, listed, wallets, reports, missing, overwritten, settledOn>>
    BY <1>2, <1>6 DEF db, notes
  <2>7. IsFrame(g) /\ ~ Lists(g)
    BY <2>3 DEF IsFrame, Lists
  <2>8. DOMAIN requests' = Requests /\ \A q \in Requests : IsFrame(requests'[q])
    BY <1>1, <1>6, <2>7, IdleFrame, FramesAfter
  <2>9. Typed'
    BY <1>1, <2>5, <2>6, <2>8 DEF Typed, IsFrame
  <2>10. WalletsGrow /\ SameNumbers /\ NewRows /\ NewReports /\ SameClosed
    BY <2>6, SameChain
  <2>11. NewEscrows
    <3>1. DeskPays(x) \subseteq Payees(e)
      BY <2>1 DEF DeskPays, Payees, IsOf
    <3> QED
      BY <2>1, <2>2, <2>4, <2>5, <2>10, <3>1, SettlingKeeps
  <2>12. NoPublishing
    BY <1>1, <1>6, <2>7, IdleFrame, QuietGoing
  <2>13. CASE Goes(r, Idle)
    <3>1. NewResolutions /\ SameLanded
      BY <1>1, <2>13, IdleFrame, QuietGoing
    <3>2. Steady
      BY <2>5, <2>10, <2>11, <3>1 DEF Steady
    <3> QED
      BY <2>9, <2>10, <2>12, <3>1, <3>2, QuietKeeps
  <2>14. CASE Goes(r, g)
    <3>1. \A q \in Requests : requests'[q] = IF q = r THEN g ELSE requests[q]
      BY <1>1, <2>14, FrameAfter
    <3>2. GoodResolve(requests[r])'
      <4>1. e \in DOMAIN escrows' /\ escrows'[e].order = x
        BY <2>1, <2>5 DEF IsOf, EscrowsGrow
      <4>2. f.wallet \in {Wallet(Payout[OrgOf[x]])} \cup {Wallet(SeedWallet[i]) : i \in overwritten'}
        BY <2>1, <2>6 DEF DeskPays
      <4>3. requests'[r] = g
        BY <3>1
      <4> QED
        BY <2>3, <2>5, <4>1, <4>2, <4>3 DEF GoodResolve, IsOf, DeskPays
    <3>3. NewResolutions
      BY <3>1, <3>2 DEF NewResolutions
    <3>4. Steady
      BY <2>5, <2>10, <2>11, <3>3 DEF Steady
    <3>5. Registered' /\ Published'
      BY <1>1, <2>10, <2>12, KeepsRegistered, KeepsPublished
    <3>6. ASSUME NEW d \in Disputes, Closes(d)' PROVE settledOn'[d] # e /\ Closes(d)
      BY <1>1, <1>6, <2>6, <3>6 DEF SettledOnce, Closes, Outcome
    <3>7. ASSUME NEW q \in Requests \ {r}, Resolves(requests'[q])
          PROVE  Resolves(requests[q]) /\ requests'[q] = requests[q] /\ requests[q].escrow # e
      <4>1. requests'[q] = requests[q] /\ Resolves(requests[q])
        BY <3>1, <3>7
      <4>2. escrows[requests[q].escrow].state = Outcome(requests[q].to)
        BY <4>1 DEF DeskInv, Resolving, Resolves, GoodResolve
      <4> QED
        BY <1>6, <4>1, <4>2 DEF Outcome
    <3>8. SettledOnce'
      <4>1. ASSUME NEW d \in Disputes, Closes(d)'
            PROVE  /\ IsOf(settledOn[d], OrderOf[d])' /\ escrows'[settledOn'[d]].state = Outcome(disputes'[d])
                   /\ \A other \in Disputes \ {d} : Closes(other)' => settledOn'[other] # settledOn'[d]
        <5>1. Closes(d) /\ settledOn'[d] = settledOn[d] /\ disputes'[d] = disputes[d] /\ settledOn[d] # e
          BY <2>6, <3>6, <4>1
        <5>2. IsOf(settledOn[d], OrderOf[d]) /\ escrows[settledOn[d]].state = Outcome(disputes[d])
          BY <1>1, <5>1 DEF SettledOnce
        <5>3. escrows'[settledOn[d]] = escrows[settledOn[d]] /\ settledOn[d] \in DOMAIN escrows'
          BY <2>5, <5>1, <5>2 DEF IsOf
        <5>4. \A other \in Disputes \ {d} : Closes(other)' => settledOn'[other] # settledOn'[d]
          BY <1>1, <2>6, <3>6, <5>1 DEF SettledOnce
        <5> QED
          BY <5>1, <5>2, <5>3, <5>4 DEF IsOf
      <4>2. ASSUME NEW p \in Requests, Resolves(requests'[p])
            PROVE  /\ \A d \in Disputes : Closes(d)' => settledOn'[d] # requests'[p].escrow
                   /\ \A q \in Requests \ {p} : Resolves(requests'[q]) => requests'[q].escrow # requests'[p].escrow
        <5>1. CASE p = r
          <6>1. requests'[p].escrow = e
            BY <2>3, <3>1, <5>1
          <6> QED
            BY <3>6, <3>7, <5>1, <6>1
        <5>2. CASE p # r
          <6>1. Resolves(requests[p]) /\ requests'[p] = requests[p] /\ requests[p].escrow # e
            BY <3>7, <4>2, <5>2
          <6>2. \A d \in Disputes : Closes(d)' => settledOn'[d] # requests[p].escrow
            BY <1>1, <2>6, <3>6, <6>1 DEF SettledOnce
          <6>3. ASSUME NEW q \in Requests \ {p}, Resolves(requests'[q]) PROVE requests'[q].escrow # requests[p].escrow
            <7>1. CASE q = r
              BY <2>3, <3>1, <6>1, <7>1
            <7>2. CASE q # r
              BY <1>1, <3>7, <6>1, <6>3, <7>2 DEF SettledOnce
            <7> QED
              BY <7>1, <7>2
          <6> QED
            BY <6>1, <6>2, <6>3
        <5> QED
          BY <5>1, <5>2
      <4> QED
        BY <4>1, <4>2 DEF SettledOnce, Resolves
    <3> QED
      BY <2>9, <3>4, <3>5, <3>8, SteadyKeeps
  <2> QED
    BY <1>6, <2>13, <2>14
<1> QED
  BY <1>2, <1>5, <1>6

\* The row takes a state that the order's escrow has.
LEMMA RowMoves ==
  ASSUME DeskInv, NEW x \in Orders, NEW e, IsOf(e, x), NEW state \in {"Released", "Refunded"},
         escrows[e].state = state, UNCHANGED escrows, rows' = [rows EXCEPT ![x].state = state]
  PROVE  /\ rows' \in [Orders -> [state : {"none", "Funded", "Released", "Refunded"}, escrow : 0..MaxEscrows]]
         /\ NewRows
<1>1. rows \in [Orders -> [state : {"none", "Funded", "Released", "Refunded"}, escrow : 0..MaxEscrows]]
  BY DEF DeskInv, Typed
<1>2. /\ rows' \in [Orders -> [state : {"none", "Funded", "Released", "Refunded"}, escrow : 0..MaxEscrows]]
      /\ rows'[x].state = state /\ rows'[x].escrow = rows[x].escrow
      /\ \A y \in Orders : y # x => rows'[y] = rows[y]
  BY <1>1
<1>3. GoodRow(x)
  BY DEF DeskInv, Escrowed
<1>4. GoodRow(x)'
  BY <1>2, <1>3 DEF GoodRow, IsOf
<1> QED
  BY <1>2, <1>4 DEF NewRows

LEMMA WriteRowStep ==
  ASSUME DeskInv, NEW r \in Requests, WriteRow(r)
  PROVE  DeskInv'
<1> DEFINE f == requests[r]
           x == OrderOf[f.dispute]
           state == IF f.to = "refunded" THEN "Refunded" ELSE "Released"
           g == [f EXCEPT !.at = "write"]
<1>1. /\ f.op = "resolve" /\ f.at = "row" /\ rows' = [rows EXCEPT ![x].state = state]
      /\ Goes(r, g) \/ Goes(r, Idle)
      /\ UNCHANGED <<orgs, disputes, paid, programs, listed, wallets, escrows, reports, missing, overwritten, settledOn>>
  BY DEF WriteRow, At, chain, notes
<1>2. Typed
  BY DEF DeskInv
<1>3. f \in Sending /\ f.dispute \in Disputes /\ x \in Orders
  BY <1>1, <1>2, ResolveFrame
<1>4. GoodResolve(f)
  BY <1>1 DEF DeskInv, Resolving
<1>5. IsOf(f.escrow, x) /\ escrows[f.escrow].state = state /\ state \in {"Released", "Refunded"}
  BY <1>1, <1>4 DEF GoodResolve, Outcome
<1>6. /\ rows' \in [Orders -> [state : {"none", "Funded", "Released", "Refunded"}, escrow : 0..MaxEscrows]]
      /\ NewRows
  BY <1>1, <1>3, <1>5, RowMoves
<1>7. /\ g \in Sending /\ g.op = "resolve" /\ g.at = "write" /\ g.dispute = f.dispute /\ g.escrow = f.escrow
      /\ g.wallet = f.wallet /\ g.to = f.to
  BY <1>3 DEF Sending
<1> HIDE DEF g, state
<1>8. IsFrame(g) /\ ~ Lists(g) /\ GoodResolve(g) /\ Resolves(f)
  BY <1>1, <1>4, <1>7 DEF IsFrame, Lists, GoodResolve, Resolves
<1>9. DOMAIN requests' = Requests /\ \A q \in Requests : IsFrame(requests'[q])
  BY <1>1, <1>2, <1>8, IdleFrame, FramesAfter
<1>10. Typed'
  BY <1>1, <1>2, <1>6, <1>9 DEF Typed, IsFrame
<1>11. WalletsGrow /\ EscrowsGrow /\ NewEscrows /\ NewReports /\ SameNumbers /\ SameClosed
  BY <1>1, SameChain
<1>12. NoPublishing
  BY <1>1, <1>2, <1>8, IdleFrame, QuietGoing
<1>13. NewResolutions /\ SameLanded
  <2>1. CASE Goes(r, Idle)
    BY <1>2, <2>1, IdleFrame, QuietGoing
  <2>2. CASE Goes(r, g)
    BY <1>3, <1>7, <1>8, <1>11, <2>2, ResolutionGoes
  <2> QED
    BY <1>1, <2>1, <2>2
<1> QED
  BY <1>6, <1>10, <1>11, <1>12, <1>13, QuietKeeps DEF Steady

LEMMA WriteStatusStep ==
  ASSUME DeskInv, NEW r \in Requests, WriteStatus(r)
  PROVE  DeskInv'
<1> DEFINE f == requests[r]
           d == f.dispute
<1>1. /\ f # Idle /\ f.at = "write" /\ disputes' = [disputes EXCEPT ![d] = f.to]
      /\ settledOn' = IF f.op = "resolve" THEN [settledOn EXCEPT ![d] = f.escrow] ELSE settledOn
      /\ Goes(r, Idle)
      /\ UNCHANGED <<orgs, rows, paid, programs, listed, wallets, escrows, reports, missing, overwritten>>
  BY DEF WriteStatus, chain
<1>2. Typed /\ Registered /\ Published /\ SettledOnce
  BY DEF DeskInv
<1>3. f \in AtStatus \/ f \in Sending
  <2>1. IsFrame(f)
    BY <1>2 DEF Typed
  <2> QED
    BY <1>1, <2>1 DEF IsFrame, AtId, AfterId, AtStatus, AtOrg, AtWallet, Sending
<1>4. /\ d \in Disputes /\ f.to \in {"reviewing", "closed", "refunded", "released"}
      /\ f.op = "resolve" <=> f \in Sending
      /\ f.op # "resolve" => f.to \in {"reviewing", "closed"}
      /\ f.op = "resolve" => f.escrow \in 1..MaxEscrows
  BY <1>3 DEF AtStatus, Sending, Answers
<1>5. /\ disputes' \in [Disputes -> {"none", "open", "reviewing", "refunded", "released", "closed"}]
      /\ disputes'[d] = f.to /\ \A c \in Disputes \ {d} : disputes'[c] = disputes[c]
  <2>1. disputes \in [Disputes -> {"none", "open", "reviewing", "refunded", "released", "closed"}]
    BY <1>2 DEF Typed
  <2> QED
    BY <1>1, <1>4, <2>1
<1>6. /\ settledOn' \in [Disputes -> 0..MaxEscrows]
      /\ f.op = "resolve" => settledOn'[d] = f.escrow
      /\ \A c \in Disputes \ {d} : settledOn'[c] = settledOn[c]
  <2>1. settledOn \in [Disputes -> 0..MaxEscrows]
    BY <1>2 DEF Typed
  <2>2. f.op = "resolve" => f.escrow \in 0..MaxEscrows
    BY <1>4, Sizes
  <2> QED
    BY <1>1, <1>4, <2>1, <2>2
<1>7. DOMAIN requests' = Requests /\ \A q \in Requests : requests'[q] = IF q = r THEN Idle ELSE requests[q]
  BY <1>1, <1>2, FrameAfter
<1>8. Typed'
  <2>1. \A q \in Requests : IsFrame(requests'[q])
    BY <1>1, <1>2, IdleFrame, FramesAfter
  <2> QED
    BY <1>1, <1>2, <1>5, <1>6, <1>7, <2>1 DEF Typed, IsFrame
<1>9. NewResolutions /\ SameLanded /\ NoPublishing
  BY <1>1, <1>2, IdleFrame, QuietGoing
<1>10. Steady /\ SameNumbers
  BY <1>1, <1>9, SameChain DEF Steady
<1>11. Registered' /\ Published'
  BY <1>2, <1>9, <1>10, KeepsRegistered, KeepsPublished DEF Steady
<1>12. SettledOnce'
  <2>1. CASE f.op # "resolve"
    <3>1. disputes'[d] \notin {"released", "refunded"} /\ settledOn' = settledOn
      BY <1>1, <1>4, <1>5, <2>1
    <3>2. SameClosed
      BY <1>5, <3>1 DEF SameClosed, Closes
    <3> QED
      BY <1>2, <1>9, <1>10, <3>2, KeepsSettled DEF Steady
  <2>2. CASE f.op = "resolve"
    <3>1. Resolves(f) /\ GoodResolve(f)
      BY <1>1, <2>2 DEF Resolves, DeskInv, Resolving
    <3>2. IsOf(f.escrow, OrderOf[d]) /\ escrows[f.escrow].state = Outcome(f.to)
      BY <1>1, <3>1 DEF GoodResolve
    <3>3. \A c \in Disputes : Closes(c) => settledOn[c] # f.escrow
      BY <1>2, <3>1 DEF SettledOnce
    <3>4. \A q \in Requests : Resolves(requests'[q]) => /\ q # r /\ requests'[q] = requests[q] /\ Resolves(requests[q])
                                                        /\ requests[q].escrow # f.escrow
      <4>1. \A q \in Requests \ {r} : Resolves(requests[q]) => requests[q].escrow # f.escrow
        BY <1>2, <3>1 DEF SettledOnce
      <4>2. ~ Resolves(Idle)
        BY IdleFrame DEF Resolves
      <4> QED
        BY <1>7, <4>1, <4>2
    <3>5. \A c \in Disputes \ {d} : Closes(c)' <=> Closes(c)
      BY <1>5 DEF Closes
    <3>6. ASSUME NEW c \in Disputes, Closes(c)'
          PROVE  /\ IsOf(settledOn[c], OrderOf[c])' /\ escrows'[settledOn'[c]].state = Outcome(disputes'[c])
                 /\ \A other \in Disputes \ {c} : Closes(other)' => settledOn'[other] # settledOn'[c]
      <4>1. CASE c = d
        <5>1. settledOn'[c] = f.escrow /\ disputes'[c] = f.to
          BY <1>5, <1>6, <2>2, <4>1
        <5>2. f.escrow \in DOMAIN escrows' /\ escrows'[f.escrow].order = OrderOf[c] /\ escrows'[f.escrow].state = Outcome(f.to)
          BY <1>1, <3>2, <4>1 DEF IsOf
        <5>3. \A other \in Disputes \ {c} : Closes(other)' => settledOn'[other] # f.escrow
          BY <1>6, <3>3, <3>5, <4>1
        <5> QED
          BY <5>1, <5>2, <5>3 DEF IsOf
      <4>2. CASE c # d
        <5>1. Closes(c) /\ settledOn'[c] = settledOn[c] /\ disputes'[c] = disputes[c]
          BY <1>5, <1>6, <3>5, <3>6, <4>2
        <5>2. IsOf(settledOn[c], OrderOf[c]) /\ escrows[settledOn[c]].state = Outcome(disputes[c])
          BY <1>2, <5>1 DEF SettledOnce
        <5>3. ASSUME NEW other \in Disputes \ {c}, Closes(other)' PROVE settledOn'[other] # settledOn[c]
          <6>1. CASE other = d
            BY <1>6, <2>2, <3>3, <5>1, <6>1
          <6>2. CASE other # d
            BY <1>2, <1>6, <3>5, <5>1, <5>3, <6>2 DEF SettledOnce
          <6> QED
            BY <6>1, <6>2
        <5> QED
          BY <1>1, <5>1, <5>2, <5>3 DEF IsOf
      <4> QED
        BY <4>1, <4>2
    <3>7. ASSUME NEW p \in Requests, Resolves(requests'[p])
          PROVE  /\ \A c \in Disputes : Closes(c)' => settledOn'[c] # requests'[p].escrow
                 /\ \A q \in Requests \ {p} : Resolves(requests'[q]) => requests'[q].escrow # requests'[p].escrow
      <4>1. requests'[p] = requests[p] /\ Resolves(requests[p]) /\ requests[p].escrow # f.escrow
        BY <3>4, <3>7
      <4>2. \A c \in Disputes : Closes(c)' => settledOn'[c] # requests[p].escrow
        BY <1>2, <1>6, <2>2, <3>5, <4>1 DEF SettledOnce
      <4>3. \A q \in Requests \ {p} : Resolves(requests'[q]) => requests'[q].escrow # requests[p].escrow
        BY <1>2, <3>4, <4>1 DEF SettledOnce
      <4> QED
        BY <4>1, <4>2, <4>3
    <3> QED
      BY <3>6, <3>7 DEF SettledOnce, Resolves
  <2> QED
    BY <2>1, <2>2
<1> QED
  BY <1>8, <1>10, <1>11, <1>12, SteadyKeeps

-----------------------------------------------------------------------------
(* The escrows' life. *)
LEMMA FundFromWebStep ==
  ASSUME DeskInv, NEW x \in Orders, FundFromWeb(x)
  PROVE  DeskInv'
<1>1. Typed
  BY DEF DeskInv
<1>2. PICK m \in DOMAIN wallets \cap DOMAIN SeedWallet :
        /\ Len(escrows) < MaxEscrows
        /\ UNCHANGED <<orgs, disputes, rows, paid, programs, listed, wallets, requests, reports, missing, overwritten, settledOn>>
        /\ escrows' = Append(escrows, [order |-> x, state |-> "Funded", merchantId |-> m, paidTo |-> NoOne])
  BY <1>1, FundSteps DEF db, notes
<1> DEFINE new == [order |-> x, state |-> "Funded", merchantId |-> m, paidTo |-> NoOne]
<1>3. m \in 1..MaxListings /\ escrows \in Seq(Escrow) /\ Len(escrows) \in Nat /\ MaxEscrows \in Nat
  BY <1>1, IdsSmall, Sizes DEF Typed
<1>4. new \in Escrow /\ new.merchantId = m /\ new.state = "Funded"
  BY <1>3 DEF Escrow
<1>5. escrows' = Append(escrows, new)
  BY <1>2
<1> HIDE DEF new
<1>6. PICK e : e = Len(escrows) + 1
  OBVIOUS
<1>7. /\ escrows' \in Seq(Escrow) /\ Len(escrows') <= MaxEscrows /\ DOMAIN escrows' = DOMAIN escrows \cup {e}
      /\ escrows'[e] = new /\ \A i \in DOMAIN escrows : escrows'[i] = escrows[i]
  BY <1>2, <1>3, <1>4, <1>5, <1>6
<1>8. Typed'
  BY <1>1, <1>2, <1>7 DEF Typed, IsFrame
<1>9. EscrowsGrow
  BY <1>7 DEF EscrowsGrow
<1>10. NewEscrows
  <2>1. GoodEscrow(e)'
    BY <1>2, <1>4, <1>7 DEF GoodEscrow
  <2> QED
    BY <1>7, <2>1 DEF NewEscrows
<1>11. Steady /\ SameNumbers /\ NoPublishing /\ SameClosed /\ SameLanded
  BY <1>2, <1>9, <1>10, SameChain DEF Steady
<1> QED
  BY <1>8, <1>11, QuietKeeps

\* An escrow that moves without the desk.
LEMMA MovingKeeps ==
  ASSUME DeskInv, NEW e \in DOMAIN escrows, escrows[e].state \in {"Funded", "Disputed"},
         NEW state \in {"Disputed", "Released", "Refunded"}, NEW to \in Keys \cup {NoOne, Wallet(Buyer)},
         escrows' = [escrows EXCEPT ![e].state = state, ![e].paidTo = to],
         state = "Refunded" => to = Wallet(Buyer), state = "Released" => to \in Payees(e),
         UNCHANGED <<programs, listed, wallets, db, requests, notes>>
  PROVE  DeskInv'
<1>1. Typed
  BY DEF DeskInv
<1>2. UNCHANGED <<orgs, disputes, rows, paid, programs, listed, wallets, requests, reports, missing, overwritten, settledOn>>
  BY DEF db, notes
<1>3. /\ escrows' \in Seq(Escrow) /\ Len(escrows') = Len(escrows) /\ DOMAIN escrows' = DOMAIN escrows
      /\ escrows'[e].state = state /\ escrows'[e].paidTo = to
      /\ \A i \in DOMAIN escrows : i # e => escrows'[i] = escrows[i]
      /\ EscrowsGrow
  BY <1>1, EscrowMoves
<1>4. Typed'
  BY <1>1, <1>2, <1>3 DEF Typed, IsFrame
<1>5. WalletsGrow
  BY <1>2, SameChain
<1>6. NewEscrows
  BY <1>3, <1>5, SettlingKeeps
<1>7. Steady /\ SameNumbers /\ NoPublishing /\ SameClosed /\ SameLanded
  BY <1>2, <1>3, <1>5, <1>6, SameChain DEF Steady
<1> QED
  BY <1>4, <1>7, QuietKeeps

LEMMA DisputeOnChainStep ==
  ASSUME DeskInv, NEW e \in DOMAIN escrows, DisputeOnChain(e)
  PROVE  DeskInv'
<1>1. escrows[e] \in Escrow
  BY IdsSmall DEF DeskInv
<1>2. /\ escrows[e].state = "Funded" /\ escrows' = [escrows EXCEPT ![e].state = "Disputed"]
      /\ UNCHANGED <<programs, listed, wallets, db, requests, notes>>
  BY DEF DisputeOnChain
<1>3. PICK to : to = escrows[e].paidTo
  OBVIOUS
<1>4. to \in Keys \cup {NoOne, Wallet(Buyer)}
  BY <1>1, <1>3 DEF Escrow
<1>5. escrows' = [escrows EXCEPT ![e].state = "Disputed", ![e].paidTo = to]
  <2>1. [escrows[e] EXCEPT !.state = "Disputed"] = [escrows[e] EXCEPT !.state = "Disputed", !.paidTo = to]
    BY <1>1, <1>3 DEF Escrow
  <2> QED
    BY <1>2, <2>1
<1> QED
  BY <1>2, <1>4, <1>5, MovingKeeps

LEMMA SettleWithoutDeskStep ==
  ASSUME DeskInv, NEW e \in DOMAIN escrows, SettleWithoutDesk(e)
  PROVE  DeskInv'
<1>1. UNCHANGED <<programs, listed, wallets, db, requests, notes>>
  BY DEF SettleWithoutDesk
<1>2. CASE escrows[e].state \in {"Funded", "Disputed"} /\ Settled(e, "Released", wallets[escrows[e].merchantId])
  <2>1. GoodEscrow(e) /\ Walleted /\ Typed
    BY DEF DeskInv, Escrowed
  <2>2. PICK key : key = wallets[escrows[e].merchantId]
    OBVIOUS
  <2>3. key \in Keys /\ key \in Payees(e)
    BY <2>1, <2>2 DEF GoodEscrow, Walleted, Payees, Typed
  <2>4. escrows' = [escrows EXCEPT ![e].state = "Released", ![e].paidTo = key]
    BY <1>2, <2>2 DEF Settled
  <2> QED
    BY <1>1, <1>2, <2>3, <2>4, MovingKeeps
<1>3. CASE escrows[e].state = "Funded" /\ Settled(e, "Refunded", Wallet(Buyer))
  <2>1. escrows' = [escrows EXCEPT ![e].state = "Refunded", ![e].paidTo = Wallet(Buyer)]
    BY <1>3 DEF Settled
  <2> QED
    BY <1>1, <1>3, <2>1, MovingKeeps
<1> QED
  BY <1>2, <1>3 DEF SettleWithoutDesk

LEMMA VerifyStep ==
  ASSUME DeskInv, NEW e \in DOMAIN escrows, VerifyFunding(e) \/ VerifyUserRelease(e)
  PROVE  DeskInv'
<1>1. PICK state \in {"Funded", "Released"} : Verify(e, state)
  BY DEF VerifyFunding, VerifyUserRelease
<1> DEFINE m == [escrow |-> e, state |-> state]
<1>2. /\ escrows[e].state = state /\ reports' = reports \cup {m}
      /\ UNCHANGED <<orgs, disputes, rows, paid, requests, programs, listed, wallets, escrows, missing, overwritten, settledOn>>
  BY <1>1 DEF Verify, db, chain
<1>3. m \in [escrow : EscrowIds, state : {"Funded", "Released"}]
  BY IdsSmall DEF DeskInv, EscrowIds
<1>4. m.escrow = e /\ m.state = state
  OBVIOUS
<1> HIDE DEF m
<1>5. Typed'
  BY <1>2, <1>3 DEF DeskInv, Typed, IsFrame
<1>6. NewReports
  BY <1>2, <1>4 DEF NewReports, GoodReport
<1>7. Steady /\ SameNumbers /\ NoPublishing /\ SameClosed /\ SameLanded
  BY <1>2, <1>6, SameChain DEF Steady
<1> QED
  BY <1>5, <1>7, QuietKeeps

LEMMA WriteReportStep ==
  ASSUME DeskInv, NEW m \in reports, WriteReport(m)
  PROVE  DeskInv'
<1> DEFINE x == escrows[m.escrow].order
           linked == [state |-> "Funded", escrow |-> m.escrow]
<1>1. /\ rows' = IF m.state = "Funded" THEN [rows EXCEPT ![x] = linked] ELSE [rows EXCEPT ![x].state = "Released"]
      /\ UNCHANGED <<orgs, disputes, paid, programs, listed, wallets, escrows, requests, reports, missing, overwritten, settledOn>>
  BY Zenon DEF WriteReport, chain, notes
<1>2. m \in [escrow : EscrowIds, state : {"Funded", "Released"}] /\ GoodReport(m)
  BY DEF DeskInv, Typed, Escrowed
<1>3. m.escrow \in DOMAIN escrows /\ x \in Orders /\ IsOf(m.escrow, x)
  BY <1>2, IdsSmall DEF DeskInv, GoodReport, Escrow, IsOf
<1>4. /\ rows' \in [Orders -> [state : {"none", "Funded", "Released", "Refunded"}, escrow : 0..MaxEscrows]]
      /\ NewRows
  <2>1. CASE m.state = "Funded"
    <3>1. rows \in [Orders -> [state : {"none", "Funded", "Released", "Refunded"}, escrow : 0..MaxEscrows]]
      BY DEF DeskInv, Typed
    <3>2. m.escrow \in 0..MaxEscrows
      BY <1>2, Sizes DEF EscrowIds
    <3>3. linked \in [state : {"none", "Funded", "Released", "Refunded"}, escrow : 0..MaxEscrows]
      BY <3>2
    <3>4. linked.state = "Funded" /\ linked.escrow = m.escrow
      OBVIOUS
    <3> HIDE DEF linked, x
    <3>5. /\ rows' \in [Orders -> [state : {"none", "Funded", "Released", "Refunded"}, escrow : 0..MaxEscrows]]
          /\ rows'[x] = linked /\ \A y \in Orders : y # x => rows'[y] = rows[y]
      BY <1>1, <1>3, <2>1, <3>1, <3>3
    <3>6. rows'[x].escrow = m.escrow /\ rows'[x].state = "Funded"
      BY <3>4, <3>5
    <3>7. ASSUME NEW y \in Orders, y = x PROVE GoodRow(y)'
      BY <1>1, <1>3, <3>6, <3>7 DEF GoodRow, IsOf
    <3> QED
      BY <3>5, <3>7 DEF NewRows
  <2>2. CASE m.state # "Funded"
    <3>1. escrows[m.escrow].state = "Released"
      BY <1>2, <2>2 DEF GoodReport
    <3>2. rows' = [rows EXCEPT ![x].state = "Released"]
      BY <1>1, <2>2
    <3>3. PICK y : y = x
      OBVIOUS
    <3> QED
      BY <1>1, <1>3, <3>1, <3>2, <3>3, RowMoves
  <2> QED
    BY <2>1, <2>2
<1>5. Typed'
  BY <1>1, <1>4 DEF DeskInv, Typed, IsFrame
<1>6. Steady /\ SameNumbers /\ NoPublishing /\ SameClosed /\ SameLanded
  BY <1>1, <1>4, SameChain DEF Steady
<1> QED
  BY <1>5, <1>6, QuietKeeps

LEMMA MarkPaidStep ==
  ASSUME DeskInv, NEW x \in Orders, MarkPaid(x)
  PROVE  DeskInv'
<1>1. /\ paid' = paid \cup {x}
      /\ UNCHANGED <<orgs, disputes, rows, requests, programs, listed, wallets, escrows, reports, missing, overwritten, settledOn>>
  BY DEF MarkPaid, chain, notes
<1>2. Typed'
  BY <1>1 DEF DeskInv, Typed, IsFrame
<1>3. Steady /\ SameNumbers /\ NoPublishing /\ SameClosed /\ SameLanded
  BY <1>1, SameChain DEF Steady
<1> QED
  BY <1>2, <1>3, QuietKeeps

-----------------------------------------------------------------------------
LEMMA InitHolds == Init => DeskInv
<1> SUFFICES ASSUME Init PROVE DeskInv
  OBVIOUS
<1>1. /\ orgs = [o \in Orgs |-> [exists |-> o \in DOMAIN SeedId, chainId |-> 0]]
      /\ disputes = [d \in Disputes |-> "none"] /\ rows = [x \in Orders |-> [state |-> "none", escrow |-> 0]]
      /\ requests = [r \in Requests |-> Idle] /\ programs = {} /\ listed = <<>> /\ wallets = <<>> /\ escrows = <<>>
      /\ paid = {} /\ reports = {} /\ missing = {} /\ overwritten = {} /\ settledOn = [d \in Disputes |-> 0]
  BY DEF Init
<1>2. 0 \in 0..MaxListings /\ 0 \in 0..MaxEscrows
  BY Sizes
<1>3. Typed
  <2>1. orgs \in [Orgs -> [exists : BOOLEAN, chainId : 0..MaxListings]]
    BY <1>1, <1>2
  <2>2. /\ DOMAIN requests = Requests /\ \A r \in Requests : IsFrame(requests[r])
    BY <1>1, IdleFrame
  <2>3. listed \in Seq(Keys) /\ Len(listed) <= MaxListings /\ DOMAIN wallets = {}
    BY <1>1, Sizes
  <2>4. rows \in [Orders -> [state : {"none", "Funded", "Released", "Refunded"}, escrow : 0..MaxEscrows]]
    BY <1>1, <1>2
  <2>5. escrows \in Seq(Escrow) /\ Len(escrows) <= MaxEscrows
    BY <1>1, Sizes
  <2>6. settledOn \in [Disputes -> 0..MaxEscrows]
    BY <1>1, <1>2
  <2> QED
    BY <1>1, <2>1, <2>2, <2>3, <2>4, <2>5, <2>6 DEF Typed
<1>4. Walleted /\ Registered
  BY <1>1 DEF Walleted, Registered
<1>5. Published /\ Resolving /\ SettledOnce
  BY <1>1, IdleFrame DEF Published, Resolving, SettledOnce, Closes, Resolves
<1>6. Escrowed
  BY <1>1 DEF Escrowed, GoodRow
<1> QED
  BY <1>3, <1>4, <1>5, <1>6 DEF DeskInv

LEMMA NextHolds == DeskInv /\ [Next]_vars => DeskInv'
<1> SUFFICES ASSUME DeskInv, [Next]_vars PROVE DeskInv'
  OBVIOUS
<1>1. CASE UNCHANGED vars
  <2>1. UNCHANGED <<orgs, disputes, rows, paid, programs, listed, wallets, escrows, requests, reports, missing, overwritten, settledOn>>
    BY <1>1 DEF vars, db, chain, notes
  <2>2. Typed'
    BY <2>1 DEF DeskInv, Typed, IsFrame
  <2>3. Steady /\ SameNumbers /\ NoPublishing /\ SameClosed /\ SameLanded
    BY <2>1, SameChain DEF Steady
  <2> QED
    BY <2>2, <2>3, QuietKeeps
<1>2. CASE Next
  <2>1. ASSUME NEW p \in Programs, EnsureInitialized(p) PROVE DeskInv'
    BY <2>1, EnsureInitializedStep
  <2>2. ASSUME NEW i \in DOMAIN SeedWallet, EnsureMerchantListed(i) \/ LookForWallet(i) \/ SetSeedWallet(i)
        PROVE  DeskInv'
    BY <2>2, EnsureMerchantListedStep, LookForWalletStep, SetSeedWalletStep
  <2>3. ASSUME NEW o \in Orgs, CreateMerchantOrg(o) PROVE DeskInv'
    BY <2>3, CreateMerchantOrgStep
  <2>4. ASSUME NEW r \in Requests, NEW o \in Orgs, Publish(r, o) PROVE DeskInv'
    BY <2>4, PublishStep
  <2>5. ASSUME NEW r \in Requests, ReadNextId(r) \/ SendListing(r) \/ SendWallet(r) \/ PublishMerchantOrg(r)
        PROVE  DeskInv'
    BY <2>5, ReadNextIdStep, SendListingStep, SendWalletStep, PublishMerchantOrgStep
  <2>6. ASSUME NEW r \in Requests, ReadOrg(r) \/ ReadWallet(r) \/ SendResolve(r) \/ WriteRow(r) \/ WriteStatus(r) \/ Fail(r)
        PROVE  DeskInv'
    BY <2>6, ReadOrgStep, ReadWalletStep, SendResolveStep, WriteRowStep, WriteStatusStep, FailStep
  <2>7. ASSUME NEW d \in Disputes, CreateDispute(d) PROVE DeskInv'
    BY <2>7, CreateDisputeStep
  <2>8. ASSUME NEW r \in Requests, NEW d \in Disputes, NEW to \in {"reviewing", "closed"}, SetDisputeStatus(r, d, to)
        PROVE  DeskInv'
    BY <2>8, SetDisputeStatusStep
  <2>9. ASSUME NEW r \in Requests, NEW d \in Disputes, NEW to \in {"refunded", "released"}, ResolveDispute(r, d, to)
        PROVE  DeskInv'
    BY <2>9, ResolveDisputeStep
  <2>10. ASSUME NEW x \in Orders, FundFromWeb(x) \/ MarkPaid(x) PROVE DeskInv'
    BY <2>10, FundFromWebStep, MarkPaidStep
  <2>11. ASSUME NEW e \in DOMAIN escrows,
                DisputeOnChain(e) \/ SettleWithoutDesk(e) \/ VerifyFunding(e) \/ VerifyUserRelease(e)
         PROVE  DeskInv'
    BY <2>11, DisputeOnChainStep, SettleWithoutDeskStep, VerifyStep
  <2>12. ASSUME NEW m \in reports, WriteReport(m) PROVE DeskInv'
    BY <2>12, WriteReportStep
  <2> QED
    BY <1>2, <2>1, <2>2, <2>3, <2>4, <2>5, <2>6, <2>7, <2>8, <2>9, <2>10, <2>11, <2>12, Zenon DEF Next
<1> QED
  BY <1>1, <1>2

\* The desk's invariant: whatever the operators' requests, the bootstrap script, the buyers' reports and the chain
\* interleave to, and wherever they stop (merchantRoutes.ts, disputes.ts, init-devnet.ts, orchestrator.ts:829-901).
THEOREM DeskKeepsItsBooks == Spec => []DeskInv
BY InitHolds, NextHolds, PTL DEF Spec

\* RegistryIsSound, of every set of organizations, seeds and requests: an organization's chain id is its own and
\* listed for its payout wallet, which the escrow program pays unless the bootstrap script set the seed's over it
\* (merchantRoutes.ts, publish; init-devnet.ts:212-223).
THEOREM RegistrySound == Spec => []RegistryIsSound
<1>1. DeskInv => RegistryIsSound
  <2> SUFFICES ASSUME DeskInv PROVE RegistryIsSound
    OBVIOUS
  <2>1. Typed /\ Registered
    BY DEF DeskInv
  <2>2. {"Funded", "Disputed", "Released", "Refunded"} \subseteq Range(OrderStates)
    BY DEF Range, OrderStates
  <2>3. TypeOK
    <3>1. DOMAIN wallets \subseteq DOMAIN listed /\ DOMAIN escrows \subseteq EscrowIds
      BY <2>1, IdsSmall DEF Typed, EscrowIds
    <3>2. ASSUME NEW e \in DOMAIN escrows PROVE escrows[e].order \in Orders /\ escrows[e].state \in Range(OrderStates)
      <4>1. escrows[e] \in Escrow
        BY <2>1, IdsSmall
      <4> QED
        BY <2>2, <4>1 DEF Escrow
    <3> QED
      BY <2>1, <3>1, <3>2 DEF Typed, TypeOK
  <2> QED
    BY <2>1, <2>3 DEF RegistryIsSound, Registered, PaysOrg
<1> QED
  BY <1>1, DeskKeepsItsBooks, PTL

\* DisputesFollowChain, of every set of orders, escrows, disputes and requests: a dispute the operator settled is
\* settled on chain the same way, on an escrow of its order that settles no other, and the money went there
\* (merchantRoutes.ts, resolve; disputes.ts; orchestrator.ts:829-901).
THEOREM DisputesFollowTheChain == Spec => []DisputesFollowChain
<1>1. DeskInv => DisputesFollowChain
  <2> SUFFICES ASSUME DeskInv PROVE DisputesFollowChain
    OBVIOUS
  <2>1. Escrowed /\ SettledOnce /\ Typed
    BY DEF DeskInv
  <2>2. \A e \in DOMAIN escrows :
          /\ escrows[e].state = "Refunded" => escrows[e].paidTo = Wallet(Buyer)
          /\ escrows[e].state = "Released" => escrows[e].paidTo \in Payees(e)
    BY <2>1 DEF Escrowed, GoodEscrow
  <2>3. \A x \in Orders :
          /\ rows[x].escrow # 0 => rows[x].escrow \in DOMAIN escrows /\ escrows[rows[x].escrow].order = x
          /\ rows[x].state \in {"Released", "Refunded"} =>
                \E e \in DOMAIN escrows : escrows[e].order = x /\ escrows[e].state = rows[x].state
    BY <2>1 DEF Escrowed, GoodRow, IsOf
  <2>4. ASSUME NEW d \in Disputes, disputes[d] \in {"released", "refunded"}
        PROVE  LET e == settledOn[d] IN
               /\ e \in DOMAIN escrows /\ escrows[e].order = OrderOf[d]
               /\ escrows[e].state = IF disputes[d] = "released" THEN "Released" ELSE "Refunded"
               /\ \A other \in Disputes \ {d} : disputes[other] \in {"released", "refunded"} => settledOn[other] # e
    BY <2>1, <2>4 DEF SettledOnce, Closes, IsOf, Outcome
  <2> QED
    BY <2>2, <2>3, <2>4 DEF DisputesFollowChain
<1> QED
  BY <1>1, DeskKeepsItsBooks, PTL

(* The calls about an escrow and a receipt, and that each arrives as it was meant. *)
Right(program, a, accounts, args, payer, own) ==
    /\ Given(a, accounts)
    /\ Meets(program, a, Key(a, accounts), args, own)
    /\ a.signer => AddressOf(a, accounts) = payer

LEMMA RightAccounts ==
  ASSUME NEW program, NEW a, NEW name, NEW accounts, NEW args, NEW payer, NEW own, name \in DOMAIN accounts
  PROVE  /\ IsAccount(a, name, FALSE, AnyAddress) => Right(program, a, accounts, args, payer, own)
         /\ IsAccount(a, name, TRUE, AnyAddress) /\ accounts[name] = payer =>
               Right(program, a, accounts, args, payer, own)
         /\ \A p : IsAccount(a, name, FALSE, Prefix(p)) /\ accounts[name] = Derived(program, p, <<>>) =>
               Right(program, a, accounts, args, payer, own)
         /\ \A p, x : IsAccount(a, name, FALSE, ByArg(p, x)) /\
                      accounts[name] = Derived(program, p, LittleEndian(args[x], 8)) =>
               Right(program, a, accounts, args, payer, own)
         /\ \A p, x : \A id \in own :
               IsAccount(a, name, FALSE, ByOwn(p, x)) /\ accounts[name] = Derived(program, p, LittleEndian(id, 8)) =>
               Right(program, a, accounts, args, payer, own)
<1>1. Key(a, accounts).isSigner = a.signer /\ Key(a, accounts).isWritable = a.writable
      /\ Key(a, accounts).pubkey = AddressOf(a, accounts)
  BY DEF Key
<1>2. ASSUME NEW signs, NEW at, IsAccount(a, name, signs, at), at.by # "fixed"
      PROVE  AddressOf(a, accounts) = accounts[name] /\ Given(a, accounts) /\ a.at = at /\ a.signer = signs
  BY <1>2, AddressGiven DEF IsAccount, Given
<1> DEFINE key == Key(a, accounts)
<1> HIDE DEF key
<1>3. ASSUME NEW signs \in BOOLEAN, NEW at, IsAccount(a, name, signs, at), at.by # "fixed",
             signs => accounts[name] = payer,
             \/ at.by = "caller"
             \/ at.by = "nothing" /\ accounts[name] = Derived(program, at.prefix, <<>>)
             \/ at.by = "arg" /\ accounts[name] = Derived(program, at.prefix, LittleEndian(args[at.path], 8))
             \/ at.by = "account" /\ \E id \in own : accounts[name] = Derived(program, at.prefix, LittleEndian(id, 8))
      PROVE  Right(program, a, accounts, args, payer, own)
  <2>1. AddressOf(a, accounts) = accounts[name] /\ Given(a, accounts) /\ a.at = at /\ a.signer = signs
    BY <1>2, <1>3
  <2>2. key.isSigner = a.signer /\ key.isWritable = a.writable /\ key.pubkey = accounts[name]
    BY <1>1, <2>1 DEF key
  <2>3. Meets(program, a, key, args, own)
    BY <1>3, <2>1, <2>2 DEF Meets
  <2> QED
    BY <1>3, <2>1, <2>3 DEF Right, key
<1>4. IsAccount(a, name, FALSE, AnyAddress) => Right(program, a, accounts, args, payer, own)
  BY <1>3, Seeds
<1>5. IsAccount(a, name, TRUE, AnyAddress) /\ accounts[name] = payer => Right(program, a, accounts, args, payer, own)
  BY <1>3, Seeds
<1>6. ASSUME NEW p, IsAccount(a, name, FALSE, Prefix(p)), accounts[name] = Derived(program, p, <<>>)
      PROVE  Right(program, a, accounts, args, payer, own)
  BY <1>3, <1>6, Seeds
<1>7. ASSUME NEW p, NEW x, IsAccount(a, name, FALSE, ByArg(p, x)),
             accounts[name] = Derived(program, p, LittleEndian(args[x], 8))
      PROVE  Right(program, a, accounts, args, payer, own)
  <2> DEFINE at == ByArg(p, x)
  <2>0. at.by = "arg" /\ at.prefix = p /\ at.path = x
    BY DEF ByArg
  <2>1. at.by = "arg" /\ at.prefix = p /\ at.path = x /\ IsAccount(a, name, FALSE, at)
    BY <1>7, <2>0
  <2> HIDE DEF at
  <2>2. at.by # "fixed" /\ accounts[name] = Derived(program, at.prefix, LittleEndian(args[at.path], 8))
    BY <1>7, <2>1
  <2> QED
    BY <1>3, <2>1, <2>2
<1>8. ASSUME NEW p, NEW x, NEW id \in own, IsAccount(a, name, FALSE, ByOwn(p, x)),
             accounts[name] = Derived(program, p, LittleEndian(id, 8))
      PROVE  Right(program, a, accounts, args, payer, own)
  <2>1. ByOwn(p, x).by = "account" /\ ByOwn(p, x).prefix = p
    BY Seeds
  <2> QED
    BY <1>3, <1>8, <2>1
<1> QED
  BY <1>4, <1>5, <1>6, <1>7, <1>8

LEMMA RightPrograms ==
  ASSUME NEW program, NEW a, NEW name, NEW p, NEW accounts, NEW args, NEW payer, NEW own,
         IsAccount(a, name, FALSE, ProgramAt(p))
  PROVE  Right(program, a, accounts, args, payer, own)
<1>1. a.at.by = "fixed" /\ a.at.prefix = p /\ a.signer = FALSE
  BY Seeds DEF IsAccount
<1>2. AddressOf(a, accounts) = FixedProgram(p) /\ Given(a, accounts)
  BY <1>1 DEF AddressOf, Given
<1> DEFINE key == Key(a, accounts)
<1>3. key.isSigner = a.signer /\ key.isWritable = a.writable /\ key.pubkey = FixedProgram(p)
  BY <1>2 DEF Key
<1> HIDE DEF key
<1>4. Meets(program, a, key, args, own)
  BY <1>1, <1>3 DEF Meets
<1> QED
  BY <1>1, <1>2, <1>4 DEF Right, key

\* A call that is built as the program demands and for what the client means.
Meant(call, ix, accounts, args, m) ==
    /\ Only(IdlOf(call.program), ix) /\ WellFormed(ix)
    /\ call.sent = BuildInstruction(IdlOf(call.program), call.program, ix.name, accounts, args)
    /\ Fits(ix.args, args) /\ args = [x \in Names(ix.args) |-> args[x]]
    /\ \A i \in 1..Len(ix.accounts) : Right(call.program, ix.accounts[i], accounts, args, call.signer, {m})
    /\ call.name = ix.name /\ call.args = args
    /\ \A n \in DOMAIN call.accounts :
          /\ call.accounts[n] = accounts[n]
          /\ \E i \in 1..Len(ix.accounts) : ix.accounts[i].name = n /\ ix.accounts[i].at.by # "fixed"

LEMMA MeantArrives ==
  ASSUME NEW call, NEW ix, NEW accounts, NEW args, NEW m, Meant(call, ix, accounts, args, m)
  PROVE  Arrives(call, m)
<1> DEFINE idl == IdlOf(call.program)
           program == call.program
           payer == call.signer
           own == {m}
<1>1. /\ Only(idl, ix) /\ WellFormed(ix) /\ Fits(ix.args, args)
      /\ call.sent = BuildInstruction(idl, program, ix.name, accounts, args)
      /\ call.name = ix.name /\ call.args = args /\ Values(ix, args) = args
      /\ \A i \in 1..Len(ix.accounts) : Right(program, ix.accounts[i], accounts, args, payer, own)
  BY DEF Meant, Values
<1> HIDE DEF idl, program, payer, own
<1>2. DOMAIN ix.accounts = 1..Len(ix.accounts) /\ DOMAIN ix.args = 1..Len(ix.args)
  BY <1>1 DEF WellFormed, Numbered
<1>3. Complete(ix, accounts, args)
  <2>1. ASSUME NEW i \in DOMAIN ix.args
        PROVE  ix.args[i][1] \in DOMAIN args /\ Encodable(ix.args[i][2], args[ix.args[i][1]])
    <3>1. WellTyped(ix.args[i][2], args[ix.args[i][1]])
      BY <1>1, <1>2 DEF Fits
    <3>2. ix.args[i][1] \in Names(ix.args)
      BY <1>2 DEF Names, NameOf
    <3>3. DOMAIN args = Names(ix.args)
      BY <1>1 DEF Values
    <3> DEFINE type == ix.args[i][2]
               v == args[ix.args[i][1]]
    <3>4. WellTyped(type, v)
      BY <3>1
    <3> HIDE DEF type, v
    <3>5. (type \in {"u64", "i64"} => v \in Small) /\ (type \in {"u8", "enum"} => v \in 0..255)
      BY <3>4, Zenon DEF WellTyped
    <3>6. Encodable(type, v)
      BY <3>5 DEF Encodable, Small
    <3> QED
      BY <3>2, <3>3, <3>6 DEF type, v
  <2> QED
    BY <1>1, <1>2, <2>1 DEF Complete, Right
<1>4. Accepted(program, ix, accounts, args, payer, own)
  BY <1>1, <1>2 DEF Accepted, Right
<1>5. PICK sent \in call.sent : \E d \in Delivered(idl, program, sent, payer, own) : TRUE
  BY <1>1, <1>3, <1>4, AcceptedIsRead
<1>6. PICK d \in Delivered(idl, program, sent, payer, own) : TRUE
  BY <1>5
<1>7. Comes(idl, ix, program, accounts, args, payer, own, d)
  BY <1>1, <1>5, <1>6 DEF Comes
<1>8. d.name = ix.name /\ d.args = Values(ix, args) /\ Addressed(ix, accounts, d)
  BY <1>7, WhatIsRead
<1>9. ASSUME NEW n \in DOMAIN call.accounts
      PROVE  d.accounts[n] = call.accounts[n]
  <2>1. PICK i \in 1..Len(ix.accounts) : ix.accounts[i].name = n /\ ix.accounts[i].at.by # "fixed"
    BY DEF Meant
  <2>2. AddressOf(ix.accounts[i], accounts) = accounts[n]
    BY <2>1 DEF AddressOf
  <2>3. call.accounts[n] = accounts[n]
    BY DEF Meant
  <2> QED
    BY <1>8, <2>1, <2>2, <2>3 DEF Addressed
<1> QED
  BY <1>1, <1>5, <1>6, <1>8, <1>9 DEF Arrives, idl, program, payer, own

\* The escrow id of merchant number m, as the clients read it.
OrderAt(id, m) ==
    [order_id |-> id, merchant_id |-> m, buyer |-> Wallet(Buyer), amount |-> Terms.amount,
     quote_hash |-> Terms.quoteHash, pickup_code_hash |-> Terms.pickupCodeHash, funded_at |-> 60000,
     release_deadline |-> Terms.releaseDeadline, state |-> 0, bump |-> 254]

LEMMA SomeTyped ==
  /\ \A k \in Small : WellTyped("u64", k)
  /\ WellTyped("u64", 1) /\ WellTyped("u64", 2) /\ WellTyped("u64", 5) /\ WellTyped("u64", 6)
  /\ WellTyped("u64", 70000) /\ WellTyped("u64", Terms.amount)
  /\ WellTyped("i64", 60000) /\ WellTyped("i64", Terms.releaseDeadline)
  /\ WellTyped("enum", 0) /\ WellTyped("u8", 254)
  /\ \A n \in Nat : WellTyped("pubkey", Wallet(n))
  /\ WellTyped("bytes32", Terms.quoteHash) /\ WellTyped("bytes32", Terms.pickupCodeHash)
  /\ WellTyped("bytes32", Receipt.metadataHash) /\ WellTyped("string", Code)
<1>1. \A k \in Small : WellTyped("u64", k) /\ WellTyped("i64", k)
  BY DEF WellTyped, Types
<1>2. Terms.amount = 300 /\ Terms.releaseDeadline = 70000
  BY DEF Terms
<1>3. 1 \in Small /\ 2 \in Small /\ 5 \in Small /\ 6 \in Small /\ 300 \in Small /\ 60000 \in Small /\ 70000 \in Small
  BY DEF Small
<1>4. WellTyped("enum", 0) /\ WellTyped("u8", 254)
  BY DEF WellTyped, Types
<1>5. \A n \in Nat : WellTyped("pubkey", Wallet(n))
  BY DEF WellTyped, Types
<1>6. /\ Terms.quoteHash = [i \in 1..32 |-> 3] /\ Terms.pickupCodeHash = [i \in 1..32 |-> 4]
      /\ Receipt.metadataHash = [i \in 1..32 |-> 8]
  BY DEF Terms, Receipt
<1>7. \A v \in [1..32 -> Nat] : WellTyped("bytes32", v)
  BY DEF WellTyped, Types
<1>8. WellTyped("string", Code)
  <2>1. Code \in Seq(Nat) /\ Len(Code) \in Small
    BY DEF Code, Small
  <2> QED
    BY <2>1 DEF WellTyped, Types
<1>9. /\ WellTyped("bytes32", Terms.quoteHash) /\ WellTyped("bytes32", Terms.pickupCodeHash)
      /\ WellTyped("bytes32", Receipt.metadataHash)
  BY <1>6, <1>7, Values32
<1> QED
  BY <1>1, <1>2, <1>3, <1>4, <1>5, <1>8, <1>9

LEMMA OrderIsRead ==
  ASSUME Buyer \in Nat, NEW id \in Small, NEW m \in Small
  PROVE  \E found : ReadOrder(OrderAt(id, m)) = {found} /\ found.buyer = Wallet(Buyer) /\ found.merchant_id = m
<1> DEFINE key == Wallet(Buyer)
           v == OrderAt(id, m)
           f == OrderFields
           quote == Terms.quoteHash
           code == Terms.pickupCodeHash
           amount == Terms.amount
           deadline == Terms.releaseDeadline
<1>1. /\ WellTyped("u64", id) /\ WellTyped("u64", m) /\ WellTyped("pubkey", key) /\ WellTyped("u64", amount)
      /\ WellTyped("bytes32", quote) /\ WellTyped("bytes32", code) /\ WellTyped("i64", 60000)
      /\ WellTyped("i64", deadline) /\ WellTyped("enum", 0) /\ WellTyped("u8", 254)
  BY SomeTyped
<1>2. /\ f[1] = <<"order_id", "u64">> /\ f[2] = <<"merchant_id", "u64">> /\ f[3] = <<"buyer", "pubkey">>
      /\ f[4] = <<"amount", "u64">> /\ f[5] = <<"quote_hash", "bytes32">> /\ f[6] = <<"pickup_code_hash", "bytes32">>
      /\ f[7] = <<"funded_at", "i64">> /\ f[8] = <<"release_deadline", "i64">> /\ f[9] = <<"state", "enum">>
      /\ f[10] = <<"bump", "u8">> /\ Len(f) = 10
  BY DEF OrderFields
<1>3. v = [order_id |-> id, merchant_id |-> m, buyer |-> key, amount |-> amount, quote_hash |-> quote,
           pickup_code_hash |-> code, funded_at |-> 60000, release_deadline |-> deadline, state |-> 0, bump |-> 254]
  BY DEF OrderAt
<1> HIDE DEF key, v, quote, code, amount, deadline
<1>4. /\ v.order_id = id /\ v.merchant_id = m /\ v.buyer = key /\ v.amount = amount /\ v.quote_hash = quote
      /\ v.pickup_code_hash = code /\ v.funded_at = 60000 /\ v.release_deadline = deadline /\ v.state = 0 /\ v.bump = 254
  BY <1>3
<1> HIDE DEF f
<1>5. Fits(f, v)
  <2> DEFINE Good(k) == WellTyped(f[k][2], v[f[k][1]])
  <2>1. /\ Good(1) /\ Good(2) /\ Good(3) /\ Good(4) /\ Good(5) /\ Good(6) /\ Good(7) /\ Good(8) /\ Good(9)
        /\ Good(10)
    BY <1>1, <1>2, <1>4
  <2> HIDE DEF Good
  <2>2. \A k \in 1..10 : Good(k)
    BY <2>1
  <2> QED
    BY <1>2, <2>2 DEF Fits, Good
<1>6. {x \in OrderEscrowIdl.types : x[1] = "Order"} = {<<"Order", f>>}
  BY DEF OrderEscrowIdl, f
<1> DEFINE read == [k \in Names(f) |-> v[k]]
<1>7. ReadOrder(v) = {read}
  <2>1. DecodeAccountData(OrderEscrowIdl, "Order", Stored(f, "Order", v)) = {read}
    BY <1>5, <1>6, AccountIsRead
  <2> QED
    BY <2>1 DEF ReadOrder, f
<1>8. read.buyer = key /\ read.merchant_id = m
  <2>1. "buyer" \in Names(f) /\ "merchant_id" \in Names(f)
    BY <1>2 DEF Names, NameOf
  <2> QED
    BY <1>4, <2>1
<1> HIDE DEF read
<1> QED
  BY <1>7, <1>8 DEF v, key

\* The account of the receipt program is not in the IDL it is looked for in.
LEMMA NoReceiptSent == ASSUME NEW next, NEW p PROVE CreateReceipt(next, p) = {}
<1>1. {x \in OrderEscrowIdl.types : x[1] = "ReceiptConfig"} = {}
  BY DEF OrderEscrowIdl
<1>2. ASSUME NEW data
      PROVE  DecodeAccountData(OrderEscrowIdl, "ReceiptConfig", data) = {}
  <2> DEFINE known == {x \in OrderEscrowIdl.types : x[1] = "ReceiptConfig" /\ data.discriminator = "ReceiptConfig"}
  <2>1. known = {}
    BY <1>1
  <2>2. DecodeAccountData(OrderEscrowIdl, "ReceiptConfig", data) = UNION {DecodeStruct(t[2], data.bytes) : t \in known}
    BY Zenon DEF DecodeAccountData
  <2> HIDE DEF known
  <2> QED
    BY <2>1, <2>2
<1> DEFINE read == DecodeAccountData(OrderEscrowIdl, "ReceiptConfig",
                       Stored(ReceiptConfigFields, "ReceiptConfig",
                           [authority |-> Wallet(Relayer), relayer |-> Wallet(Relayer), next_receipt_id |-> next,
                            bump |-> 255]))
           Built(conf) == BuildCreateReceiptInstruction(
                                [relayer |-> Wallet(Relayer), receiptConfig |-> ReceiptConfigPda,
                                 receipt |-> ReceiptPda(conf.next_receipt_id)],
                                [p EXCEPT !.receiptId = conf.next_receipt_id])
<1>3. read = {}
  BY <1>2
<1>4. CreateReceipt(next, p) = UNION {Built(conf) : conf \in read}
  BY Zenon DEF CreateReceipt
<1> HIDE DEF read, Built
<1> QED
  BY <1>3, <1>4

EscrowCall(sent, signer, name, args, accounts) ==
    [sent |-> sent, program |-> "order_escrow", signer |-> signer, name |-> name, args |-> args,
     accounts |-> accounts]
ReleaseAccounts(id, m, shop) ==
    [order |-> OrderPda(id), vault |-> VaultPda(id), merchant_wallet |-> MerchantWalletPda(m),
     merchant_token_account |-> AssociatedToken(shop)]

FundCall(id, m) ==
    EscrowCall(Fund(Wallet(Buyer), m, id, Terms), Wallet(Buyer), "fund",
        [order_id |-> id, amount |-> Terms.amount, quote_hash |-> Terms.quoteHash,
         pickup_code_hash |-> Terms.pickupCodeHash, release_deadline |-> Terms.releaseDeadline],
        [order |-> OrderPda(id), vault |-> VaultPda(id), merchant_wallet |-> MerchantWalletPda(m),
         usdc_mint |-> Wallet(Mint), buyer_token_account |-> AssociatedToken(Wallet(Buyer))])
RefundCall(id, m) ==
    EscrowCall(Refund(Wallet(Relayer), OrderAt(id, m)), Wallet(Relayer), "refund", [order_id |-> id],
        [order |-> OrderPda(id), vault |-> VaultPda(id), buyer |-> Wallet(Buyer),
         buyer_token_account |-> AssociatedToken(Wallet(Buyer))])
UserReleaseCall(id, m, shop) ==
    EscrowCall(UserRelease(Wallet(Buyer), OrderAt(id, m), shop), Wallet(Buyer), "user_release", [order_id |-> id],
        ReleaseAccounts(id, m, shop))
WebReleaseCall(id, m, shop) ==
    EscrowCall(WebRelease(Wallet(Buyer), OrderAt(id, m), m, shop), Wallet(Buyer), "user_release", [order_id |-> id],
        ReleaseAccounts(id, m, shop))
MarkPreparingCall(id, m, shop) ==
    EscrowCall(MarkPreparing(shop, OrderAt(id, m)), shop, "mark_preparing", [order_id |-> id], [order |-> OrderPda(id)])
MarkReadyCall(id, m, shop) ==
    EscrowCall(MarkReady(shop, OrderAt(id, m)), shop, "mark_ready", [order_id |-> id], [order |-> OrderPda(id)])
ConfirmPickupCall(id, m, shop) ==
    EscrowCall(ConfirmPickup(shop, OrderAt(id, m), Code), shop, "confirm_pickup", [order_id |-> id, code |-> Code],
        [order |-> OrderPda(id), vault |-> VaultPda(id), merchant_wallet |-> MerchantWalletPda(m),
         merchant_token_account |-> AssociatedToken(shop), buyer |-> Wallet(Buyer)])
CreateReceiptCall ==
    [sent |-> BuildCreateReceiptInstruction([relayer |-> Wallet(Relayer), receiptConfig |-> ReceiptConfigPda,
                                             receipt |-> ReceiptPda(5)], Receipt),
     program |-> "order_receipt", signer |-> Wallet(Relayer), name |-> "create_receipt",
     args |-> [receipt_id |-> 5, task_ref |-> Code, total_research_micro_usdc |-> 6,
               total_main_micro_usdc |-> 70000, completed_items |-> 1, total_items |-> 2,
               metadata_uri |-> Code, metadata_hash |-> Receipt.metadataHash],
     accounts |-> [receipt |-> ReceiptPda(5)]]

LEMMA TheCalls ==
  ASSUME NEW id, NEW m, NEW shop
  PROVE  ClientCalls(id, m, shop) =
           {FundCall(id, m), RefundCall(id, m), UserReleaseCall(id, m, shop), WebReleaseCall(id, m, shop),
            MarkPreparingCall(id, m, shop), MarkReadyCall(id, m, shop), ConfirmPickupCall(id, m, shop),
            CreateReceiptCall}
BY DEF ClientCalls, FundCall, RefundCall, UserReleaseCall, WebReleaseCall, MarkPreparingCall, MarkReadyCall,
       ConfirmPickupCall, CreateReceiptCall, EscrowCall, ReleaseAccounts, OrderAt

LEMMA RefundIsSent ==
  ASSUME Buyer \in Nat, NEW id \in Small, NEW m \in Small
  PROVE  Refund(Wallet(Relayer), OrderAt(id, m)) =
           BuildInstruction(OrderEscrowIdl, "order_escrow", "refund",
               [caller |-> Wallet(Relayer), order |-> OrderPda(id), vault |-> VaultPda(id),
                buyer_token_account |-> AssociatedToken(Wallet(Buyer)), buyer |-> Wallet(Buyer)],
               [order_id |-> id])
<1>1. PICK found : ReadOrder(OrderAt(id, m)) = {found} /\ found.buyer = Wallet(Buyer) /\ found.merchant_id = m
  BY OrderIsRead
<1> DEFINE Built(x) == BuildRefundInstruction(
               [caller |-> Wallet(Relayer), order |-> OrderPda(OrderAt(id, m).order_id),
                vault |-> VaultPda(OrderAt(id, m).order_id),
                buyerTokenAccount |-> AssociatedToken(x.buyer), buyer |-> x.buyer],
               OrderAt(id, m).order_id)
<1>2. Refund(Wallet(Relayer), OrderAt(id, m)) = UNION {Built(x) : x \in ReadOrder(OrderAt(id, m))}
  BY Zenon DEF Refund
<1>3. OrderAt(id, m).order_id = id
  BY DEF OrderAt
<1> DEFINE key == Wallet(Buyer)
           caller == Wallet(Relayer)
           back == AssociatedToken(key)
           order == OrderPda(id)
           vault == VaultPda(id)
<1>4. Built(found) = BuildRefundInstruction([caller |-> caller, order |-> order, vault |-> vault,
                                             buyerTokenAccount |-> back, buyer |-> key], id)
  BY <1>1, <1>3, Zenon
<1> HIDE DEF Built, key, caller, back, order, vault
<1>5. Built(found) = BuildInstruction(OrderEscrowIdl, "order_escrow", "refund",
                         [caller |-> caller, order |-> order, vault |-> vault, buyer_token_account |-> back,
                          buyer |-> key], [order_id |-> id])
  BY <1>4 DEF BuildRefundInstruction
<1>6. UNION {Built(x) : x \in {found}} = Built(found)
  OBVIOUS
<1> QED
  BY <1>1, <1>2, <1>5, <1>6 DEF key, caller, back, order, vault

LEMMA UserReleaseIsSent ==
  ASSUME Buyer \in Nat, NEW id \in Small, NEW m \in Small, NEW n \in Nat, NEW shop, shop = Wallet(n)
  PROVE  UserRelease(Wallet(Buyer), OrderAt(id, m), shop) =
           BuildInstruction(OrderEscrowIdl, "order_escrow", "user_release",
               [buyer |-> Wallet(Buyer), order |-> OrderPda(id), vault |-> VaultPda(id),
                merchant_wallet |-> MerchantWalletPda(m), merchant_token_account |-> AssociatedToken(shop)],
               [order_id |-> id])
<1>1. PICK found : ReadOrder(OrderAt(id, m)) = {found} /\ found.buyer = Wallet(Buyer) /\ found.merchant_id = m
  BY OrderIsRead
<1>2. PICK account : ReadMerchantWallet(m, shop) = {account} /\ account.wallet = shop
  BY WalletIsRead
<1> DEFINE Built(x) == BuildUserReleaseInstruction(
               [buyer |-> Wallet(Buyer), order |-> OrderPda(OrderAt(id, m).order_id),
                vault |-> VaultPda(OrderAt(id, m).order_id),
                merchantWallet |-> MerchantWalletPda(x[1].merchant_id),
                merchantTokenAccount |-> AssociatedToken(x[2].wallet)],
               OrderAt(id, m).order_id)
           both == ReadOrder(OrderAt(id, m)) \X ReadMerchantWallet(OrderAt(id, m).merchant_id, shop)
<1>3. UserRelease(Wallet(Buyer), OrderAt(id, m), shop) = UNION {Built(x) : x \in both}
  BY Zenon DEF UserRelease
<1>4. OrderAt(id, m).order_id = id /\ OrderAt(id, m).merchant_id = m
  BY DEF OrderAt
<1> DEFINE pair == <<found, account>>
<1>5. both = {pair} /\ pair[1] = found /\ pair[2] = account
  BY <1>1, <1>2, <1>4
<1> HIDE DEF pair, both
<1> DEFINE key == Wallet(Buyer)
           order == OrderPda(id)
           vault == VaultPda(id)
           at == MerchantWalletPda(m)
           theirs == AssociatedToken(shop)
<1>6. Built(pair) = BuildUserReleaseInstruction([buyer |-> key, order |-> order, vault |-> vault,
                                                 merchantWallet |-> at, merchantTokenAccount |-> theirs], id)
  BY <1>1, <1>2, <1>4, <1>5, Zenon
<1> HIDE DEF Built, key, order, vault, at, theirs
<1>7. Built(pair) = BuildInstruction(OrderEscrowIdl, "order_escrow", "user_release",
                        [buyer |-> key, order |-> order, vault |-> vault, merchant_wallet |-> at,
                         merchant_token_account |-> theirs], [order_id |-> id])
  BY <1>6 DEF BuildUserReleaseInstruction
<1>8. UNION {Built(x) : x \in {pair}} = Built(pair)
  OBVIOUS
<1> QED
  BY <1>3, <1>5, <1>7, <1>8 DEF key, order, vault, at, theirs

LEMMA WebReleaseIsSent ==
  ASSUME NEW id \in Small, NEW m \in Small, NEW n \in Nat, NEW shop, shop = Wallet(n)
  PROVE  WebRelease(Wallet(Buyer), OrderAt(id, m), m, shop) =
           BuildInstruction(OrderEscrowIdl, "order_escrow", "user_release",
               [buyer |-> Wallet(Buyer), order |-> OrderPda(id), vault |-> VaultPda(id),
                merchant_wallet |-> MerchantWalletPda(m), merchant_token_account |-> AssociatedToken(shop)],
               [order_id |-> id])
<1>1. PICK account : ReadMerchantWallet(m, shop) = {account} /\ account.wallet = shop
  BY WalletIsRead
<1> DEFINE Built(x) == BuildUserReleaseInstruction(
               [buyer |-> Wallet(Buyer), order |-> OrderPda(OrderAt(id, m).order_id),
                vault |-> VaultPda(OrderAt(id, m).order_id),
                merchantWallet |-> MerchantWalletPda(m),
                merchantTokenAccount |-> AssociatedToken(x.wallet)],
               OrderAt(id, m).order_id)
<1>2. WebRelease(Wallet(Buyer), OrderAt(id, m), m, shop) = UNION {Built(x) : x \in ReadMerchantWallet(m, shop)}
  BY Zenon DEF WebRelease
<1>3. OrderAt(id, m).order_id = id
  BY DEF OrderAt
<1> DEFINE key == Wallet(Buyer)
           order == OrderPda(id)
           vault == VaultPda(id)
           at == MerchantWalletPda(m)
           theirs == AssociatedToken(shop)
<1>4. Built(account) = BuildUserReleaseInstruction([buyer |-> key, order |-> order, vault |-> vault,
                                                    merchantWallet |-> at, merchantTokenAccount |-> theirs], id)
  BY <1>1, <1>3, Zenon
<1> HIDE DEF Built, key, order, vault, at, theirs
<1>5. Built(account) = BuildInstruction(OrderEscrowIdl, "order_escrow", "user_release",
                           [buyer |-> key, order |-> order, vault |-> vault, merchant_wallet |-> at,
                            merchant_token_account |-> theirs], [order_id |-> id])
  BY <1>4 DEF BuildUserReleaseInstruction
<1>6. UNION {Built(x) : x \in {account}} = Built(account)
  OBVIOUS
<1> QED
  BY <1>1, <1>2, <1>5, <1>6 DEF key, order, vault, at, theirs

\* What a merchant's agent reads before it calls.
LEMMA OrderIsLoaded ==
  ASSUME Buyer \in Nat, NEW id \in Small, NEW m \in Small, NEW shop
  PROVE  \E a : /\ LoadOrder(shop, OrderAt(id, m)) = {a} /\ a.merchant = shop /\ a.merchantWallet = MerchantWalletPda(m)
                /\ a.order = OrderPda(id) /\ a.buyer = Wallet(Buyer)
<1>1. PICK found : ReadOrder(OrderAt(id, m)) = {found} /\ found.buyer = Wallet(Buyer) /\ found.merchant_id = m
  BY OrderIsRead
<1> DEFINE Loaded(x) == [merchant |-> shop, merchantWallet |-> MerchantWalletPda(x.merchant_id),
                         order |-> OrderPda(OrderAt(id, m).order_id), buyer |-> x.buyer]
<1>2. LoadOrder(shop, OrderAt(id, m)) = {Loaded(x) : x \in ReadOrder(OrderAt(id, m))}
  BY Zenon DEF LoadOrder
<1>3. OrderAt(id, m).order_id = id
  BY DEF OrderAt
<1>4. /\ Loaded(found).merchant = shop /\ Loaded(found).merchantWallet = MerchantWalletPda(m)
      /\ Loaded(found).order = OrderPda(id) /\ Loaded(found).buyer = Wallet(Buyer)
  BY <1>1, <1>3
<1> HIDE DEF Loaded
<1>5. {Loaded(x) : x \in {found}} = {Loaded(found)}
  OBVIOUS
<1> QED
  BY <1>1, <1>2, <1>4, <1>5

LEMMA MarkPreparingIsSent ==
  ASSUME Buyer \in Nat, NEW id \in Small, NEW m \in Small, NEW shop
  PROVE  MarkPreparing(shop, OrderAt(id, m)) =
           BuildInstruction(OrderEscrowIdl, "order_escrow", "mark_preparing",
               [merchant |-> shop, merchant_wallet |-> MerchantWalletPda(m), order |-> OrderPda(id)], [order_id |-> id])
<1>1. PICK a : /\ LoadOrder(shop, OrderAt(id, m)) = {a} /\ a.merchant = shop
               /\ a.merchantWallet = MerchantWalletPda(m) /\ a.order = OrderPda(id) /\ a.buyer = Wallet(Buyer)
  BY OrderIsLoaded
<1> DEFINE Built(x) == BuildMarkPreparingInstruction(x, OrderAt(id, m).order_id)
<1>2. MarkPreparing(shop, OrderAt(id, m)) = UNION {Built(x) : x \in LoadOrder(shop, OrderAt(id, m))}
  BY Zenon DEF MarkPreparing
<1>3. OrderAt(id, m).order_id = id
  BY DEF OrderAt
<1>4. Built(a) = BuildInstruction(OrderEscrowIdl, "order_escrow", "mark_preparing",
                     [merchant |-> shop, merchant_wallet |-> MerchantWalletPda(m), order |-> OrderPda(id)],
                     [order_id |-> id])
  BY <1>1, <1>3, Zenon DEF BuildMarkPreparingInstruction, MerchantOrderAccounts
<1> HIDE DEF Built
<1>5. UNION {Built(x) : x \in {a}} = Built(a)
  OBVIOUS
<1> QED
  BY <1>1, <1>2, <1>4, <1>5

LEMMA MarkReadyIsSent ==
  ASSUME Buyer \in Nat, NEW id \in Small, NEW m \in Small, NEW shop
  PROVE  MarkReady(shop, OrderAt(id, m)) =
           BuildInstruction(OrderEscrowIdl, "order_escrow", "mark_ready",
               [merchant |-> shop, merchant_wallet |-> MerchantWalletPda(m), order |-> OrderPda(id)], [order_id |-> id])
<1>1. PICK a : /\ LoadOrder(shop, OrderAt(id, m)) = {a} /\ a.merchant = shop
               /\ a.merchantWallet = MerchantWalletPda(m) /\ a.order = OrderPda(id) /\ a.buyer = Wallet(Buyer)
  BY OrderIsLoaded
<1> DEFINE Built(x) == BuildMarkReadyInstruction(x, OrderAt(id, m).order_id)
<1>2. MarkReady(shop, OrderAt(id, m)) = UNION {Built(x) : x \in LoadOrder(shop, OrderAt(id, m))}
  BY Zenon DEF MarkReady
<1>3. OrderAt(id, m).order_id = id
  BY DEF OrderAt
<1>4. Built(a) = BuildInstruction(OrderEscrowIdl, "order_escrow", "mark_ready",
                     [merchant |-> shop, merchant_wallet |-> MerchantWalletPda(m), order |-> OrderPda(id)],
                     [order_id |-> id])
  BY <1>1, <1>3, Zenon DEF BuildMarkReadyInstruction, MerchantOrderAccounts
<1> HIDE DEF Built
<1>5. UNION {Built(x) : x \in {a}} = Built(a)
  OBVIOUS
<1> QED
  BY <1>1, <1>2, <1>4, <1>5

LEMMA ConfirmPickupIsSent ==
  ASSUME Buyer \in Nat, NEW id \in Small, NEW m \in Small, NEW shop
  PROVE  ConfirmPickup(shop, OrderAt(id, m), Code) =
           BuildInstruction(OrderEscrowIdl, "order_escrow", "confirm_pickup",
               [merchant |-> shop, merchant_wallet |-> MerchantWalletPda(m), order |-> OrderPda(id),
                vault |-> VaultPda(id), merchant_token_account |-> AssociatedToken(shop), buyer |-> Wallet(Buyer)],
               [order_id |-> id, code |-> Code])
<1>1. PICK a : /\ LoadOrder(shop, OrderAt(id, m)) = {a} /\ a.merchant = shop
               /\ a.merchantWallet = MerchantWalletPda(m) /\ a.order = OrderPda(id) /\ a.buyer = Wallet(Buyer)
  BY OrderIsLoaded
<1> DEFINE Built(x) == BuildConfirmPickupInstruction(
               [merchant |-> x.merchant, merchantWallet |-> x.merchantWallet, order |-> x.order, buyer |-> x.buyer,
                vault |-> VaultPda(OrderAt(id, m).order_id), merchantTokenAccount |-> AssociatedToken(shop)],
               OrderAt(id, m).order_id, Code)
<1>2. ConfirmPickup(shop, OrderAt(id, m), Code) = UNION {Built(x) : x \in LoadOrder(shop, OrderAt(id, m))}
  BY Zenon DEF ConfirmPickup
<1>3. OrderAt(id, m).order_id = id
  BY DEF OrderAt
<1> DEFINE key == Wallet(Buyer)
           order == OrderPda(id)
           vault == VaultPda(id)
           at == MerchantWalletPda(m)
           theirs == AssociatedToken(shop)
           code == Code
<1>4. Built(a) = BuildConfirmPickupInstruction([merchant |-> shop, merchantWallet |-> at, order |-> order,
                                                buyer |-> key, vault |-> vault, merchantTokenAccount |-> theirs], id, code)
  BY <1>1, <1>3, Zenon
<1> HIDE DEF Built, key, order, vault, at, theirs, code
<1>5. Built(a) = BuildInstruction(OrderEscrowIdl, "order_escrow", "confirm_pickup",
                     [merchant |-> shop, merchant_wallet |-> at, order |-> order, vault |-> vault,
                      merchant_token_account |-> theirs, buyer |-> key], [order_id |-> id, code |-> code])
  BY <1>4 DEF BuildConfirmPickupInstruction
<1>6. UNION {Built(x) : x \in {a}} = Built(a)
  OBVIOUS
<1> QED
  BY <1>1, <1>2, <1>5, <1>6 DEF key, order, vault, at, theirs, code

LEMMA CreateReceiptIsSent ==
  CreateReceiptCall.sent =
    BuildInstruction(OrderReceiptIdl, "order_receipt", "create_receipt",
        [relayer |-> Wallet(Relayer), receipt_config |-> ReceiptConfigPda, receipt |-> ReceiptPda(5)],
        [receipt_id |-> 5, task_ref |-> Code, total_research_micro_usdc |-> 6, total_main_micro_usdc |-> 70000,
         completed_items |-> 1, total_items |-> 2, metadata_uri |-> Code, metadata_hash |-> Receipt.metadataHash])
<1> DEFINE key == Wallet(Relayer)
           conf == ReceiptConfigPda
           at == ReceiptPda(5)
           x == Receipt
           hash == Receipt.metadataHash
           code == Code
           a == [relayer |-> key, receiptConfig |-> conf, receipt |-> at]
<1>1. CreateReceiptCall.sent = BuildCreateReceiptInstruction(a, x)
  BY DEF CreateReceiptCall
<1>2. /\ x.receiptId = 5 /\ x.taskRef = code /\ x.totalResearchMicroUsdc = 6 /\ x.totalMainMicroUsdc = 70000
      /\ x.completedItems = 1 /\ x.totalItems = 2 /\ x.metadataUri = code /\ x.metadataHash = hash
  BY DEF Receipt
<1> HIDE DEF key, conf, at, x, hash, code
<1>3. a.relayer = key /\ a.receiptConfig = conf /\ a.receipt = at
  OBVIOUS
<1> HIDE DEF a
<1>4. BuildCreateReceiptInstruction(a, x) =
        BuildInstruction(OrderReceiptIdl, "order_receipt", "create_receipt",
            [relayer |-> key, receipt_config |-> conf, receipt |-> at],
            [receipt_id |-> 5, task_ref |-> code, total_research_micro_usdc |-> 6, total_main_micro_usdc |-> 70000,
             completed_items |-> 1, total_items |-> 2, metadata_uri |-> code, metadata_hash |-> hash])
  BY <1>2, <1>3 DEF BuildCreateReceiptInstruction
<1> QED
  BY <1>1, <1>4 DEF key, conf, at, x, hash, code

LEMMA RefundCallArrives ==
  ASSUME Relayer \in Nat, Mint \in Nat, Buyer \in Nat, NEW id \in Small, NEW m \in Small
  PROVE  Arrives(RefundCall(id, m), m)
<1> DEFINE call == RefundCall(id, m)
           v1 == Wallet(Relayer)
           v2 == OrderPda(id)
           v3 == VaultPda(id)
           v4 == AssociatedToken(Wallet(Buyer))
           v5 == Wallet(Buyer)
           x1 == id
           accounts == [caller |-> v1, order |-> v2, vault |-> v3, buyer_token_account |-> v4, buyer |-> v5]
           args == [order_id |-> x1]
           meant == [order |-> v2, vault |-> v3, buyer |-> v5, buyer_token_account |-> v4]
           a == RefundIx.accounts
           f == RefundIx.args
<1>1. /\ call.sent = BuildInstruction(OrderEscrowIdl, "order_escrow", "refund", accounts, args)
      /\ call.program = "order_escrow" /\ call.name = "refund" /\ call.signer = Wallet(Relayer)
      /\ call.args = args /\ call.accounts = meant
  BY RefundIsSent DEF RefundCall, EscrowCall
<1>2. /\ WellTyped("u64", x1)
  BY SomeTyped
<1>3. /\ v2 = Derived("order_escrow", "order", LittleEndian(x1, 8))
      /\ v3 = Derived("order_escrow", "vault", LittleEndian(x1, 8))
  BY DEF OrderPda, VaultPda
<1>4. call.signer = v1
  BY <1>1
<1> HIDE DEF call, v1, v2, v3, v4, v5, x1
<1>5. /\ args.order_id = x1
      /\ args = [x \in {"order_id"} |-> args[x]]
  OBVIOUS
<1>6. /\ DOMAIN accounts = {"caller", "order", "vault", "buyer_token_account", "buyer"}
      /\ accounts["caller"] = v1
      /\ accounts["order"] = v2
      /\ accounts["vault"] = v3
      /\ accounts["buyer_token_account"] = v4
      /\ accounts["buyer"] = v5
  OBVIOUS
<1>7. /\ DOMAIN meant = {"order", "vault", "buyer", "buyer_token_account"}
      /\ meant["order"] = v2
      /\ meant["vault"] = v3
      /\ meant["buyer"] = v5
      /\ meant["buyer_token_account"] = v4
  OBVIOUS
<1> HIDE DEF accounts, args, meant, a, f
<1>8. /\ WellFormed(RefundIx) /\ Len(a) = 6 /\ Len(f) = 1
      /\ IsAccount(a[1], "caller", TRUE, AnyAddress)
      /\ IsAccount(a[2], "order", FALSE, ByArg("order", "order_id"))
      /\ IsAccount(a[3], "vault", FALSE, ByArg("vault", "order_id"))
      /\ IsAccount(a[4], "buyer_token_account", FALSE, AnyAddress)
      /\ IsAccount(a[5], "buyer", FALSE, AnyAddress)
      /\ IsAccount(a[6], "token_program", FALSE, ProgramAt("token"))
      /\ f[1] = <<"order_id", "u64">>
  BY RefundTable DEF a, f
<1>9. Fits(f, args)
  <2> DEFINE Good(k) == WellTyped(f[k][2], args[f[k][1]])
  <2>1. Good(1)
    BY <1>2, <1>5, <1>8
  <2> HIDE DEF Good
  <2>2. \A k \in 1..1 : Good(k)
    BY <2>1
  <2> QED
    BY <1>8, <2>2 DEF Fits, Good
<1>10. Names(f) = {"order_id"}
  <2> DEFINE N(k) == f[k][1]
  <2>1. /\ N(1) = "order_id"
    BY <1>8
  <2>2. Names(f) = {N(k) : k \in 1..1}
    BY <1>8 DEF Names, NameOf
  <2> HIDE DEF N
  <2> QED
    BY <2>1, <2>2
<1> DEFINE Fine(i) == Right("order_escrow", a[i], accounts, args, call.signer, {m})
<1>11. Fine(1)
  BY <1>4, <1>6, <1>8, RightAccounts
<1>12. Fine(2)
  BY <1>3, <1>5, <1>6, <1>8, RightAccounts
<1>13. Fine(3)
  BY <1>3, <1>5, <1>6, <1>8, RightAccounts
<1>14. Fine(4)
  BY <1>6, <1>8, RightAccounts
<1>15. Fine(5)
  BY <1>6, <1>8, RightAccounts
<1>16. Fine(6)
  BY <1>8, RightPrograms
<1> HIDE DEF Fine
<1>17. \A i \in 1..6 : Fine(i)
  BY <1>11, <1>12, <1>13, <1>14, <1>15, <1>16
<1>18. \A k \in DOMAIN meant : meant[k] = accounts[k] /\ \E i \in 1..6 : a[i].name = k /\ a[i].at.by # "fixed"
  <2>1. /\ a[2].name = "order" /\ a[2].at.by # "fixed"
        /\ a[3].name = "vault" /\ a[3].at.by # "fixed"
        /\ a[5].name = "buyer" /\ a[5].at.by # "fixed"
        /\ a[4].name = "buyer_token_account" /\ a[4].at.by # "fixed"
    BY <1>8, Seeds DEF IsAccount
  <2>2. 2 \in 1..6 /\ 3 \in 1..6 /\ 5 \in 1..6 /\ 4 \in 1..6
    OBVIOUS
  <2> QED
    BY <1>6, <1>7, <2>1, <2>2
<1>19. IdlOf("order_escrow") = OrderEscrowIdl /\ Only(OrderEscrowIdl, RefundIx) /\ RefundIx.name = "refund"
  BY EscrowOnly, EscrowNames DEF IdlOf
<1>20. Meant(call, RefundIx, accounts, args, m)
  BY <1>1, <1>5, <1>8, <1>9, <1>10, <1>17, <1>18, <1>19 DEF Meant, Fine, a, f
<1> QED
  BY <1>20, MeantArrives DEF call

LEMMA FundCallArrives ==
  ASSUME Relayer \in Nat, Mint \in Nat, Buyer \in Nat, NEW id \in Small, NEW m \in Small
  PROVE  Arrives(FundCall(id, m), m)
<1> DEFINE call == FundCall(id, m)
           v1 == Wallet(Buyer)
           v2 == EscrowConfigPda
           v3 == MerchantWalletPda(m)
           v4 == OrderPda(id)
           v5 == Wallet(Mint)
           v6 == VaultPda(id)
           v7 == AssociatedToken(Wallet(Buyer))
           x1 == id
           x2 == Terms.amount
           x3 == Terms.quoteHash
           x4 == Terms.pickupCodeHash
           x5 == Terms.releaseDeadline
           accounts == [buyer |-> v1, escrow_config |-> v2, merchant_wallet |-> v3, order |-> v4, usdc_mint |-> v5, vault |-> v6, buyer_token_account |-> v7]
           args == [order_id |-> x1, amount |-> x2, quote_hash |-> x3, pickup_code_hash |-> x4, release_deadline |-> x5]
           meant == [order |-> v4, vault |-> v6, merchant_wallet |-> v3, usdc_mint |-> v5, buyer_token_account |-> v7]
           a == FundIx.accounts
           f == FundIx.args
<1>1. /\ call.sent = BuildInstruction(OrderEscrowIdl, "order_escrow", "fund", accounts, args)
      /\ call.program = "order_escrow" /\ call.name = "fund" /\ call.signer = Wallet(Buyer)
      /\ call.args = args /\ call.accounts = meant
  BY FundIsSent DEF FundAccounts, FundArgs, FundCall, EscrowCall
<1>2. /\ WellTyped("u64", x1)
      /\ WellTyped("u64", x2)
      /\ WellTyped("bytes32", x3)
      /\ WellTyped("bytes32", x4)
      /\ WellTyped("i64", x5)
  BY SomeTyped
<1>3. /\ v2 = Derived("order_escrow", "escrow_config", <<>>)
      /\ v3 = Derived("order_escrow", "merchant_wallet", LittleEndian(m, 8))
      /\ v4 = Derived("order_escrow", "order", LittleEndian(x1, 8))
      /\ v6 = Derived("order_escrow", "vault", LittleEndian(x1, 8))
  BY DEF EscrowConfigPda, MerchantWalletPda, OrderPda, VaultPda
<1>4. call.signer = v1
  BY <1>1
<1> HIDE DEF call, v1, v2, v3, v4, v5, v6, v7, x1, x2, x3, x4, x5
<1>5. /\ args.order_id = x1
      /\ args.amount = x2
      /\ args.quote_hash = x3
      /\ args.pickup_code_hash = x4
      /\ args.release_deadline = x5
      /\ args = [x \in {"order_id", "amount", "quote_hash", "pickup_code_hash", "release_deadline"} |-> args[x]]
  OBVIOUS
<1>6. /\ DOMAIN accounts = {"buyer", "escrow_config", "merchant_wallet", "order", "usdc_mint", "vault", "buyer_token_account"}
      /\ accounts["buyer"] = v1
      /\ accounts["escrow_config"] = v2
      /\ accounts["merchant_wallet"] = v3
      /\ accounts["order"] = v4
      /\ accounts["usdc_mint"] = v5
      /\ accounts["vault"] = v6
      /\ accounts["buyer_token_account"] = v7
  OBVIOUS
<1>7. /\ DOMAIN meant = {"order", "vault", "merchant_wallet", "usdc_mint", "buyer_token_account"}
      /\ meant["order"] = v4
      /\ meant["vault"] = v6
      /\ meant["merchant_wallet"] = v3
      /\ meant["usdc_mint"] = v5
      /\ meant["buyer_token_account"] = v7
  OBVIOUS
<1> HIDE DEF accounts, args, meant, a, f
<1>8. /\ WellFormed(FundIx) /\ Len(a) = 9 /\ Len(f) = 5
      /\ IsAccount(a[1], "buyer", TRUE, AnyAddress)
      /\ IsAccount(a[2], "escrow_config", FALSE, Prefix("escrow_config"))
      /\ IsAccount(a[3], "merchant_wallet", FALSE, ByOwn("merchant_wallet", "merchant_id"))
      /\ IsAccount(a[4], "order", FALSE, ByArg("order", "order_id"))
      /\ IsAccount(a[5], "usdc_mint", FALSE, AnyAddress)
      /\ IsAccount(a[6], "vault", FALSE, ByArg("vault", "order_id"))
      /\ IsAccount(a[7], "buyer_token_account", FALSE, AnyAddress)
      /\ IsAccount(a[8], "token_program", FALSE, ProgramAt("token"))
      /\ IsAccount(a[9], "system_program", FALSE, ProgramAt("system"))
      /\ f[1] = <<"order_id", "u64">>
      /\ f[2] = <<"amount", "u64">>
      /\ f[3] = <<"quote_hash", "bytes32">>
      /\ f[4] = <<"pickup_code_hash", "bytes32">>
      /\ f[5] = <<"release_deadline", "i64">>
  BY FundTable DEF a, f
<1>9. Fits(f, args)
  <2> DEFINE Good(k) == WellTyped(f[k][2], args[f[k][1]])
  <2>1. Good(1) /\ Good(2) /\ Good(3) /\ Good(4) /\ Good(5)
    BY <1>2, <1>5, <1>8
  <2> HIDE DEF Good
  <2>2. \A k \in 1..5 : Good(k)
    BY <2>1
  <2> QED
    BY <1>8, <2>2 DEF Fits, Good
<1>10. Names(f) = {"order_id", "amount", "quote_hash", "pickup_code_hash", "release_deadline"}
  <2> DEFINE N(k) == f[k][1]
  <2>1. /\ N(1) = "order_id"
        /\ N(2) = "amount"
        /\ N(3) = "quote_hash"
        /\ N(4) = "pickup_code_hash"
        /\ N(5) = "release_deadline"
    BY <1>8
  <2>2. Names(f) = {N(k) : k \in 1..5}
    BY <1>8 DEF Names, NameOf
  <2> HIDE DEF N
  <2> QED
    BY <2>1, <2>2
<1> DEFINE Fine(i) == Right("order_escrow", a[i], accounts, args, call.signer, {m})
<1>11. Fine(1)
  BY <1>4, <1>6, <1>8, RightAccounts
<1>12. Fine(2)
  BY <1>3, <1>6, <1>8, RightAccounts
<1>13. Fine(3)
  <2>1. m \in {m}
    OBVIOUS
  <2> QED
    BY <1>3, <1>6, <1>8, <2>1, RightAccounts
<1>14. Fine(4)
  BY <1>3, <1>5, <1>6, <1>8, RightAccounts
<1>15. Fine(5)
  BY <1>6, <1>8, RightAccounts
<1>16. Fine(6)
  BY <1>3, <1>5, <1>6, <1>8, RightAccounts
<1>17. Fine(7)
  BY <1>6, <1>8, RightAccounts
<1>18. Fine(8)
  BY <1>8, RightPrograms
<1>19. Fine(9)
  BY <1>8, RightPrograms
<1> HIDE DEF Fine
<1>20. \A i \in 1..9 : Fine(i)
  BY <1>11, <1>12, <1>13, <1>14, <1>15, <1>16, <1>17, <1>18, <1>19
<1>21. \A k \in DOMAIN meant : meant[k] = accounts[k] /\ \E i \in 1..9 : a[i].name = k /\ a[i].at.by # "fixed"
  <2>1. /\ a[4].name = "order" /\ a[4].at.by # "fixed"
        /\ a[6].name = "vault" /\ a[6].at.by # "fixed"
        /\ a[3].name = "merchant_wallet" /\ a[3].at.by # "fixed"
        /\ a[5].name = "usdc_mint" /\ a[5].at.by # "fixed"
        /\ a[7].name = "buyer_token_account" /\ a[7].at.by # "fixed"
    BY <1>8, Seeds DEF IsAccount
  <2>2. 4 \in 1..9 /\ 6 \in 1..9 /\ 3 \in 1..9 /\ 5 \in 1..9 /\ 7 \in 1..9
    OBVIOUS
  <2> QED
    BY <1>6, <1>7, <2>1, <2>2
<1>22. IdlOf("order_escrow") = OrderEscrowIdl /\ Only(OrderEscrowIdl, FundIx) /\ FundIx.name = "fund"
  BY EscrowOnly, EscrowNames DEF IdlOf
<1>23. Meant(call, FundIx, accounts, args, m)
  BY <1>1, <1>5, <1>8, <1>9, <1>10, <1>20, <1>21, <1>22 DEF Meant, Fine, a, f
<1> QED
  BY <1>23, MeantArrives DEF call

LEMMA UserReleaseCallArrives ==
  ASSUME Relayer \in Nat, Mint \in Nat, Buyer \in Nat, NEW id \in Small, NEW m \in Small, NEW n \in Nat, NEW shop, shop = Wallet(n)
  PROVE  Arrives(UserReleaseCall(id, m, shop), m)
<1> DEFINE call == UserReleaseCall(id, m, shop)
           v1 == Wallet(Buyer)
           v2 == OrderPda(id)
           v3 == VaultPda(id)
           v4 == MerchantWalletPda(m)
           v5 == AssociatedToken(shop)
           x1 == id
           accounts == [buyer |-> v1, order |-> v2, vault |-> v3, merchant_wallet |-> v4, merchant_token_account |-> v5]
           args == [order_id |-> x1]
           meant == [order |-> v2, vault |-> v3, merchant_wallet |-> v4, merchant_token_account |-> v5]
           a == UserReleaseIx.accounts
           f == UserReleaseIx.args
<1>1. /\ call.sent = BuildInstruction(OrderEscrowIdl, "order_escrow", "user_release", accounts, args)
      /\ call.program = "order_escrow" /\ call.name = "user_release" /\ call.signer = Wallet(Buyer)
      /\ call.args = args /\ call.accounts = meant
  BY UserReleaseIsSent DEF UserReleaseCall, EscrowCall, ReleaseAccounts
<1>2. /\ WellTyped("u64", x1)
  BY SomeTyped
<1>3. /\ v2 = Derived("order_escrow", "order", LittleEndian(x1, 8))
      /\ v3 = Derived("order_escrow", "vault", LittleEndian(x1, 8))
      /\ v4 = Derived("order_escrow", "merchant_wallet", LittleEndian(m, 8))
  BY DEF OrderPda, VaultPda, MerchantWalletPda
<1>4. call.signer = v1
  BY <1>1
<1> HIDE DEF call, v1, v2, v3, v4, v5, x1
<1>5. /\ args.order_id = x1
      /\ args = [x \in {"order_id"} |-> args[x]]
  OBVIOUS
<1>6. /\ DOMAIN accounts = {"buyer", "order", "vault", "merchant_wallet", "merchant_token_account"}
      /\ accounts["buyer"] = v1
      /\ accounts["order"] = v2
      /\ accounts["vault"] = v3
      /\ accounts["merchant_wallet"] = v4
      /\ accounts["merchant_token_account"] = v5
  OBVIOUS
<1>7. /\ DOMAIN meant = {"order", "vault", "merchant_wallet", "merchant_token_account"}
      /\ meant["order"] = v2
      /\ meant["vault"] = v3
      /\ meant["merchant_wallet"] = v4
      /\ meant["merchant_token_account"] = v5
  OBVIOUS
<1> HIDE DEF accounts, args, meant, a, f
<1>8. /\ WellFormed(UserReleaseIx) /\ Len(a) = 6 /\ Len(f) = 1
      /\ IsAccount(a[1], "buyer", TRUE, AnyAddress)
      /\ IsAccount(a[2], "order", FALSE, ByArg("order", "order_id"))
      /\ IsAccount(a[3], "vault", FALSE, ByArg("vault", "order_id"))
      /\ IsAccount(a[4], "merchant_wallet", FALSE, ByOwn("merchant_wallet", "merchant_id"))
      /\ IsAccount(a[5], "merchant_token_account", FALSE, AnyAddress)
      /\ IsAccount(a[6], "token_program", FALSE, ProgramAt("token"))
      /\ f[1] = <<"order_id", "u64">>
  BY UserReleaseTable DEF a, f
<1>9. Fits(f, args)
  <2> DEFINE Good(k) == WellTyped(f[k][2], args[f[k][1]])
  <2>1. Good(1)
    BY <1>2, <1>5, <1>8
  <2> HIDE DEF Good
  <2>2. \A k \in 1..1 : Good(k)
    BY <2>1
  <2> QED
    BY <1>8, <2>2 DEF Fits, Good
<1>10. Names(f) = {"order_id"}
  <2> DEFINE N(k) == f[k][1]
  <2>1. /\ N(1) = "order_id"
    BY <1>8
  <2>2. Names(f) = {N(k) : k \in 1..1}
    BY <1>8 DEF Names, NameOf
  <2> HIDE DEF N
  <2> QED
    BY <2>1, <2>2
<1> DEFINE Fine(i) == Right("order_escrow", a[i], accounts, args, call.signer, {m})
<1>11. Fine(1)
  BY <1>4, <1>6, <1>8, RightAccounts
<1>12. Fine(2)
  BY <1>3, <1>5, <1>6, <1>8, RightAccounts
<1>13. Fine(3)
  BY <1>3, <1>5, <1>6, <1>8, RightAccounts
<1>14. Fine(4)
  <2>1. m \in {m}
    OBVIOUS
  <2> QED
    BY <1>3, <1>6, <1>8, <2>1, RightAccounts
<1>15. Fine(5)
  BY <1>6, <1>8, RightAccounts
<1>16. Fine(6)
  BY <1>8, RightPrograms
<1> HIDE DEF Fine
<1>17. \A i \in 1..6 : Fine(i)
  BY <1>11, <1>12, <1>13, <1>14, <1>15, <1>16
<1>18. \A k \in DOMAIN meant : meant[k] = accounts[k] /\ \E i \in 1..6 : a[i].name = k /\ a[i].at.by # "fixed"
  <2>1. /\ a[2].name = "order" /\ a[2].at.by # "fixed"
        /\ a[3].name = "vault" /\ a[3].at.by # "fixed"
        /\ a[4].name = "merchant_wallet" /\ a[4].at.by # "fixed"
        /\ a[5].name = "merchant_token_account" /\ a[5].at.by # "fixed"
    BY <1>8, Seeds DEF IsAccount
  <2>2. 2 \in 1..6 /\ 3 \in 1..6 /\ 4 \in 1..6 /\ 5 \in 1..6
    OBVIOUS
  <2> QED
    BY <1>6, <1>7, <2>1, <2>2
<1>19. IdlOf("order_escrow") = OrderEscrowIdl /\ Only(OrderEscrowIdl, UserReleaseIx) /\ UserReleaseIx.name = "user_release"
  BY EscrowOnly, EscrowNames DEF IdlOf
<1>20. Meant(call, UserReleaseIx, accounts, args, m)
  BY <1>1, <1>5, <1>8, <1>9, <1>10, <1>17, <1>18, <1>19 DEF Meant, Fine, a, f
<1> QED
  BY <1>20, MeantArrives DEF call

LEMMA WebReleaseCallArrives ==
  ASSUME Relayer \in Nat, Mint \in Nat, Buyer \in Nat, NEW id \in Small, NEW m \in Small, NEW n \in Nat, NEW shop, shop = Wallet(n)
  PROVE  Arrives(WebReleaseCall(id, m, shop), m)
<1> DEFINE call == WebReleaseCall(id, m, shop)
           v1 == Wallet(Buyer)
           v2 == OrderPda(id)
           v3 == VaultPda(id)
           v4 == MerchantWalletPda(m)
           v5 == AssociatedToken(shop)
           x1 == id
           accounts == [buyer |-> v1, order |-> v2, vault |-> v3, merchant_wallet |-> v4, merchant_token_account |-> v5]
           args == [order_id |-> x1]
           meant == [order |-> v2, vault |-> v3, merchant_wallet |-> v4, merchant_token_account |-> v5]
           a == UserReleaseIx.accounts
           f == UserReleaseIx.args
<1>1. /\ call.sent = BuildInstruction(OrderEscrowIdl, "order_escrow", "user_release", accounts, args)
      /\ call.program = "order_escrow" /\ call.name = "user_release" /\ call.signer = Wallet(Buyer)
      /\ call.args = args /\ call.accounts = meant
  BY WebReleaseIsSent DEF WebReleaseCall, EscrowCall, ReleaseAccounts
<1>2. /\ WellTyped("u64", x1)
  BY SomeTyped
<1>3. /\ v2 = Derived("order_escrow", "order", LittleEndian(x1, 8))
      /\ v3 = Derived("order_escrow", "vault", LittleEndian(x1, 8))
      /\ v4 = Derived("order_escrow", "merchant_wallet", LittleEndian(m, 8))
  BY DEF OrderPda, VaultPda, MerchantWalletPda
<1>4. call.signer = v1
  BY <1>1
<1> HIDE DEF call, v1, v2, v3, v4, v5, x1
<1>5. /\ args.order_id = x1
      /\ args = [x \in {"order_id"} |-> args[x]]
  OBVIOUS
<1>6. /\ DOMAIN accounts = {"buyer", "order", "vault", "merchant_wallet", "merchant_token_account"}
      /\ accounts["buyer"] = v1
      /\ accounts["order"] = v2
      /\ accounts["vault"] = v3
      /\ accounts["merchant_wallet"] = v4
      /\ accounts["merchant_token_account"] = v5
  OBVIOUS
<1>7. /\ DOMAIN meant = {"order", "vault", "merchant_wallet", "merchant_token_account"}
      /\ meant["order"] = v2
      /\ meant["vault"] = v3
      /\ meant["merchant_wallet"] = v4
      /\ meant["merchant_token_account"] = v5
  OBVIOUS
<1> HIDE DEF accounts, args, meant, a, f
<1>8. /\ WellFormed(UserReleaseIx) /\ Len(a) = 6 /\ Len(f) = 1
      /\ IsAccount(a[1], "buyer", TRUE, AnyAddress)
      /\ IsAccount(a[2], "order", FALSE, ByArg("order", "order_id"))
      /\ IsAccount(a[3], "vault", FALSE, ByArg("vault", "order_id"))
      /\ IsAccount(a[4], "merchant_wallet", FALSE, ByOwn("merchant_wallet", "merchant_id"))
      /\ IsAccount(a[5], "merchant_token_account", FALSE, AnyAddress)
      /\ IsAccount(a[6], "token_program", FALSE, ProgramAt("token"))
      /\ f[1] = <<"order_id", "u64">>
  BY UserReleaseTable DEF a, f
<1>9. Fits(f, args)
  <2> DEFINE Good(k) == WellTyped(f[k][2], args[f[k][1]])
  <2>1. Good(1)
    BY <1>2, <1>5, <1>8
  <2> HIDE DEF Good
  <2>2. \A k \in 1..1 : Good(k)
    BY <2>1
  <2> QED
    BY <1>8, <2>2 DEF Fits, Good
<1>10. Names(f) = {"order_id"}
  <2> DEFINE N(k) == f[k][1]
  <2>1. /\ N(1) = "order_id"
    BY <1>8
  <2>2. Names(f) = {N(k) : k \in 1..1}
    BY <1>8 DEF Names, NameOf
  <2> HIDE DEF N
  <2> QED
    BY <2>1, <2>2
<1> DEFINE Fine(i) == Right("order_escrow", a[i], accounts, args, call.signer, {m})
<1>11. Fine(1)
  BY <1>4, <1>6, <1>8, RightAccounts
<1>12. Fine(2)
  BY <1>3, <1>5, <1>6, <1>8, RightAccounts
<1>13. Fine(3)
  BY <1>3, <1>5, <1>6, <1>8, RightAccounts
<1>14. Fine(4)
  <2>1. m \in {m}
    OBVIOUS
  <2> QED
    BY <1>3, <1>6, <1>8, <2>1, RightAccounts
<1>15. Fine(5)
  BY <1>6, <1>8, RightAccounts
<1>16. Fine(6)
  BY <1>8, RightPrograms
<1> HIDE DEF Fine
<1>17. \A i \in 1..6 : Fine(i)
  BY <1>11, <1>12, <1>13, <1>14, <1>15, <1>16
<1>18. \A k \in DOMAIN meant : meant[k] = accounts[k] /\ \E i \in 1..6 : a[i].name = k /\ a[i].at.by # "fixed"
  <2>1. /\ a[2].name = "order" /\ a[2].at.by # "fixed"
        /\ a[3].name = "vault" /\ a[3].at.by # "fixed"
        /\ a[4].name = "merchant_wallet" /\ a[4].at.by # "fixed"
        /\ a[5].name = "merchant_token_account" /\ a[5].at.by # "fixed"
    BY <1>8, Seeds DEF IsAccount
  <2>2. 2 \in 1..6 /\ 3 \in 1..6 /\ 4 \in 1..6 /\ 5 \in 1..6
    OBVIOUS
  <2> QED
    BY <1>6, <1>7, <2>1, <2>2
<1>19. IdlOf("order_escrow") = OrderEscrowIdl /\ Only(OrderEscrowIdl, UserReleaseIx) /\ UserReleaseIx.name = "user_release"
  BY EscrowOnly, EscrowNames DEF IdlOf
<1>20. Meant(call, UserReleaseIx, accounts, args, m)
  BY <1>1, <1>5, <1>8, <1>9, <1>10, <1>17, <1>18, <1>19 DEF Meant, Fine, a, f
<1> QED
  BY <1>20, MeantArrives DEF call

LEMMA MarkPreparingCallArrives ==
  ASSUME Relayer \in Nat, Mint \in Nat, Buyer \in Nat, NEW id \in Small, NEW m \in Small, NEW n \in Nat, NEW shop, shop = Wallet(n)
  PROVE  Arrives(MarkPreparingCall(id, m, shop), m)
<1> DEFINE call == MarkPreparingCall(id, m, shop)
           v1 == shop
           v2 == MerchantWalletPda(m)
           v3 == OrderPda(id)
           x1 == id
           accounts == [merchant |-> v1, merchant_wallet |-> v2, order |-> v3]
           args == [order_id |-> x1]
           meant == [order |-> v3]
           a == MarkPreparingIx.accounts
           f == MarkPreparingIx.args
<1>1. /\ call.sent = BuildInstruction(OrderEscrowIdl, "order_escrow", "mark_preparing", accounts, args)
      /\ call.program = "order_escrow" /\ call.name = "mark_preparing" /\ call.signer = shop
      /\ call.args = args /\ call.accounts = meant
  BY MarkPreparingIsSent DEF MarkPreparingCall, EscrowCall
<1>2. /\ WellTyped("u64", x1)
  BY SomeTyped
<1>3. /\ v2 = Derived("order_escrow", "merchant_wallet", LittleEndian(m, 8))
      /\ v3 = Derived("order_escrow", "order", LittleEndian(x1, 8))
  BY DEF MerchantWalletPda, OrderPda
<1>4. call.signer = v1
  BY <1>1
<1> HIDE DEF call, v1, v2, v3, x1
<1>5. /\ args.order_id = x1
      /\ args = [x \in {"order_id"} |-> args[x]]
  OBVIOUS
<1>6. /\ DOMAIN accounts = {"merchant", "merchant_wallet", "order"}
      /\ accounts["merchant"] = v1
      /\ accounts["merchant_wallet"] = v2
      /\ accounts["order"] = v3
  OBVIOUS
<1>7. /\ DOMAIN meant = {"order"}
      /\ meant["order"] = v3
  OBVIOUS
<1> HIDE DEF accounts, args, meant, a, f
<1>8. /\ WellFormed(MarkPreparingIx) /\ Len(a) = 3 /\ Len(f) = 1
      /\ IsAccount(a[1], "merchant", TRUE, AnyAddress)
      /\ IsAccount(a[2], "merchant_wallet", FALSE, ByOwn("merchant_wallet", "merchant_id"))
      /\ IsAccount(a[3], "order", FALSE, ByArg("order", "order_id"))
      /\ f[1] = <<"order_id", "u64">>
  BY MarkPreparingTable DEF a, f
<1>9. Fits(f, args)
  <2> DEFINE Good(k) == WellTyped(f[k][2], args[f[k][1]])
  <2>1. Good(1)
    BY <1>2, <1>5, <1>8
  <2> HIDE DEF Good
  <2>2. \A k \in 1..1 : Good(k)
    BY <2>1
  <2> QED
    BY <1>8, <2>2 DEF Fits, Good
<1>10. Names(f) = {"order_id"}
  <2> DEFINE N(k) == f[k][1]
  <2>1. /\ N(1) = "order_id"
    BY <1>8
  <2>2. Names(f) = {N(k) : k \in 1..1}
    BY <1>8 DEF Names, NameOf
  <2> HIDE DEF N
  <2> QED
    BY <2>1, <2>2
<1> DEFINE Fine(i) == Right("order_escrow", a[i], accounts, args, call.signer, {m})
<1>11. Fine(1)
  BY <1>4, <1>6, <1>8, RightAccounts
<1>12. Fine(2)
  <2>1. m \in {m}
    OBVIOUS
  <2> QED
    BY <1>3, <1>6, <1>8, <2>1, RightAccounts
<1>13. Fine(3)
  BY <1>3, <1>5, <1>6, <1>8, RightAccounts
<1> HIDE DEF Fine
<1>14. \A i \in 1..3 : Fine(i)
  BY <1>11, <1>12, <1>13
<1>15. \A k \in DOMAIN meant : meant[k] = accounts[k] /\ \E i \in 1..3 : a[i].name = k /\ a[i].at.by # "fixed"
  <2>1. /\ a[3].name = "order" /\ a[3].at.by # "fixed"
    BY <1>8, Seeds DEF IsAccount
  <2>2. 3 \in 1..3
    OBVIOUS
  <2> QED
    BY <1>6, <1>7, <2>1, <2>2
<1>16. IdlOf("order_escrow") = OrderEscrowIdl /\ Only(OrderEscrowIdl, MarkPreparingIx) /\ MarkPreparingIx.name = "mark_preparing"
  BY EscrowOnly, EscrowNames DEF IdlOf
<1>17. Meant(call, MarkPreparingIx, accounts, args, m)
  BY <1>1, <1>5, <1>8, <1>9, <1>10, <1>14, <1>15, <1>16 DEF Meant, Fine, a, f
<1> QED
  BY <1>17, MeantArrives DEF call

LEMMA MarkReadyCallArrives ==
  ASSUME Relayer \in Nat, Mint \in Nat, Buyer \in Nat, NEW id \in Small, NEW m \in Small, NEW n \in Nat, NEW shop, shop = Wallet(n)
  PROVE  Arrives(MarkReadyCall(id, m, shop), m)
<1> DEFINE call == MarkReadyCall(id, m, shop)
           v1 == shop
           v2 == MerchantWalletPda(m)
           v3 == OrderPda(id)
           x1 == id
           accounts == [merchant |-> v1, merchant_wallet |-> v2, order |-> v3]
           args == [order_id |-> x1]
           meant == [order |-> v3]
           a == MarkReadyIx.accounts
           f == MarkReadyIx.args
<1>1. /\ call.sent = BuildInstruction(OrderEscrowIdl, "order_escrow", "mark_ready", accounts, args)
      /\ call.program = "order_escrow" /\ call.name = "mark_ready" /\ call.signer = shop
      /\ call.args = args /\ call.accounts = meant
  BY MarkReadyIsSent DEF MarkReadyCall, EscrowCall
<1>2. /\ WellTyped("u64", x1)
  BY SomeTyped
<1>3. /\ v2 = Derived("order_escrow", "merchant_wallet", LittleEndian(m, 8))
      /\ v3 = Derived("order_escrow", "order", LittleEndian(x1, 8))
  BY DEF MerchantWalletPda, OrderPda
<1>4. call.signer = v1
  BY <1>1
<1> HIDE DEF call, v1, v2, v3, x1
<1>5. /\ args.order_id = x1
      /\ args = [x \in {"order_id"} |-> args[x]]
  OBVIOUS
<1>6. /\ DOMAIN accounts = {"merchant", "merchant_wallet", "order"}
      /\ accounts["merchant"] = v1
      /\ accounts["merchant_wallet"] = v2
      /\ accounts["order"] = v3
  OBVIOUS
<1>7. /\ DOMAIN meant = {"order"}
      /\ meant["order"] = v3
  OBVIOUS
<1> HIDE DEF accounts, args, meant, a, f
<1>8. /\ WellFormed(MarkReadyIx) /\ Len(a) = 3 /\ Len(f) = 1
      /\ IsAccount(a[1], "merchant", TRUE, AnyAddress)
      /\ IsAccount(a[2], "merchant_wallet", FALSE, ByOwn("merchant_wallet", "merchant_id"))
      /\ IsAccount(a[3], "order", FALSE, ByArg("order", "order_id"))
      /\ f[1] = <<"order_id", "u64">>
  BY MarkReadyTable DEF a, f
<1>9. Fits(f, args)
  <2> DEFINE Good(k) == WellTyped(f[k][2], args[f[k][1]])
  <2>1. Good(1)
    BY <1>2, <1>5, <1>8
  <2> HIDE DEF Good
  <2>2. \A k \in 1..1 : Good(k)
    BY <2>1
  <2> QED
    BY <1>8, <2>2 DEF Fits, Good
<1>10. Names(f) = {"order_id"}
  <2> DEFINE N(k) == f[k][1]
  <2>1. /\ N(1) = "order_id"
    BY <1>8
  <2>2. Names(f) = {N(k) : k \in 1..1}
    BY <1>8 DEF Names, NameOf
  <2> HIDE DEF N
  <2> QED
    BY <2>1, <2>2
<1> DEFINE Fine(i) == Right("order_escrow", a[i], accounts, args, call.signer, {m})
<1>11. Fine(1)
  BY <1>4, <1>6, <1>8, RightAccounts
<1>12. Fine(2)
  <2>1. m \in {m}
    OBVIOUS
  <2> QED
    BY <1>3, <1>6, <1>8, <2>1, RightAccounts
<1>13. Fine(3)
  BY <1>3, <1>5, <1>6, <1>8, RightAccounts
<1> HIDE DEF Fine
<1>14. \A i \in 1..3 : Fine(i)
  BY <1>11, <1>12, <1>13
<1>15. \A k \in DOMAIN meant : meant[k] = accounts[k] /\ \E i \in 1..3 : a[i].name = k /\ a[i].at.by # "fixed"
  <2>1. /\ a[3].name = "order" /\ a[3].at.by # "fixed"
    BY <1>8, Seeds DEF IsAccount
  <2>2. 3 \in 1..3
    OBVIOUS
  <2> QED
    BY <1>6, <1>7, <2>1, <2>2
<1>16. IdlOf("order_escrow") = OrderEscrowIdl /\ Only(OrderEscrowIdl, MarkReadyIx) /\ MarkReadyIx.name = "mark_ready"
  BY EscrowOnly, EscrowNames DEF IdlOf
<1>17. Meant(call, MarkReadyIx, accounts, args, m)
  BY <1>1, <1>5, <1>8, <1>9, <1>10, <1>14, <1>15, <1>16 DEF Meant, Fine, a, f
<1> QED
  BY <1>17, MeantArrives DEF call

LEMMA ConfirmPickupCallArrives ==
  ASSUME Relayer \in Nat, Mint \in Nat, Buyer \in Nat, NEW id \in Small, NEW m \in Small, NEW n \in Nat, NEW shop, shop = Wallet(n)
  PROVE  Arrives(ConfirmPickupCall(id, m, shop), m)
<1> DEFINE call == ConfirmPickupCall(id, m, shop)
           v1 == shop
           v2 == MerchantWalletPda(m)
           v3 == OrderPda(id)
           v4 == VaultPda(id)
           v5 == AssociatedToken(shop)
           v6 == Wallet(Buyer)
           x1 == id
           x2 == Code
           accounts == [merchant |-> v1, merchant_wallet |-> v2, order |-> v3, vault |-> v4, merchant_token_account |-> v5, buyer |-> v6]
           args == [order_id |-> x1, code |-> x2]
           meant == [order |-> v3, vault |-> v4, merchant_wallet |-> v2, merchant_token_account |-> v5, buyer |-> v6]
           a == ConfirmPickupIx.accounts
           f == ConfirmPickupIx.args
<1>1. /\ call.sent = BuildInstruction(OrderEscrowIdl, "order_escrow", "confirm_pickup", accounts, args)
      /\ call.program = "order_escrow" /\ call.name = "confirm_pickup" /\ call.signer = shop
      /\ call.args = args /\ call.accounts = meant
  BY ConfirmPickupIsSent DEF ConfirmPickupCall, EscrowCall
<1>2. /\ WellTyped("u64", x1)
      /\ WellTyped("string", x2)
  BY SomeTyped
<1>3. /\ v2 = Derived("order_escrow", "merchant_wallet", LittleEndian(m, 8))
      /\ v3 = Derived("order_escrow", "order", LittleEndian(x1, 8))
      /\ v4 = Derived("order_escrow", "vault", LittleEndian(x1, 8))
  BY DEF MerchantWalletPda, OrderPda, VaultPda
<1>4. call.signer = v1
  BY <1>1
<1> HIDE DEF call, v1, v2, v3, v4, v5, v6, x1, x2
<1>5. /\ args.order_id = x1
      /\ args.code = x2
      /\ args = [x \in {"order_id", "code"} |-> args[x]]
  OBVIOUS
<1>6. /\ DOMAIN accounts = {"merchant", "merchant_wallet", "order", "vault", "merchant_token_account", "buyer"}
      /\ accounts["merchant"] = v1
      /\ accounts["merchant_wallet"] = v2
      /\ accounts["order"] = v3
      /\ accounts["vault"] = v4
      /\ accounts["merchant_token_account"] = v5
      /\ accounts["buyer"] = v6
  OBVIOUS
<1>7. /\ DOMAIN meant = {"order", "vault", "merchant_wallet", "merchant_token_account", "buyer"}
      /\ meant["order"] = v3
      /\ meant["vault"] = v4
      /\ meant["merchant_wallet"] = v2
      /\ meant["merchant_token_account"] = v5
      /\ meant["buyer"] = v6
  OBVIOUS
<1> HIDE DEF accounts, args, meant, a, f
<1>8. /\ WellFormed(ConfirmPickupIx) /\ Len(a) = 7 /\ Len(f) = 2
      /\ IsAccount(a[1], "merchant", TRUE, AnyAddress)
      /\ IsAccount(a[2], "merchant_wallet", FALSE, ByOwn("merchant_wallet", "merchant_id"))
      /\ IsAccount(a[3], "order", FALSE, ByArg("order", "order_id"))
      /\ IsAccount(a[4], "vault", FALSE, ByArg("vault", "order_id"))
      /\ IsAccount(a[5], "merchant_token_account", FALSE, AnyAddress)
      /\ IsAccount(a[6], "buyer", FALSE, AnyAddress)
      /\ IsAccount(a[7], "token_program", FALSE, ProgramAt("token"))
      /\ f[1] = <<"order_id", "u64">>
      /\ f[2] = <<"code", "string">>
  BY ConfirmPickupTable DEF a, f
<1>9. Fits(f, args)
  <2> DEFINE Good(k) == WellTyped(f[k][2], args[f[k][1]])
  <2>1. Good(1) /\ Good(2)
    BY <1>2, <1>5, <1>8
  <2> HIDE DEF Good
  <2>2. \A k \in 1..2 : Good(k)
    BY <2>1
  <2> QED
    BY <1>8, <2>2 DEF Fits, Good
<1>10. Names(f) = {"order_id", "code"}
  <2> DEFINE N(k) == f[k][1]
  <2>1. /\ N(1) = "order_id"
        /\ N(2) = "code"
    BY <1>8
  <2>2. Names(f) = {N(k) : k \in 1..2}
    BY <1>8 DEF Names, NameOf
  <2> HIDE DEF N
  <2> QED
    BY <2>1, <2>2
<1> DEFINE Fine(i) == Right("order_escrow", a[i], accounts, args, call.signer, {m})
<1>11. Fine(1)
  BY <1>4, <1>6, <1>8, RightAccounts
<1>12. Fine(2)
  <2>1. m \in {m}
    OBVIOUS
  <2> QED
    BY <1>3, <1>6, <1>8, <2>1, RightAccounts
<1>13. Fine(3)
  BY <1>3, <1>5, <1>6, <1>8, RightAccounts
<1>14. Fine(4)
  BY <1>3, <1>5, <1>6, <1>8, RightAccounts
<1>15. Fine(5)
  BY <1>6, <1>8, RightAccounts
<1>16. Fine(6)
  BY <1>6, <1>8, RightAccounts
<1>17. Fine(7)
  BY <1>8, RightPrograms
<1> HIDE DEF Fine
<1>18. \A i \in 1..7 : Fine(i)
  BY <1>11, <1>12, <1>13, <1>14, <1>15, <1>16, <1>17
<1>19. \A k \in DOMAIN meant : meant[k] = accounts[k] /\ \E i \in 1..7 : a[i].name = k /\ a[i].at.by # "fixed"
  <2>1. /\ a[3].name = "order" /\ a[3].at.by # "fixed"
        /\ a[4].name = "vault" /\ a[4].at.by # "fixed"
        /\ a[2].name = "merchant_wallet" /\ a[2].at.by # "fixed"
        /\ a[5].name = "merchant_token_account" /\ a[5].at.by # "fixed"
        /\ a[6].name = "buyer" /\ a[6].at.by # "fixed"
    BY <1>8, Seeds DEF IsAccount
  <2>2. 3 \in 1..7 /\ 4 \in 1..7 /\ 2 \in 1..7 /\ 5 \in 1..7 /\ 6 \in 1..7
    OBVIOUS
  <2> QED
    BY <1>6, <1>7, <2>1, <2>2
<1>20. IdlOf("order_escrow") = OrderEscrowIdl /\ Only(OrderEscrowIdl, ConfirmPickupIx) /\ ConfirmPickupIx.name = "confirm_pickup"
  BY EscrowOnly, EscrowNames DEF IdlOf
<1>21. Meant(call, ConfirmPickupIx, accounts, args, m)
  BY <1>1, <1>5, <1>8, <1>9, <1>10, <1>18, <1>19, <1>20 DEF Meant, Fine, a, f
<1> QED
  BY <1>21, MeantArrives DEF call

LEMMA CreateReceiptCallArrives ==
  ASSUME Relayer \in Nat, Mint \in Nat, Buyer \in Nat, NEW id \in Small, NEW m \in Small
  PROVE  Arrives(CreateReceiptCall, m)
<1> DEFINE call == CreateReceiptCall
           v1 == Wallet(Relayer)
           v2 == ReceiptConfigPda
           v3 == ReceiptPda(5)
           x1 == 5
           x2 == Code
           x3 == 6
           x4 == 70000
           x5 == 1
           x6 == 2
           x7 == Code
           x8 == Receipt.metadataHash
           accounts == [relayer |-> v1, receipt_config |-> v2, receipt |-> v3]
           args == [receipt_id |-> x1, task_ref |-> x2, total_research_micro_usdc |-> x3, total_main_micro_usdc |-> x4, completed_items |-> x5, total_items |-> x6, metadata_uri |-> x7, metadata_hash |-> x8]
           meant == [receipt |-> v3]
           a == CreateReceiptIx.accounts
           f == CreateReceiptIx.args
<1>1. /\ call.sent = BuildInstruction(OrderReceiptIdl, "order_receipt", "create_receipt", accounts, args)
      /\ call.program = "order_receipt" /\ call.name = "create_receipt" /\ call.signer = Wallet(Relayer)
      /\ call.args = args /\ call.accounts = meant
  BY CreateReceiptIsSent DEF CreateReceiptCall
<1>2. /\ WellTyped("u64", x1)
      /\ WellTyped("string", x2)
      /\ WellTyped("u64", x3)
      /\ WellTyped("u64", x4)
      /\ WellTyped("u64", x5)
      /\ WellTyped("u64", x6)
      /\ WellTyped("string", x7)
      /\ WellTyped("bytes32", x8)
  BY SomeTyped
<1>3. /\ v2 = Derived("order_receipt", "receipt_config", <<>>)
      /\ v3 = Derived("order_receipt", "receipt", LittleEndian(x1, 8))
  BY DEF ReceiptConfigPda, ReceiptPda
<1>4. call.signer = v1
  BY <1>1
<1> HIDE DEF call, v1, v2, v3, x1, x2, x3, x4, x5, x6, x7, x8
<1>5. /\ args.receipt_id = x1
      /\ args.task_ref = x2
      /\ args.total_research_micro_usdc = x3
      /\ args.total_main_micro_usdc = x4
      /\ args.completed_items = x5
      /\ args.total_items = x6
      /\ args.metadata_uri = x7
      /\ args.metadata_hash = x8
      /\ args = [x \in {"receipt_id", "task_ref", "total_research_micro_usdc", "total_main_micro_usdc", "completed_items", "total_items", "metadata_uri", "metadata_hash"} |-> args[x]]
  OBVIOUS
<1>6. /\ DOMAIN accounts = {"relayer", "receipt_config", "receipt"}
      /\ accounts["relayer"] = v1
      /\ accounts["receipt_config"] = v2
      /\ accounts["receipt"] = v3
  OBVIOUS
<1>7. /\ DOMAIN meant = {"receipt"}
      /\ meant["receipt"] = v3
  OBVIOUS
<1> HIDE DEF accounts, args, meant, a, f
<1>8. /\ WellFormed(CreateReceiptIx) /\ Len(a) = 4 /\ Len(f) = 8
      /\ IsAccount(a[1], "relayer", TRUE, AnyAddress)
      /\ IsAccount(a[2], "receipt_config", FALSE, Prefix("receipt_config"))
      /\ IsAccount(a[3], "receipt", FALSE, ByArg("receipt", "receipt_id"))
      /\ IsAccount(a[4], "system_program", FALSE, ProgramAt("system"))
      /\ f[1] = <<"receipt_id", "u64">>
      /\ f[2] = <<"task_ref", "string">>
      /\ f[3] = <<"total_research_micro_usdc", "u64">>
      /\ f[4] = <<"total_main_micro_usdc", "u64">>
      /\ f[5] = <<"completed_items", "u64">>
      /\ f[6] = <<"total_items", "u64">>
      /\ f[7] = <<"metadata_uri", "string">>
      /\ f[8] = <<"metadata_hash", "bytes32">>
  BY CreateReceiptTable DEF a, f
<1>9. Fits(f, args)
  <2> DEFINE Good(k) == WellTyped(f[k][2], args[f[k][1]])
  <2>1. Good(1) /\ Good(2) /\ Good(3) /\ Good(4) /\ Good(5) /\ Good(6) /\ Good(7) /\ Good(8)
    BY <1>2, <1>5, <1>8
  <2> HIDE DEF Good
  <2>2. \A k \in 1..8 : Good(k)
    BY <2>1
  <2> QED
    BY <1>8, <2>2 DEF Fits, Good
<1>10. Names(f) = {"receipt_id", "task_ref", "total_research_micro_usdc", "total_main_micro_usdc", "completed_items", "total_items", "metadata_uri", "metadata_hash"}
  <2> DEFINE N(k) == f[k][1]
  <2>1. /\ N(1) = "receipt_id"
        /\ N(2) = "task_ref"
        /\ N(3) = "total_research_micro_usdc"
        /\ N(4) = "total_main_micro_usdc"
        /\ N(5) = "completed_items"
        /\ N(6) = "total_items"
        /\ N(7) = "metadata_uri"
        /\ N(8) = "metadata_hash"
    BY <1>8
  <2>2. Names(f) = {N(k) : k \in 1..8}
    BY <1>8 DEF Names, NameOf
  <2> HIDE DEF N
  <2> QED
    BY <2>1, <2>2
<1> DEFINE Fine(i) == Right("order_receipt", a[i], accounts, args, call.signer, {m})
<1>11. Fine(1)
  BY <1>4, <1>6, <1>8, RightAccounts
<1>12. Fine(2)
  BY <1>3, <1>6, <1>8, RightAccounts
<1>13. Fine(3)
  BY <1>3, <1>5, <1>6, <1>8, RightAccounts
<1>14. Fine(4)
  BY <1>8, RightPrograms
<1> HIDE DEF Fine
<1>15. \A i \in 1..4 : Fine(i)
  BY <1>11, <1>12, <1>13, <1>14
<1>16. \A k \in DOMAIN meant : meant[k] = accounts[k] /\ \E i \in 1..4 : a[i].name = k /\ a[i].at.by # "fixed"
  <2>1. /\ a[3].name = "receipt" /\ a[3].at.by # "fixed"
    BY <1>8, Seeds DEF IsAccount
  <2>2. 3 \in 1..4
    OBVIOUS
  <2> QED
    BY <1>6, <1>7, <2>1, <2>2
<1>17. IdlOf("order_receipt") = OrderReceiptIdl /\ Only(OrderReceiptIdl, CreateReceiptIx) /\ CreateReceiptIx.name = "create_receipt"
  BY ReceiptInstructions DEF IdlOf
<1>18. Meant(call, CreateReceiptIx, accounts, args, m)
  BY <1>1, <1>5, <1>8, <1>9, <1>10, <1>15, <1>16, <1>17 DEF Meant, Fine, a, f
<1> QED
  BY <1>18, MeantArrives DEF call

\* Whatever the numbers of the order and the merchant, every call about an escrow arrives as it was meant
\* (chain.ts, chainClient.ts, FundingWizard.tsx, instructions.ts).
THEOREM EveryCallArrives ==
  ASSUME NEW id \in Small, NEW m \in Small, NEW n \in Nat, NEW call \in ClientCalls(id, m, Wallet(n))
  PROVE  Arrives(call, m)
<1> DEFINE shop == Wallet(n)
<1>1. shop = Wallet(n) /\ call \in ClientCalls(id, m, shop)
  OBVIOUS
<1> HIDE DEF shop
<1>2. call \in {FundCall(id, m), RefundCall(id, m), UserReleaseCall(id, m, shop), WebReleaseCall(id, m, shop),
                MarkPreparingCall(id, m, shop), MarkReadyCall(id, m, shop), ConfirmPickupCall(id, m, shop),
                CreateReceiptCall}
  BY <1>1, TheCalls
<1>3. Relayer \in Nat /\ Mint \in Nat /\ Buyer \in Nat
  BY DeskAssumption
<1>4. /\ Arrives(FundCall(id, m), m) /\ Arrives(RefundCall(id, m), m) /\ Arrives(CreateReceiptCall, m)
  BY <1>3, FundCallArrives, RefundCallArrives, CreateReceiptCallArrives
<1>5. /\ Arrives(UserReleaseCall(id, m, shop), m) /\ Arrives(WebReleaseCall(id, m, shop), m)
      /\ Arrives(MarkPreparingCall(id, m, shop), m) /\ Arrives(MarkReadyCall(id, m, shop), m)
      /\ Arrives(ConfirmPickupCall(id, m, shop), m)
  BY <1>1, <1>3, UserReleaseCallArrives, WebReleaseCallArrives, MarkPreparingCallArrives, MarkReadyCallArrives,
     ConfirmPickupCallArrives
<1> QED
  BY <1>2, <1>4, <1>5

\* CallsArrive, of every set of orders, organizations and wallets: every call a client makes about an escrow that
\* exists reaches the program as it was meant, and the bridge's receipt call is never sent (idlCodec.ts,
\* instructions.ts, pdas.ts, chain.ts, chainClient.ts, FundingWizard.tsx).
THEOREM AllCallsArrive == Spec => []CallsArrive
<1>1. DeskInv => CallsArrive
  <2> SUFFICES ASSUME DeskInv, NEW e \in DOMAIN escrows
               PROVE  /\ <<e, escrows[e].merchantId, wallets[escrows[e].merchantId]>> \in Served
                      /\ CreateReceipt(e, Receipt) = {}
    BY Zenon DEF CallsArrive
  <2> DEFINE m == escrows[e].merchantId
             key == wallets[m]
             numbers == Range(SeedWallet) \cup {Payout[o] : o \in Orgs}
  <2>1. e \in 1..MaxEscrows /\ m \in 1..MaxListings /\ key \in Keys
    <3>1. e \in 1..MaxEscrows /\ GoodEscrow(e)
      BY IdsSmall DEF DeskInv, Escrowed
    <3>2. \A k \in DOMAIN wallets : k \in 1..MaxListings /\ wallets[k] \in Keys
      BY IdsSmall DEF DeskInv, Typed
    <3> QED
      BY <3>1, <3>2 DEF GoodEscrow
  <2>2. e \in Small /\ m \in Small
    BY <2>1, Sizes
  <2>3. PICK n \in numbers : key = Wallet(n)
    BY <2>1 DEF Keys
  <2>4. n \in Nat
    <3>1. \A i \in DOMAIN SeedWallet : SeedWallet[i] \in Nat
      BY TheKeys
    <3>2. \A o \in Orgs : Payout[o] \in Nat
      BY TheKeys
    <3> QED
      BY <2>3, <3>1, <3>2 DEF Range
  <2>5. \A call \in ClientCalls(e, m, Wallet(n)) : Arrives(call, m)
    BY <2>2, <2>4, EveryCallArrives
  <2> HIDE DEF m, key, numbers
  <2> DEFINE Those(i, k, w) == IF \A call \in ClientCalls(i, k, Wallet(w)) : Arrives(call, k)
                               THEN {<<i, k, Wallet(w)>>} ELSE {}
  <2>6. Served = UNION {Those(i, k, w) : i \in 1..MaxEscrows, k \in 1..MaxListings, w \in numbers}
    BY DEF Served, numbers, EscrowIds
  <2>7. Those(e, m, n) = {<<e, m, key>>}
    BY <2>3, <2>5
  <2> HIDE DEF Those
  <2>8. <<e, m, key>> \in Served
    BY <2>1, <2>3, <2>6, <2>7
  <2> QED
    BY <2>8, NoReceiptSent DEF m, key
<1> QED
  BY <1>1, DeskKeepsItsBooks, PTL

=============================================================================
