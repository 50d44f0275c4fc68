------------------------ MODULE ResearchPayments_proofs ------------------------
(***************************************************************************)
(* Proofs about ResearchPayments, for any tasks, merchants, prices and     *)
(* limits, any number of runs at once and any number of failures.          *)
(***************************************************************************)
EXTENDS ResearchPayments, SequenceTheorems, SumTheorems

Stages == {"idle", "discover", "visit", "pay", "daily", "transfer", "confirm", "count",
           "send", "answer"}

\* The stages in which a run has a payment under way.
Paying == {"transfer", "confirm", "count", "send", "answer"}

\* What a run in a stage knows of its payment x, with provider v.
Holds(v, f, x) ==
    /\ x.task = f.task
    /\ x.price = Price[f.phase]
    /\ f.at \in {"transfer", "confirm", "count"} => x.row = "none"
    /\ f.at \in {"transfer", "confirm", "count", "send"} => ~x.taken /\ ~x.refund
    /\ f.at \in {"transfer", "confirm"} => x.event # "confirmed"
    /\ f.at \in {"send", "answer"} => x.row = "pending"
    /\ f.at \in {"confirm", "count"} => x.landed
    /\ f.at = "count" => x.event = "confirmed"
    /\ f.at \in {"send", "answer"} /\ v = "solana" => x.event = "confirmed"
    /\ f.at = "answer" => f.answer # "none"
    /\ f.at = "answer" /\ f.answer \in {"ok", "declined"} => x.taken /\ ~x.refund
    /\ f.at = "answer" /\ f.answer = "refund" => x.refund
    /\ f.at = "answer" /\ f.answer \in {"rejected", "refused"} => ~x.taken /\ ~x.refund

\* What is known of every payment, whoever it belongs to, with provider v.
Sound(v, x) ==
    /\ x.row = "settled" => ~x.refund
    /\ x.taken => x.row # "none"
    /\ v = "solana" /\ x.event = "confirmed" => x.landed
    /\ v = "solana" /\ x.taken => x.event = "confirmed"

\* A run has a payment exactly while it is paying, and knows where it stands.
FramesHold ==
    \A r \in Runs :
        /\ At(r, "idle") => calls[r].payment = 0
        /\ calls[r].at \notin Paying => calls[r].payment = 0
        /\ calls[r].at \in Paying =>
              /\ calls[r].payment \in 1 .. Len(payments)
              /\ Holds(provider, calls[r], payments[calls[r].payment])

\* No two runs pay with the same payment.
OwnPayments ==
    \A r, s \in Runs :
        r # s /\ calls[r].payment # 0 => calls[s].payment # calls[r].payment

\* The money of a payment is not where the books say, for want of what failed:
\* the bridge took back a fee that its merchant kept, or left the row pending, or
\* settled a fee that no merchant took, or a transfer landed without its event.
Lost(kind, v, x) ==
    \/ kind = "network" /\ x.taken /\ ~x.refund /\ x.row = "refunded"
    \/ kind = "body" /\ x.row = "pending"
    \/ kind = "refusal" /\ x.row = "settled" /\ ~x.taken
    \/ kind = "unconfirmed" /\ v = "solana" /\ x.landed /\ x.event # "confirmed"

\* A run that is about to settle a fee that its merchant refused.
Refusal(f) == f.at = "answer" /\ f.answer = "refused"

\* The lost payments that no run is at work on any more, and those about to be.
Astray(kind) ==
    {p \in 1 .. Len(payments) :
        \/ /\ Lost(kind, provider, payments[p])
           /\ \A r \in Runs : calls[r].payment # p
        \/ kind = "refusal" /\ \E r \in Runs : calls[r].payment = p /\ Refusal(calls[r])}

\* Every payment gone astray is explained by a failure of its own, of the kind
\* that leaves such a payment.
EachAstrayFailed == \A kind \in Kinds : Cardinality(Astray(kind)) <= Failures(kind)

\* The inductive invariant: what is in the books was put there by a run that
\* saw the transfer and the answer, and no run touches another's payment.
IInv ==
    /\ TypeOK
    /\ FramesHold
    /\ OwnPayments
    /\ EachAstrayFailed
    /\ \A p \in 1 .. Len(payments) : Sound(provider, payments[p])

-----------------------------------------------------------------------------
(* Types *)

\* What has to be shown of the variables other than calls and payments.
RestHold ==
    /\ provider' = provider
    /\ status' \in [Tasks -> Statuses]
    /\ refining' \in [Tasks -> Nat]
    /\ daily' \in Nat
    /\ refines' \in 0 .. MaxRefines
    /\ failures' \in [FailureKinds -> 0 .. MaxFailures]
    /\ \A kind \in FailureKinds : failures[kind] <= failures'[kind]

LEMMA Bounds ==
  /\ MaxRefines \in Nat /\ MaxFailures \in Nat
  /\ \A phase \in Phases : Price[phase] \in Nat /\ Requests[phase] \in Seq(Merchants)
BY PaymentAssumption

LEMMA Types ==
  ASSUME IInv
  PROVE  /\ provider \in Providers
         /\ status \in [Tasks -> Statuses]
         /\ refining \in [Tasks -> Nat]
         /\ payments \in Seq(Payments)
         /\ Len(payments) \in Nat /\ DOMAIN payments = 1 .. Len(payments)
         /\ \A p \in 1 .. Len(payments) : payments[p] \in Payments
         /\ daily \in Nat
         /\ calls \in [Runs -> Frames]
         /\ \A r \in Runs : calls[r].payment \in 0 .. Len(payments)
         /\ refines \in 0 .. MaxRefines
         /\ failures \in [FailureKinds -> 0 .. MaxFailures]
         /\ \A kind \in FailureKinds : failures[kind] \in Nat
<1>1. payments \in Seq(Payments)
  BY DEF IInv, TypeOK
<1>2. Len(payments) \in Nat /\ DOMAIN payments = 1 .. Len(payments)
  BY <1>1, LenProperties
<1>3. \A p \in 1 .. Len(payments) : payments[p] \in Payments
  BY <1>1, <1>2, ElementOfSeq
<1>4. failures \in [FailureKinds -> 0 .. MaxFailures]
      /\ \A kind \in FailureKinds : failures[kind] \in Nat
  BY Bounds DEF IInv, TypeOK
<1> QED
  BY <1>1, <1>2, <1>3, <1>4 DEF IInv, TypeOK

LEMMA FrameFacts ==
  ASSUME IInv, NEW r \in Runs
  PROVE  /\ calls[r] \in Frames
         /\ calls[r].at \in Stages /\ calls[r].task \in Tasks /\ calls[r].phase \in Phases
         /\ calls[r].left \in Seq(Merchants) /\ calls[r].got \in SUBSET Merchants
         /\ calls[r].merchant \in Merchants /\ calls[r].payment \in Nat
         /\ calls[r].base \in Nat /\ calls[r].answer \in Answers
BY DEF IInv, TypeOK, Frames, Stages

LEMMA IdleIsFrame == Idle \in Frames /\ Idle.at = "idle" /\ Idle.payment = 0
<1>1. (CHOOSE t \in Tasks : TRUE) \in Tasks /\ (CHOOSE m \in Merchants : TRUE) \in Merchants
  BY PaymentAssumption
<1>2. <<>> \in Seq(Merchants)
  BY EmptySeq
<1> QED
  BY <1>1, <1>2 DEF Idle, Frames, Phases, Answers

LEMMA FeeIsPrice == ASSUME IInv, NEW r \in Runs PROVE Fee(r) \in Nat
BY FrameFacts, Bounds DEF Fee

-----------------------------------------------------------------------------
(* Payments gone astray *)

LEMMA AstrayIsFinite ==
  ASSUME IInv, NEW kind \in Kinds
  PROVE  /\ IsFiniteSet(Astray(kind)) /\ Cardinality(Astray(kind)) \in Nat
         /\ Cardinality(Astray(kind)) <= Failures(kind)
<1>1. IsFiniteSet(1 .. Len(payments)) /\ Astray(kind) \subseteq 1 .. Len(payments)
  BY Types, FS_Interval DEF Astray
<1>2. Cardinality(Astray(kind)) <= Failures(kind)
  BY DEF IInv, EachAstrayFailed
<1> QED
  BY <1>1, <1>2, FS_Subset, FS_CardinalityType

LEMMA FailuresGrow ==
  ASSUME IInv, RestHold, NEW kind \in Kinds
  PROVE  /\ Failures(kind) \in Nat /\ Failures(kind)' \in Nat
         /\ Failures(kind) <= Failures(kind)'
<1>1. CASE kind \in FailureKinds
  <2>1. failures'[kind] \in Nat /\ failures[kind] \in Nat /\ failures[kind] <= failures'[kind]
    BY <1>1, Types, Bounds DEF RestHold
  <2>2. Failures(kind) = failures[kind] /\ Failures(kind)' = failures'[kind]
    BY <1>1 DEF Failures
  <2> QED
    BY <2>1, <2>2
<1>2. CASE kind \notin FailureKinds
  <2>1. Failures(kind) = 0 /\ Failures(kind)' = 0
    BY <1>2 DEF Failures
  <2> QED
    BY <2>1
<1> QED
  BY <1>1, <1>2

\* No payment goes astray in a step, for want of that kind.
LEMMA NoneStrays ==
  ASSUME IInv, RestHold, NEW kind \in Kinds, Astray(kind)' \subseteq Astray(kind)
  PROVE  Cardinality(Astray(kind)') <= Failures(kind)'
<1>1. Cardinality(Astray(kind)') <= Cardinality(Astray(kind)) /\ Cardinality(Astray(kind)') \in Nat
  BY AstrayIsFinite, FS_Subset, FS_CardinalityType
<1> QED
  BY <1>1, AstrayIsFinite, FailuresGrow

\* A failure leaves one payment astray.
LEMMA OneStrays ==
  ASSUME IInv, RestHold, NEW kind \in Kinds, Failures(kind)' = Failures(kind) + 1,
         NEW i, Astray(kind)' \subseteq Astray(kind) \cup {i}
  PROVE  Cardinality(Astray(kind)') <= Failures(kind)'
<1>1. /\ IsFiniteSet(Astray(kind) \cup {i})
      /\ Cardinality(Astray(kind) \cup {i})
            = IF i \in Astray(kind) THEN Cardinality(Astray(kind))
                                   ELSE Cardinality(Astray(kind)) + 1
  BY AstrayIsFinite, FS_AddElement
<1>2. /\ Cardinality(Astray(kind)') <= Cardinality(Astray(kind) \cup {i})
      /\ Cardinality(Astray(kind)') \in Nat
  BY <1>1, FS_Subset, FS_CardinalityType
<1> QED
  BY <1>1, <1>2, AstrayIsFinite, FailuresGrow

-----------------------------------------------------------------------------
(* Payments *)

\* A run that has no payment goes on without one.
LEMMA Wanders ==
  ASSUME IInv, NEW r \in Runs, NEW f \in Frames,
         calls[r].at \notin Paying, f.at \notin Paying, f.payment = 0,
         Become(r, f), RestHold, UNCHANGED payments
  PROVE  IInv'
<1>1. \A s \in Runs : calls'[s] = IF s = r THEN f ELSE calls[s]
  BY Types DEF Become
<1>2. calls[r].payment = 0
  BY DEF IInv, FramesHold
<1>3. TypeOK'
  <2>1. calls' \in [Runs -> Frames]
    BY Types DEF Become
  <2>2. \A s \in Runs : calls'[s].payment \in 0 .. Len(payments)
    BY <1>1, <1>2, Types
  <2> QED
    BY <2>1, <2>2, Types DEF RestHold, TypeOK
<1>4. FramesHold'
  BY <1>1 DEF IInv, FramesHold, Holds, RestHold, At
<1>5. OwnPayments'
  BY <1>1 DEF IInv, OwnPayments
<1>6. \A p \in 1 .. Len(payments') : Sound(provider', payments'[p])
  BY DEF IInv, Sound, RestHold
<1>7. EachAstrayFailed'
  <2> SUFFICES ASSUME NEW kind \in Kinds
               PROVE  Cardinality(Astray(kind)') <= Failures(kind)'
    BY DEF EachAstrayFailed
  <2>1. ASSUME NEW p \in 1 .. Len(payments), \A s \in Runs : calls'[s].payment # p
        PROVE  \A s \in Runs : calls[s].payment # p
    BY <2>1, <1>1, <1>2, Types
  <2>2. ASSUME NEW s \in Runs, Refusal(calls'[s]) PROVE calls'[s] = calls[s]
    BY <2>2, <1>1 DEF Refusal, Paying
  <2>3. Astray(kind)' \subseteq Astray(kind)
    BY <2>1, <2>2 DEF Astray, RestHold
  <2> QED
    BY <2>3, NoneStrays
<1> QED
  BY <1>3, <1>4, <1>5, <1>6, <1>7 DEF IInv

\* A run that pays changes nothing but its own payment, and closes it or goes on.
LEMMA Books ==
  ASSUME IInv, NEW r \in Runs, NEW f \in Frames, NEW x \in Payments,
         calls[r].at \in Paying, Become(r, f), RestHold, Sound(provider, x),
         payments' = [payments EXCEPT ![calls[r].payment] = x],
         \/ /\ f.at \notin Paying /\ f.payment = 0
            /\ \A kind \in Kinds : Lost(kind, provider, x) =>
                  \/ Failures(kind)' = Failures(kind) + 1
                  \/ kind = "refusal" /\ Refusal(calls[r])
         \/ /\ f.at \in Paying /\ f.payment = calls[r].payment /\ Holds(provider, f, x)
            /\ Refusal(f) => Failures("refusal")' = Failures("refusal") + 1
  PROVE  IInv'
<1> DEFINE i == calls[r].payment
<1>1. \A s \in Runs : calls'[s] = IF s = r THEN f ELSE calls[s]
  BY Types DEF Become
<1>2. i \in 1 .. Len(payments) /\ i # 0
  BY Types DEF IInv, FramesHold
<1>3. /\ payments' \in Seq(Payments) /\ Len(payments') = Len(payments)
      /\ \A p \in 1 .. Len(payments) : payments'[p] = IF p = i THEN x ELSE payments[p]
  BY <1>2, Types, ExceptSeq
<1>4. TypeOK'
  <2>1. calls' \in [Runs -> Frames]
    BY Types DEF Become
  <2>2. \A s \in Runs : calls'[s].payment \in 0 .. Len(payments)
    BY <1>1, <1>2, Types
  <2> QED
    BY <2>1, <2>2, <1>3, Types DEF RestHold, TypeOK
<1>5. \A s \in Runs : s # r => calls[s].payment # i
  BY <1>2 DEF IInv, OwnPayments
<1>6. FramesHold'
  <2> SUFFICES ASSUME NEW s \in Runs
               PROVE  /\ calls'[s].at = "idle" => calls'[s].payment = 0
                      /\ calls'[s].at \notin Paying => calls'[s].payment = 0
                      /\ calls'[s].at \in Paying =>
                            /\ calls'[s].payment \in 1 .. Len(payments)
                            /\ Holds(provider, calls'[s], payments'[calls'[s].payment])
    BY <1>3 DEF FramesHold, At, RestHold
  <2>1. CASE s = r
    <3>1. calls'[s] = f
      BY <2>1, <1>1
    <3>2. f.payment = i => payments'[f.payment] = x
      BY <1>2, <1>3
    <3> QED
      BY <3>1, <3>2, <1>2 DEF Holds, RestHold, Paying
  <2>2. CASE s # r
    <3>1. calls'[s] = calls[s]
      BY <2>2, <1>1
    <3>2. calls[s].at \in Paying => payments'[calls[s].payment] = payments[calls[s].payment]
      BY <2>2, <1>3, <1>5 DEF IInv, FramesHold
    <3> QED
      BY <3>1, <3>2 DEF IInv, FramesHold, Holds, RestHold, At
  <2> QED
    BY <2>1, <2>2
<1>7. OwnPayments'
  BY <1>1, <1>2, <1>5 DEF IInv, OwnPayments
<1>8. \A p \in 1 .. Len(payments') : Sound(provider', payments'[p])
  BY <1>3 DEF IInv, Sound, RestHold
<1>9. EachAstrayFailed'
  <2> SUFFICES ASSUME NEW kind \in Kinds
               PROVE  Cardinality(Astray(kind)') <= Failures(kind)'
    BY DEF EachAstrayFailed
  <2>1. Astray(kind)' \subseteq Astray(kind) \cup {i}
    <3> SUFFICES ASSUME NEW p \in 1 .. Len(payments), p \in Astray(kind)', p # i
                 PROVE  p \in Astray(kind)
      BY <1>3 DEF Astray
    <3>1. payments'[p] = payments[p]
      BY <1>3
    <3>2. \A s \in Runs : calls'[s].payment = p => s # r /\ calls[s] = calls'[s]
      BY <1>1, <1>2
    <3>3. (\A s \in Runs : calls'[s].payment # p) => \A s \in Runs : calls[s].payment # p
      BY <1>1
    <3> QED
      BY <3>1, <3>2, <3>3 DEF Astray, RestHold
  <2>2. CASE Failures(kind)' = Failures(kind) + 1
    BY <2>1, <2>2, OneStrays
  <2>3. CASE ~(Failures(kind)' = Failures(kind) + 1)
    <3>1. i \in Astray(kind)' => i \in Astray(kind)
      <4> SUFFICES ASSUME i \in Astray(kind)' PROVE i \in Astray(kind)
        OBVIOUS
      <4>1. CASE f.payment = 0 /\ f.at \notin Paying
        <5>1. Lost(kind, provider, x)
          <6>1. \A s \in Runs : calls'[s].payment # i
            BY <4>1, <1>1, <1>2, <1>5
          <6>2. Lost(kind, provider', payments'[i])
            BY <6>1 DEF Astray
          <6> QED
            BY <6>2, <1>2, <1>3 DEF RestHold
        <5>2. kind = "refusal" /\ Refusal(calls[r])
          BY <4>1, <5>1, <2>3
        <5> QED
          BY <5>2, <1>2 DEF Astray
      <4>2. CASE f.payment = i
        <5>1. ~Refusal(f) \/ kind # "refusal"
          BY <4>2, <1>2, <2>3
        <5> QED
          BY <4>2, <5>1, <1>1, <1>2, <1>3, <1>5 DEF Astray, RestHold
      <4> QED
        BY <4>1, <4>2
    <3>2. Astray(kind)' \subseteq Astray(kind)
      BY <2>1, <3>1
    <3> QED
      BY <3>2, NoneStrays
  <2> QED
    BY <2>2, <2>3
<1> QED
  BY <1>4, <1>6, <1>7, <1>8, <1>9 DEF IInv

\* A run issues a new payment and holds it from then on.
LEMMA Issues ==
  ASSUME IInv, NEW r \in Runs, RestHold, calls[r].at \notin Paying,
         NEW row \in {"none", "pending"}, NEW event \in {"none", "pending"},
         NEW stage \in {"transfer", "send"},
         stage = "transfer" => row = "none",
         stage = "send" => row = "pending" /\ provider # "solana",
         Issue(r, row, event, stage)
  PROVE  IInv'
<1> DEFINE n == Len(payments) + 1
           x == [task |-> calls[r].task, merchant |-> calls[r].merchant,
                 price |-> Fee(r), row |-> row, event |-> event,
                 landed |-> FALSE, taken |-> FALSE, refund |-> FALSE]
           f == [calls[r] EXCEPT !.at = stage, !.payment = n]
<1>1. x \in Payments
  BY FrameFacts, FeeIsPrice DEF Payments
<1>2. f \in Frames /\ f.at = stage /\ f.payment = n /\ f.phase = calls[r].phase
      /\ f.answer = calls[r].answer
  <2>1. calls[r] \in Frames /\ n \in Nat
    BY Types
  <2> HIDE DEF n
  <2> QED
    BY <2>1 DEF Frames
<1>3. Sound(provider, x) /\ Holds(provider, f, x)
  BY <1>2 DEF Sound, Holds, Fee
<1>4. payments' = Append(payments, x) /\ calls' = [calls EXCEPT ![r] = f]
  BY DEF Issue, Become
<1>5. x.row = row
  OBVIOUS
<1> HIDE DEF x, f
<1>6. \A s \in Runs : calls'[s] = IF s = r THEN f ELSE calls[s]
  BY <1>4, Types
<1>7. /\ payments' \in Seq(Payments) /\ Len(payments') = n
      /\ \A p \in 1 .. Len(payments) : payments'[p] = payments[p]
      /\ payments'[n] = x
  BY <1>1, <1>4, Types, AppendProperties
<1>8. calls[r].payment = 0 /\ \A s \in Runs : calls[s].payment \in 0 .. Len(payments)
  BY DEF IInv, FramesHold, TypeOK
<1>9. TypeOK'
  <2>1. calls' \in [Runs -> Frames]
    BY <1>2, <1>4, Types
  <2>2. \A s \in Runs : calls'[s].payment \in 0 .. n
    BY <1>2, <1>6, <1>8, Types
  <2> QED
    BY <2>1, <2>2, <1>7, Types DEF RestHold, TypeOK
<1>10. FramesHold'
  <2> SUFFICES ASSUME NEW s \in Runs
               PROVE  /\ calls'[s].at = "idle" => calls'[s].payment = 0
                      /\ calls'[s].at \notin Paying => calls'[s].payment = 0
                      /\ calls'[s].at \in Paying =>
                            /\ calls'[s].payment \in 1 .. n
                            /\ Holds(provider, calls'[s], payments'[calls'[s].payment])
    BY <1>7 DEF FramesHold, At, RestHold
  <2>1. CASE s = r
    BY <2>1, <1>2, <1>3, <1>6, <1>7, Types DEF Holds, RestHold, Paying
  <2>2. CASE s # r
    <3>1. calls'[s] = calls[s]
      BY <2>2, <1>6
    <3> QED
      BY <3>1, <1>7, Types DEF IInv, FramesHold, Holds, RestHold, At
  <2> QED
    BY <2>1, <2>2
<1>11. OwnPayments'
  BY <1>2, <1>6, <1>8, Types DEF IInv, OwnPayments
<1>12. \A p \in 1 .. Len(payments') : Sound(provider', payments'[p])
  <2> SUFFICES ASSUME NEW p \in 1 .. n PROVE Sound(provider, payments'[p])
    BY <1>7 DEF RestHold
  <2>1. p = n \/ p \in 1 .. Len(payments)
    BY Types
  <2> QED
    BY <2>1, <1>3, <1>7 DEF IInv
<1>13. EachAstrayFailed'
  <2> SUFFICES ASSUME NEW kind \in Kinds
               PROVE  Cardinality(Astray(kind)') <= Failures(kind)'
    BY DEF EachAstrayFailed
  <2>1. Astray(kind)' \subseteq Astray(kind)
    <3> SUFFICES ASSUME NEW p \in 1 .. n, p \in Astray(kind)'
                 PROVE  p \in Astray(kind)
      BY <1>7 DEF Astray
    <3>1. \A s \in Runs : Refusal(calls'[s]) => s # r /\ calls'[s] = calls[s]
      BY <1>2, <1>6 DEF Refusal
    <3>2. p # n
      BY <3>1, <1>2, <1>6, <1>8, Types DEF Astray
    <3>3. p \in 1 .. Len(payments) /\ p # 0
      BY <3>2, Types
    <3>4. payments'[p] = payments[p]
      BY <3>3, <1>7
    <3>5. (\A s \in Runs : calls'[s].payment # p) => \A s \in Runs : calls[s].payment # p
      BY <3>3, <1>6, <1>8
    <3> QED
      BY <3>1, <3>3, <3>4, <3>5 DEF Astray, RestHold
  <2> QED
    BY <2>1, NoneStrays
<1> QED
  BY <1>9, <1>10, <1>11, <1>12, <1>13 DEF IInv

LEMMA Stands ==
  ASSUME IInv, RestHold, UNCHANGED <<calls, payments>>
  PROVE  IInv'
<1>1. TypeOK'
  BY Types DEF RestHold, TypeOK
<1>2. FramesHold' /\ OwnPayments'
  BY DEF IInv, FramesHold, OwnPayments, Holds, RestHold, At
<1>3. \A p \in 1 .. Len(payments') : Sound(provider', payments'[p])
  BY DEF IInv, RestHold
<1>4. EachAstrayFailed'
  <2> SUFFICES ASSUME NEW kind \in Kinds
               PROVE  Cardinality(Astray(kind)') <= Failures(kind)'
    BY DEF EachAstrayFailed
  <2>1. Astray(kind)' \subseteq Astray(kind)
    BY DEF Astray, RestHold
  <2> QED
    BY <2>1, NoneStrays
<1> QED
  BY <1>1, <1>2, <1>3, <1>4 DEF IInv

-----------------------------------------------------------------------------
(* What the actions do to the rest *)

LEMMA StatusSet ==
  ASSUME IInv, NEW t \in Tasks, NEW s \in Statuses, SetStatus(t, s)
  PROVE  status' \in [Tasks -> Statuses]
BY Types DEF SetStatus

LEMMA Failed ==
  ASSUME IInv, NEW kind, Fail(kind)
  PROVE  /\ failures' \in [FailureKinds -> 0 .. MaxFailures]
         /\ \A k \in FailureKinds : failures[k] <= failures'[k]
         /\ Failures(kind)' = Failures(kind) + 1
<1>1. /\ kind \in FailureKinds /\ failures[kind] < MaxFailures
      /\ failures' = [failures EXCEPT ![kind] = failures[kind] + 1]
  BY DEF Fail
<1>2. failures[kind] + 1 \in 0 .. MaxFailures
  BY <1>1, Types, Bounds
<1>3. \A k \in FailureKinds :
         failures'[k] = IF k = kind THEN failures[kind] + 1 ELSE failures[k]
  BY <1>1, Types
<1> QED
  BY <1>1, <1>2, <1>3, Types DEF Failures

LEMMA NoFailure ==
  ASSUME IInv, UNCHANGED failures
  PROVE  /\ failures' \in [FailureKinds -> 0 .. MaxFailures]
         /\ \A k \in FailureKinds : failures[k] <= failures'[k]
BY Types

\* A run gives up.
LEMMA Throws ==
  ASSUME IInv, NEW r \in Runs, Throw(r)
  PROVE  status' \in [Tasks -> Statuses] /\ Become(r, Idle)
BY FrameFacts, StatusSet DEF Throw, Statuses

\* A run takes the next step of its own.
LEMMA GoesTo ==
  ASSUME IInv, NEW r \in Runs, NEW stage \in Stages, GoTo(r, stage)
  PROVE  \E f \in Frames :
            /\ f.at = stage /\ f.payment = calls[r].payment /\ f.task = calls[r].task
            /\ f.phase = calls[r].phase /\ f.answer = calls[r].answer
            /\ Become(r, f)
<1> DEFINE f == [calls[r] EXCEPT !.at = stage]
<1>1. calls[r] \in Frames
  BY Types
<1>2. f \in Frames /\ f.at = stage /\ f.payment = calls[r].payment /\ f.task = calls[r].task
      /\ f.phase = calls[r].phase /\ f.answer = calls[r].answer
  BY <1>1 DEF Frames, Stages
<1> QED
  BY <1>2 DEF GoTo

\* What is known of the payment a run is paying with.
LEMMA MineFacts ==
  ASSUME IInv, NEW r \in Runs, calls[r].at \in Paying
  PROVE  /\ calls[r].payment \in 1 .. Len(payments)
         /\ Mine(r) = payments[calls[r].payment]
         /\ Mine(r) \in Payments
         /\ Sound(provider, Mine(r)) /\ Holds(provider, calls[r], Mine(r))
BY Types DEF IInv, FramesHold, Mine

-----------------------------------------------------------------------------
(* The plan and the research *)

LEMMA InitHolds == Init => IInv
<1> SUFFICES ASSUME Init PROVE IInv
  OBVIOUS
<1>1. payments \in Seq(Payments) /\ Len(payments) = 0
  BY EmptySeq DEF Init
<1>2. TypeOK
  BY <1>1, IdleIsFrame, Bounds DEF Init, TypeOK, Statuses
<1>3. ASSUME NEW kind \in Kinds PROVE Cardinality(Astray(kind)) <= Failures(kind)
  <2>1. Astray(kind) = {} /\ Cardinality(Astray(kind)) = 0
    BY <1>1, FS_EmptySet DEF Astray
  <2>2. Failures(kind) = 0
    BY DEF Init, Failures
  <2> QED
    BY <2>1, <2>2
<1> QED
  BY <1>1, <1>2, <1>3, IdleIsFrame
     DEF Init, EachAstrayFailed, IInv, FramesHold, OwnPayments, At, Paying

LEMMA PlanSteps ==
  ASSUME IInv, NEW t \in Tasks, RefinePlan(t) \/ PlanReady(t) \/ RefineFails(t)
  PROVE  IInv'
<1>1. CASE RefinePlan(t)
  <2>1. RestHold
    BY <1>1, Types, Bounds DEF RefinePlan, RestHold, books
  <2> QED
    BY <1>1, <2>1, Stands DEF RefinePlan, books
<1>2. CASE PlanReady(t)
  <2>1. RestHold
    BY <1>2, Types, StatusSet DEF PlanReady, RestHold, books, Statuses
  <2> QED
    BY <1>2, <2>1, Stands DEF PlanReady, books
<1>3. CASE RefineFails(t)
  <2>1. RestHold
    BY <1>3, Types, StatusSet, Failed DEF RefineFails, RestHold, books, Statuses
  <2> QED
    BY <1>3, <2>1, Stands DEF RefineFails, books
<1> QED
  BY <1>1, <1>2, <1>3

LEMMA ApproveStep ==
  ASSUME IInv, NEW r \in Runs, NEW t \in Tasks, ApprovePlan(r, t)
  PROVE  IInv'
<1> DEFINE f == [Idle EXCEPT !.at = "discover", !.task = t]
<1>1. f \in Frames /\ f.at = "discover" /\ f.payment = 0
  BY IdleIsFrame DEF Frames
<1>2. RestHold
  BY Types, StatusSet DEF ApprovePlan, RestHold, plan, books, Statuses
<1>3. Become(r, f) /\ UNCHANGED payments /\ calls[r].at \notin Paying
  BY DEF ApprovePlan, At, books, Paying
<1> HIDE DEF f
<1> QED
  BY <1>1, <1>2, <1>3, Wanders DEF Paying

\* The steps of a run that has no payment under way.
LEMMA ResearchSteps ==
  ASSUME IInv, NEW r \in Runs,
         \/ Discover(r) \/ Skip(r) \/ Ask(r)
         \/ EndQuoting(r) \/ EndReserving(r) \/ EndNegotiating(r) \/ NetworkFails(r)
  PROVE  IInv'
<1>1. calls[r] \in Frames /\ calls[r].task \in Tasks /\ calls[r].left \in Seq(Merchants)
  BY FrameFacts
<1>2. calls[r].at \in {"discover", "visit"}
  BY DEF Discover, Skip, Ask, EndQuoting, EndReserving, EndNegotiating, NetworkFails,
         Visits, Done, At
<1>3. calls[r].payment = 0
  BY <1>2 DEF IInv, FramesHold, Paying
<1>4. UNCHANGED <<payments, daily, provider, refining, refines>>
  BY DEF Discover, Skip, Ask, EndQuoting, EndReserving, EndNegotiating, NetworkFails,
         Done, plan, books
<1>5. RestHold
  <2>1. status' \in [Tasks -> Statuses]
    BY <1>1, Types, StatusSet, Throws
       DEF Discover, Skip, Ask, EndQuoting, EndReserving, EndNegotiating, NetworkFails,
           Statuses
  <2>2. /\ failures' \in [FailureKinds -> 0 .. MaxFailures]
        /\ \A kind \in FailureKinds : failures[kind] <= failures'[kind]
    BY NoFailure, Failed
       DEF Discover, Skip, Ask, EndQuoting, EndReserving, EndNegotiating, NetworkFails, Done
  <2> QED
    BY <2>1, <2>2, <1>4, Types DEF RestHold
<1>6. \E f \in Frames : f.at \notin Paying /\ f.payment = 0 /\ Become(r, f)
  <2>1. CASE Discover(r)
    <3> DEFINE f == [calls[r] EXCEPT !.at = "visit", !.left = Requests["quoting"]]
    <3>1. Requests["quoting"] \in Seq(Merchants)
      BY Bounds DEF Phases
    <3>2. f \in Frames /\ f.at = "visit" /\ f.payment = 0
      BY <1>1, <1>3, <3>1 DEF Frames
    <3> QED
      BY <2>1, <3>2 DEF Discover, Paying
  <2>2. CASE Skip(r)
    <3> DEFINE f == [calls[r] EXCEPT !.left = Rest(r)]
    <3>1. Rest(r) \in Seq(Merchants)
      BY <1>1, <2>2, HeadTailProperties DEF Skip, Visits, Rest
    <3>2. f \in Frames /\ f.at = calls[r].at /\ f.payment = 0
      BY <1>1, <1>3, <3>1 DEF Frames
    <3> QED
      BY <2>2, <3>2, <1>2 DEF Skip, Paying
  <2>3. CASE Ask(r)
    <3> DEFINE f == [calls[r] EXCEPT !.at = "pay", !.merchant = Head(calls[r].left),
                                      !.left = Rest(r)]
    <3>1. Rest(r) \in Seq(Merchants) /\ Head(calls[r].left) \in Merchants
      BY <1>1, <2>3, HeadTailProperties DEF Ask, Visits, Rest
    <3>2. f \in Frames /\ f.at = "pay" /\ f.payment = 0
      BY <1>1, <1>3, <3>1 DEF Frames
    <3> QED
      BY <2>3, <3>2 DEF Ask, Paying
  <2>4. ASSUME NEW phase \in Phases, Begin(r, phase)
        PROVE  \E f \in Frames : f.at \notin Paying /\ f.payment = 0 /\ Become(r, f)
    <3> DEFINE f == [calls[r] EXCEPT !.phase = phase, !.left = Requests[phase]]
    <3>1. Requests[phase] \in Seq(Merchants)
      BY Bounds
    <3>2. f \in Frames /\ f.at = calls[r].at /\ f.payment = 0
      BY <1>1, <1>3, <3>1 DEF Frames
    <3> QED
      BY <2>4, <3>2, <1>2 DEF Begin, Paying
  <2>5. Become(r, Idle) =>
          \E f \in Frames : f.at \notin Paying /\ f.payment = 0 /\ Become(r, f)
    BY IdleIsFrame DEF Paying
  <2>6. CASE EndQuoting(r)
    BY <2>6, <2>4, <2>5, Throws DEF EndQuoting, Phases
  <2>7. CASE EndReserving(r)
    BY <2>7, <2>4 DEF EndReserving, Phases
  <2>8. CASE EndNegotiating(r)
    BY <2>8, <2>5 DEF EndNegotiating
  <2>9. CASE NetworkFails(r)
    BY <2>9, <2>5, Throws DEF NetworkFails
  <2> QED
    BY <2>1, <2>2, <2>3, <2>6, <2>7, <2>8, <2>9
<1> QED
  BY <1>2, <1>4, <1>5, <1>6, Wanders DEF Paying

-----------------------------------------------------------------------------
(* Payments: checks, transfer, proof and answer *)

\* A request the budget blocks leaves the run where it was, without a payment.
LEMMA Blocks ==
  ASSUME IInv, NEW r \in Runs, calls[r].at \notin Paying, RestHold, Blocked(r)
  PROVE  IInv'
<1>1. calls[r].payment = 0
  BY DEF IInv, FramesHold
<1>2. PICK f \in Frames : f.at = "visit" /\ f.payment = 0 /\ Become(r, f)
  BY <1>1, GoesTo DEF Blocked, Stages
<1> QED
  BY <1>2, Wanders DEF Blocked, books, Paying

LEMMA CheckSteps ==
  ASSUME IInv, NEW r \in Runs, PayMock(r) \/ PayOnChain(r) \/ CheckDaily(r)
  PROVE  IInv'
<1>1. calls[r].at \notin Paying /\ calls[r].payment = 0
  BY DEF PayMock, PayOnChain, CheckDaily, At, Paying, IInv, FramesHold
<1>2. RestHold
  BY Types DEF PayMock, PayOnChain, CheckDaily, RestHold, plan, Blocked, Issue, books
<1>3. CASE Blocked(r)
  BY <1>1, <1>2, <1>3, Blocks
<1>4. CASE PayMock(r) /\ ~Blocked(r)
  BY <1>1, <1>2, <1>4, Issues DEF PayMock
<1>5. CASE PayOnChain(r) /\ ~Blocked(r)
  <2>1. GoTo(r, "daily") /\ UNCHANGED payments
    BY <1>5 DEF PayOnChain, books
  <2>2. PICK f \in Frames : f.at = "daily" /\ f.payment = 0 /\ Become(r, f)
    BY <1>1, <2>1, GoesTo DEF Stages
  <2> QED
    BY <1>1, <1>2, <2>1, <2>2, Wanders DEF Paying
<1>6. CASE CheckDaily(r) /\ ~Blocked(r)
  BY <1>1, <1>2, <1>6, Issues DEF CheckDaily
<1> QED
  BY <1>3, <1>4, <1>5, <1>6

LEMMA TransferSteps ==
  ASSUME IInv, NEW r \in Runs, Transfer(r) \/ TransferUnconfirmed(r)
  PROVE  IInv'
<1>1. calls[r].at = "transfer" /\ calls[r].at \in Paying
  BY DEF Transfer, TransferUnconfirmed, At, Paying
<1>2. RestHold
  <2>1. Transfer(r) => RestHold
    BY Types DEF Transfer, RestHold, plan
  <2>2. TransferUnconfirmed(r) => RestHold
    BY Types, Throws, Failed DEF TransferUnconfirmed, RestHold, plan
  <2> QED
    BY <2>1, <2>2
<1>3. CASE Transfer(r)
  <2> DEFINE x == [Mine(r) EXCEPT !.landed = TRUE]
  <2>1. PICK f \in Frames : /\ f.at = "confirm" /\ f.payment = calls[r].payment
                            /\ f.task = calls[r].task /\ f.phase = calls[r].phase
                            /\ Become(r, f)
    BY <1>3, GoesTo DEF Transfer, Stages
  <2>2. x \in Payments /\ Sound(provider, x) /\ Holds(provider, f, x)
    BY <1>1, <2>1, MineFacts DEF Payments, Sound, Holds
  <2>3. payments' = [payments EXCEPT ![calls[r].payment] = x]
    BY <1>3 DEF Transfer, Book
  <2> QED
    BY <1>1, <1>2, <2>1, <2>2, <2>3, Books DEF Paying, Refusal
<1>4. CASE TransferUnconfirmed(r)
  <2>1. PICK landed \in BOOLEAN :
          Book(r, [Mine(r) EXCEPT !.event = "failed", !.landed = landed])
    BY <1>4 DEF TransferUnconfirmed
  <2> DEFINE x == [Mine(r) EXCEPT !.event = "failed", !.landed = landed]
  <2>2. x \in Payments /\ Sound(provider, x) /\ x.row = "none" /\ ~x.taken
    BY <1>1, MineFacts DEF Payments, Sound, Holds
  <2>3. payments' = [payments EXCEPT ![calls[r].payment] = x]
    BY <2>1 DEF Book
  <2>4. Become(r, Idle) /\ Failures("unconfirmed")' = Failures("unconfirmed") + 1
    BY <1>4, Throws, Failed DEF TransferUnconfirmed
  <2> HIDE DEF x
  <2>5. \A kind \in Kinds : Lost(kind, provider, x) => kind = "unconfirmed"
    BY <2>2 DEF Lost
  <2> QED
    BY <1>1, <1>2, <2>2, <2>3, <2>4, <2>5, IdleIsFrame, Books DEF Paying
<1> QED
  BY <1>3, <1>4

LEMMA BookingSteps ==
  ASSUME IInv, NEW r \in Runs, ConfirmEvent(r) \/ CountSpend(r)
  PROVE  IInv'
<1>1. calls[r].at \in {"confirm", "count"} /\ calls[r].at \in Paying
  BY DEF ConfirmEvent, CountSpend, At, Paying
<1>2. CASE ConfirmEvent(r)
  <2> DEFINE x == [Mine(r) EXCEPT !.event = "confirmed"]
             f == [calls[r] EXCEPT !.at = "count", !.base = daily]
  <2>1. f \in Frames /\ f.at = "count" /\ f.payment = calls[r].payment
        /\ f.task = calls[r].task /\ f.phase = calls[r].phase
    <3>1. calls[r] \in Frames /\ daily \in Nat
      BY Types
    <3> QED
      BY <3>1 DEF Frames
  <2>2. x \in Payments /\ Sound(provider, x) /\ Holds(provider, f, x)
    BY <1>2, <2>1, MineFacts DEF ConfirmEvent, At, Paying, Payments, Sound, Holds
  <2>3. /\ payments' = [payments EXCEPT ![calls[r].payment] = x]
        /\ Become(r, f)
    BY <1>2 DEF ConfirmEvent, Book
  <2>4. RestHold
    BY <1>2, Types DEF ConfirmEvent, RestHold, plan
  <2> HIDE DEF x, f
  <2> QED
    BY <1>1, <2>1, <2>2, <2>3, <2>4, Books DEF Paying, Refusal
<1>3. CASE CountSpend(r)
  <2> DEFINE x == [Mine(r) EXCEPT !.row = "pending"]
             f == [calls[r] EXCEPT !.at = "send", !.base = 0]
  <2>1. f \in Frames /\ f.at = "send" /\ f.payment = calls[r].payment
        /\ f.task = calls[r].task /\ f.phase = calls[r].phase
    <3>1. calls[r] \in Frames
      BY Types
    <3> QED
      BY <3>1 DEF Frames
  <2>2. x \in Payments /\ Sound(provider, x) /\ Holds(provider, f, x)
    BY <1>3, <2>1, MineFacts DEF CountSpend, At, Paying, Payments, Sound, Holds
  <2>3. /\ payments' = [payments EXCEPT ![calls[r].payment] = x]
        /\ Become(r, f)
    BY <1>3 DEF CountSpend, Book
  <2>4. RestHold
    <3>1. daily' \in Nat
      BY <1>3, FrameFacts, FeeIsPrice DEF CountSpend, AddDaily
    <3> QED
      BY <1>3, <3>1, Types DEF CountSpend, RestHold, plan
  <2> HIDE DEF x, f
  <2> QED
    BY <1>1, <2>1, <2>2, <2>3, <2>4, Books DEF Paying, Refusal
<1> QED
  BY <1>2, <1>3

LEMMA AnswerSteps ==
  ASSUME IInv, NEW r \in Runs,
         Serve(r) \/ RejectProof(r) \/ Refuse(r) \/ AnswerLost(r) \/ BodyBroken(r)
         \/ Settle(r)
  PROVE  IInv'
<1>1. calls[r].at \in {"send", "answer"} /\ calls[r].at \in Paying
  BY DEF Serve, RejectProof, Refuse, AnswerLost, BodyBroken, Settle, At, Paying
<1>2. RestHold
  <2>1. UNCHANGED <<provider, refining, refines, daily>>
    BY DEF Serve, RejectProof, Refuse, AnswerLost, BodyBroken, Settle, plan, books
  <2>2. status' \in [Tasks -> Statuses]
    BY Types, Throws DEF Serve, RejectProof, Refuse, AnswerLost, BodyBroken, Settle
  <2>3. /\ failures' \in [FailureKinds -> 0 .. MaxFailures]
        /\ \A kind \in FailureKinds : failures[kind] <= failures'[kind]
    BY NoFailure, Failed DEF Serve, RejectProof, Refuse, AnswerLost, BodyBroken, Settle
  <2> QED
    BY <2>1, <2>2, <2>3, Types DEF RestHold
<1>3. CASE Serve(r)
  <2>1. PICK answer \in {"ok", "declined", "refund"} :
          /\ Book(r, [Mine(r) EXCEPT !.taken = TRUE, !.refund = (answer = "refund")])
          /\ Become(r, [calls[r] EXCEPT !.at = "answer", !.answer = answer])
    BY <1>3 DEF Serve
  <2> DEFINE x == [Mine(r) EXCEPT !.taken = TRUE, !.refund = (answer = "refund")]
             f == [calls[r] EXCEPT !.at = "answer", !.answer = answer]
  <2>2. f \in Frames /\ f.at = "answer" /\ f.payment = calls[r].payment
        /\ f.task = calls[r].task /\ f.phase = calls[r].phase /\ f.answer = answer
    <3>1. calls[r] \in Frames
      BY Types
    <3> QED
      BY <3>1 DEF Frames, Answers
  <2>3. x \in Payments /\ x.taken /\ x.refund = (answer = "refund")
        /\ x.row = Mine(r).row /\ x.event = Mine(r).event /\ x.landed = Mine(r).landed
        /\ x.task = Mine(r).task /\ x.price = Mine(r).price
    BY <1>1, MineFacts DEF Payments
  <2>4. calls[r].at = "send"
    BY <1>3 DEF Serve, At
  <2> HIDE DEF x, f
  <2>5. Sound(provider, x) /\ Holds(provider, f, x)
    BY <1>1, <2>2, <2>3, <2>4, MineFacts DEF Sound, Holds
  <2> QED
    BY <1>1, <1>2, <2>1, <2>2, <2>3, <2>5, Books DEF Paying, Refusal, Book, x, f
<1>4. CASE RejectProof(r) \/ Refuse(r)
  <2>1. PICK answer \in {"rejected", "refused"} :
          /\ calls[r].at = "send"
          /\ Become(r, [calls[r] EXCEPT !.at = "answer", !.answer = answer])
          /\ answer = "refused" => Failures("refusal")' = Failures("refusal") + 1
    <3>1. Refuse(r) => Failures("refusal")' = Failures("refusal") + 1
      BY Failed DEF Refuse
    <3> QED
      BY <1>4, <3>1 DEF RejectProof, Refuse, At
  <2> DEFINE f == [calls[r] EXCEPT !.at = "answer", !.answer = answer]
  <2>2. f \in Frames /\ f.at = "answer" /\ f.payment = calls[r].payment
        /\ f.task = calls[r].task /\ f.phase = calls[r].phase /\ f.answer = answer
    <3>1. calls[r] \in Frames
      BY Types
    <3> QED
      BY <3>1 DEF Frames, Answers
  <2> HIDE DEF f
  <2>3. Holds(provider, f, Mine(r))
    BY <1>1, <2>1, <2>2, MineFacts DEF Holds
  <2>4. payments' = [payments EXCEPT ![calls[r].payment] = Mine(r)]
    BY <1>1, <1>4, MineFacts, Types DEF RejectProof, Refuse, books
  <2>5. Become(r, f) /\ (Refusal(f) => Failures("refusal")' = Failures("refusal") + 1)
    BY <2>1, <2>2 DEF f, Refusal
  <2> QED
    BY <1>1, <1>2, <2>2, <2>3, <2>4, <2>5, MineFacts, Books DEF Paying
<1>5. CASE AnswerLost(r)
  <2> DEFINE x == [Mine(r) EXCEPT !.row = "refunded"]
  <2>1. x \in Payments /\ Sound(provider, x) /\ x.row = "refunded"
        /\ x.landed = Mine(r).landed /\ x.event = Mine(r).event
    BY <1>1, MineFacts DEF Payments, Sound
  <2>2. /\ payments' = [payments EXCEPT ![calls[r].payment] = x]
        /\ Become(r, Idle) /\ Failures("network")' = Failures("network") + 1
    BY <1>5, Throws, Failed DEF AnswerLost, Book
  <2> HIDE DEF x
  <2>3. \A kind \in Kinds : Lost(kind, provider, x) => kind = "network"
    BY <1>1, <2>1, MineFacts DEF Lost, Holds
  <2> QED
    BY <1>1, <1>2, <2>1, <2>2, <2>3, IdleIsFrame, Books DEF Paying
<1>7. CASE BodyBroken(r)
  <2>1. /\ payments' = [payments EXCEPT ![calls[r].payment] = Mine(r)]
        /\ Become(r, Idle) /\ Failures("body")' = Failures("body") + 1
    BY <1>1, <1>7, MineFacts, Types, Throws, Failed DEF BodyBroken, books
  <2>2. \A kind \in Kinds : Lost(kind, provider, Mine(r)) => kind = "body"
    BY <1>1, MineFacts DEF Lost, Holds
  <2> QED
    BY <1>1, <1>2, <2>1, <2>2, MineFacts, IdleIsFrame, Books DEF Paying
<1>6. CASE Settle(r)
  <2> DEFINE got == IF calls[r].phase = "quoting" /\ calls[r].answer = "ok"
                    THEN calls[r].got \cup {calls[r].merchant} ELSE calls[r].got
             x == [Mine(r) EXCEPT !.row = Outcome(calls[r].answer)]
             f == [calls[r] EXCEPT !.at = "visit", !.payment = 0, !.answer = "none",
                                    !.got = got]
  <2>1. f \in Frames /\ f.at = "visit" /\ f.payment = 0
    <3>1. calls[r] \in Frames /\ got \in SUBSET Merchants
      BY FrameFacts
    <3> HIDE DEF got
    <3> QED
      BY <3>1 DEF Frames, Answers
  <2>2. /\ x \in Payments /\ x.row = Outcome(calls[r].answer) /\ x.taken = Mine(r).taken
        /\ x.refund = Mine(r).refund /\ x.landed = Mine(r).landed /\ x.event = Mine(r).event
    BY <1>1, MineFacts DEF Payments, Outcome
  <2>3. payments' = [payments EXCEPT ![calls[r].payment] = x]
    BY <1>6 DEF Settle, Book
  <2>4. Become(r, f)
    BY <1>1, <1>6, FrameFacts DEF Settle, Become
  <2> HIDE DEF x, f
  <2>5. calls[r].at = "answer" /\ calls[r].answer \in Answers
    BY <1>6, FrameFacts DEF Settle, At
  <2>6. Sound(provider, x)
    BY <1>1, <2>2, <2>5, MineFacts DEF Sound, Holds, Outcome, Answers
  <2>7. \A kind \in Kinds :
          Lost(kind, provider, x) => kind = "refusal" /\ Refusal(calls[r])
    BY <1>1, <2>2, <2>5, MineFacts DEF Lost, Holds, Outcome, Answers, Refusal
  <2> QED
    BY <1>1, <1>2, <2>1, <2>2, <2>3, <2>4, <2>6, <2>7, Books DEF Paying
<1> QED
  BY <1>3, <1>4, <1>5, <1>6, <1>7

-----------------------------------------------------------------------------
(* The theorems *)

LEMMA StepInductive == IInv /\ [Next]_vars => IInv'
<1> SUFFICES ASSUME IInv, [Next]_vars PROVE IInv'
  OBVIOUS
<1>1. CASE UNCHANGED vars
  BY <1>1, Stands, Types DEF vars, RestHold
<1>2. ASSUME NEW t \in Tasks, RefinePlan(t) \/ PlanReady(t) \/ RefineFails(t) PROVE IInv'
  BY <1>2, PlanSteps
<1>3. ASSUME NEW r \in Runs, NEW t \in Tasks, ApprovePlan(r, t) PROVE IInv'
  BY <1>3, ApproveStep
<1>4. ASSUME NEW r \in Runs, Step(r) PROVE IInv'
  BY <1>4, ResearchSteps, CheckSteps, TransferSteps, BookingSteps, AnswerSteps DEF Step
<1>5. ASSUME NEW r \in Runs,
             NetworkFails(r) \/ TransferUnconfirmed(r) \/ RejectProof(r) \/ Refuse(r)
             \/ AnswerLost(r) \/ BodyBroken(r)
      PROVE  IInv'
  BY <1>5, ResearchSteps, TransferSteps, AnswerSteps
<1> QED
  BY <1>1, <1>2, <1>3, <1>4, <1>5 DEF Next

LEMMA Inductive == Spec => []IInv
BY InitHolds, StepInductive, PTL DEF Spec

\* Tables, ledger, counter and every run in flight keep their types, and no run
\* points at a payment that does not exist (paymentClient.ts, orchestrator.ts).
THEOREM TypeCorrect == Spec => []TypeOK
<1>1. IInv => TypeOK
  BY DEF IInv
<1> QED
  BY <1>1, Inductive, PTL

\* With any number of runs at once and any failures, what the ledger calls
\* confirmed has landed on the chain, and a merchant's gate only takes payments
\* that the ledger has confirmed (paymentClient.ts pay, payments.ts paymentGate).
THEOREM TakenPaymentsArePaid == Spec => []TakenIsPaid
<1>1. IInv => TakenIsPaid
  BY Types DEF IInv, TakenIsPaid, Sound
<1> QED
  BY <1>1, Inductive, PTL

-----------------------------------------------------------------------------
(* The limits of a task *)

\* The payments of task t that count, in the books ps.
Booked(ps, t) == {p \in DOMAIN ps : ps[p].task = t /\ Counts(ps[p].row)}

LEMMA CountedIsBooked == \A t : Counted(t) = Booked(payments, t)
BY DEF Counted, Booked

\* The stages between the check of the number of payments and the booking.
Window == {"daily", "transfer", "confirm", "count"}

\* The fees of the payments.
Prices(ps) == [p \in DOMAIN ps |-> ps[p].price]

\* What the payments of task t that count cost together.
Spent(ps, t) == SumFunctionOnSet(Prices(ps), Booked(ps, t))

\* There is room for one more payment of run r, in number and in cost.
Room(r) ==
    /\ Cardinality(Booked(payments, calls[r].task)) < MaxPayments
    /\ Spent(payments, calls[r].task) + Fee(r) <= Budget

\* No task spends more than its budget, whichever provider is configured.  With
\* the Solana provider at most one run is at work, and between its check and
\* its booking there is room for the payment it will book.
LimitInv ==
    /\ \A t \in Tasks : Spent(payments, t) <= Budget
    /\ \A r \in Runs : calls[r].at \in Window => provider = "solana" /\ Room(r)
    /\ provider = "solana" =>
          /\ \A r, s \in Runs : ~At(r, "idle") /\ ~At(s, "idle") => r = s
          /\ \A t \in Tasks : Cardinality(Booked(payments, t)) <= MaxPayments

LEMMA CountedIsFinite ==
  ASSUME IInv, NEW t \in Tasks
  PROVE  Booked(payments, t) \subseteq 1 .. Len(payments) /\ IsFiniteSet(Booked(payments, t))
         /\ Cardinality(Booked(payments, t)) \in Nat
<1>1. Booked(payments, t) \subseteq 1 .. Len(payments)
  BY Types DEF Booked
<1>2. IsFiniteSet(1 .. Len(payments))
  BY Types, FS_Interval
<1> QED
  BY <1>1, <1>2, FS_Subset, FS_CardinalityType

LEMMA SpentIsNat ==
  ASSUME IInv, NEW t \in Tasks
  PROVE  /\ \A p \in DOMAIN payments :
                Prices(payments)[p] \in Nat /\ Prices(payments)[p] = payments[p].price
         /\ Spent(payments, t) \in Nat
<1>1. \A p \in DOMAIN payments :
         Prices(payments)[p] \in Nat /\ Prices(payments)[p] = payments[p].price
  BY Types DEF Prices, Payments
<1>2. Booked(payments, t) \subseteq DOMAIN payments /\ IsFiniteSet(Booked(payments, t))
  BY CountedIsFinite, Types
<1> QED
  BY <1>1, <1>2, SumIsNat DEF Spent

\* What was paid stays what it cost.
SamePrices ==
    /\ DOMAIN payments \subseteq DOMAIN payments'
    /\ \A p \in DOMAIN payments : payments'[p].price = payments[p].price

LEMMA Fewer ==
  ASSUME IInv, NEW t \in Tasks, Booked(payments', t) \subseteq Booked(payments, t), SamePrices
  PROVE  /\ Cardinality(Booked(payments', t)) <= Cardinality(Booked(payments, t))
         /\ Cardinality(Booked(payments', t)) \in Nat
         /\ Spent(payments', t) <= Spent(payments, t) /\ Spent(payments', t) \in Nat
<1> DEFINE S == Booked(payments, t)
           T == Booked(payments', t)
           f == Prices(payments)
           g == Prices(payments')
<1>1. IsFiniteSet(S) /\ IsFiniteSet(T) /\ T \subseteq S
  BY CountedIsFinite, FS_Subset
<1>2. \A p \in S : f[p] \in Nat
  BY SpentIsNat DEF Booked
<1>3. \A p \in T : g[p] = f[p]
  BY <1>1 DEF Booked, SamePrices, Prices
<1>4. Spent(payments, t) = SumFunctionOnSet(f, S) /\ Spent(payments', t) = SumFunctionOnSet(g, T)
  BY DEF Spent
<1> HIDE DEF S, T, f, g
<1>5. SumFunctionOnSet(g, T) = SumFunctionOnSet(f, T)
  BY <1>1, <1>3, SumDependsOn
<1>6. SumFunctionOnSet(f, T) <= SumFunctionOnSet(f, S) /\ SumFunctionOnSet(f, T) \in Nat
  <2>1. SumFunctionOnSet(f, T) <= SumFunctionOnSet(f, S)
    BY <1>1, <1>2, SumOfFewer
  <2>2. \A p \in T : f[p] \in Nat
    BY <1>1, <1>2
  <2> QED
    BY <2>1, <2>2, <1>1, SumIsNat
<1>7. Cardinality(T) <= Cardinality(S) /\ Cardinality(T) \in Nat
  BY <1>1, FS_Subset, FS_CardinalityType
<1> QED
  BY <1>4, <1>5, <1>6, <1>7 DEF S, T

\* One payment more adds its fee at most.
LEMMA OneMore ==
  ASSUME IInv, NEW t \in Tasks, NEW i, Booked(payments', t) \subseteq Booked(payments, t) \cup {i},
         SamePrices, NEW fee \in Nat, i \in DOMAIN payments', payments'[i].price = fee,
         \A p \in DOMAIN payments' : payments'[p].price \in Nat
  PROVE  /\ Cardinality(Booked(payments', t)) <= Cardinality(Booked(payments, t)) + 1
         /\ Cardinality(Booked(payments', t)) \in Nat
         /\ Spent(payments', t) <= Spent(payments, t) + fee /\ Spent(payments', t) \in Nat
<1> DEFINE S == Booked(payments, t)
           T == Booked(payments', t)
           f == Prices(payments)
           g == Prices(payments')
<1>1. IsFiniteSet(S) /\ IsFiniteSet(S \cup {i}) /\ IsFiniteSet(T) /\ T \subseteq S \cup {i}
  <2>1. IsFiniteSet(S)
    BY CountedIsFinite
  <2>2. IsFiniteSet(S \cup {i})
    BY <2>1, FS_AddElement
  <2> QED
    BY <2>1, <2>2, FS_Subset
<1>2. /\ \A p \in S : g[p] = f[p] /\ g[p] \in Nat
      /\ g[i] = fee
  <2>1. S \subseteq DOMAIN payments /\ S \subseteq DOMAIN payments'
    BY DEF Booked, SamePrices
  <2> QED
    BY <2>1 DEF SamePrices, Prices
<1>3. Spent(payments, t) = SumFunctionOnSet(f, S) /\ Spent(payments', t) = SumFunctionOnSet(g, T)
  BY DEF Spent
<1>4. Cardinality(S) \in Nat /\ SumFunctionOnSet(f, S) \in Nat
  BY <1>3, CountedIsFinite, SpentIsNat
<1> HIDE DEF S, T, f, g
<1>5. SumFunctionOnSet(g, S) = SumFunctionOnSet(f, S)
  BY <1>1, <1>2, SumDependsOn
<1>6. SumFunctionOnSet(g, S \cup {i}) <= SumFunctionOnSet(f, S) + fee
  <2>1. CASE i \in S
    <3>1. S \cup {i} = S
      BY <2>1
    <3>2. SumFunctionOnSet(g, S \cup {i}) = SumFunctionOnSet(f, S)
      BY <3>1, <1>5, Zenon
    <3> QED
      BY <3>2, <1>4
  <2>2. CASE i \notin S
    <3>1. \A p \in S \cup {i} : g[p] \in Int
      BY <1>2
    <3>2. SumFunctionOnSet(g, S \cup {i}) = SumFunctionOnSet(g, S) + g[i]
      BY <1>1, <2>2, <3>1, SumWith
    <3> QED
      BY <3>2, <1>2, <1>4, <1>5
  <2> QED
    BY <2>1, <2>2
<1>7. /\ SumFunctionOnSet(g, T) <= SumFunctionOnSet(g, S \cup {i})
      /\ SumFunctionOnSet(g, T) \in Nat /\ SumFunctionOnSet(g, S \cup {i}) \in Nat
  <2>1. \A p \in S \cup {i} : g[p] \in Nat
    BY <1>2
  <2>2. \A p \in T : g[p] \in Nat
    BY <1>1, <2>1
  <2> QED
    BY <2>1, <2>2, <1>1, SumOfFewer, SumIsNat
<1>8. Cardinality(S \cup {i}) <= Cardinality(S) + 1
  <2>1. Cardinality(S \cup {i}) = IF i \in S THEN Cardinality(S) ELSE Cardinality(S) + 1
    BY <1>1, FS_AddElement
  <2> QED
    BY <2>1, <1>4
<1>9. /\ Cardinality(T) <= Cardinality(S \cup {i})
      /\ Cardinality(T) \in Nat /\ Cardinality(S \cup {i}) \in Nat
  BY <1>1, FS_Subset, FS_CardinalityType
<1>10. SumFunctionOnSet(g, T) <= SumFunctionOnSet(f, S) + fee
  BY <1>4, <1>6, <1>7
<1>11. Cardinality(T) <= Cardinality(S) + 1
  BY <1>4, <1>8, <1>9
<1> QED
  BY <1>3, <1>7, <1>9, <1>10, <1>11 DEF S, T

LEMMA Limits == Budget \in Nat /\ MaxPayments \in Nat
BY PaymentAssumption

\* A run moves on without adding to what is counted.
LEMMA LimitStays ==
  ASSUME IInv, IInv', LimitInv, NEW r \in Runs, SamePrices,
         \A s \in Runs : s # r => calls'[s] = calls[s],
         provider' = provider,
         provider = "solana" => ~At(r, "idle") \/ \A s \in Runs : At(s, "idle"),
         \A t \in Tasks : Booked(payments', t) \subseteq Booked(payments, t),
         calls'[r].at \in Window =>
            /\ calls'[r].task = calls[r].task /\ calls'[r].phase = calls[r].phase
            /\ provider = "solana"
            /\ calls[r].at \in Window \/ Room(r)
  PROVE  LimitInv'
<1>1. provider = "solana" =>
        \A s \in Runs : s # r => calls[s].at = "idle" /\ calls'[s].at = "idle"
  BY DEF LimitInv, At
<1>2. calls[r].task \in Tasks
  BY FrameFacts
<1>3. \A t \in Tasks : Spent(payments', t) <= Budget
  BY Limits, Fewer, SpentIsNat DEF LimitInv
<1>4. ASSUME provider = "solana"
      PROVE  \A t \in Tasks : Cardinality(Booked(payments', t)) <= MaxPayments
  BY <1>4, Limits, Fewer, CountedIsFinite DEF LimitInv
<1>5. ASSUME calls'[r].at \in Window
      PROVE  /\ Cardinality(Booked(payments', calls[r].task)) < MaxPayments
             /\ Spent(payments', calls[r].task) + Fee(r) <= Budget
  <2>1. Room(r)
    BY <1>5 DEF LimitInv
  <2> QED
    BY <1>2, <2>1, Limits, Fewer, CountedIsFinite, SpentIsNat, FeeIsPrice DEF Room
<1>6. ASSUME NEW s \in Runs, calls'[s].at \in Window
      PROVE  provider' = "solana" /\ Room(s)'
  <2>1. CASE s = r
    BY <1>5, <1>6, <2>1 DEF Room, Fee
  <2>2. CASE s # r
    <3>1. calls[s].at \in Window
      BY <1>6, <2>2
    <3>2. provider = "solana"
      BY <3>1 DEF LimitInv
    <3> QED
      BY <1>1, <2>2, <3>1, <3>2 DEF Window
  <2> QED
    BY <2>1, <2>2
<1>7. provider = "solana" =>
        \A s, q \in Runs : ~At(s, "idle")' /\ ~At(q, "idle")' => s = q
  BY <1>1 DEF At
<1> QED
  BY <1>3, <1>4, <1>6, <1>7 DEF LimitInv

\* Writing one's payment adds to no count unless it makes an open row count.
LEMMA BookCounts ==
  ASSUME IInv, NEW r \in Runs, calls[r].at \in Paying, NEW x, Book(r, x),
         x.task = Mine(r).task, NEW t \in Tasks
  PROVE  /\ x.price = Mine(r).price => SamePrices
         /\ Booked(payments', t) \subseteq Booked(payments, t) \cup {calls[r].payment}
         /\ (Counts(x.row) => Counts(Mine(r).row)) \/ t # calls[r].task
               => Booked(payments', t) \subseteq Booked(payments, t)
<1>1. /\ calls[r].payment \in DOMAIN payments
      /\ Mine(r) = payments[calls[r].payment] /\ Mine(r).task = calls[r].task
  BY MineFacts, Types DEF Holds
<1>2. /\ DOMAIN payments' = DOMAIN payments
      /\ \A p \in DOMAIN payments :
            payments'[p] = IF p = calls[r].payment THEN x ELSE payments[p]
  BY <1>1 DEF Book
<1> QED
  BY <1>1, <1>2 DEF Booked, SamePrices

LEMMA CountSpendLimits ==
  ASSUME IInv, IInv', LimitInv, NEW r \in Runs, CountSpend(r)
  PROVE  LimitInv'
<1> DEFINE x == [Mine(r) EXCEPT !.row = "pending"]
           T == calls[r].task
<1>1. calls[r].at = "count" /\ calls[r].at \in Paying /\ calls[r].at \in Window /\ T \in Tasks
      /\ provider' = provider
  BY FrameFacts DEF CountSpend, At, Paying, Window, plan
<1>2. provider = "solana" /\ Room(r) /\ \A s \in Runs : s # r => calls[s].at = "idle"
  BY <1>1 DEF LimitInv, At, Window
<1>3. \A s \in Runs :
         /\ s # r => calls'[s] = calls[s]
         /\ calls'[s].at \notin Window
  BY <1>1, <1>2, Types DEF CountSpend, Become, Frames, Window
<1>4. Book(r, x) /\ x.task = Mine(r).task /\ x.price = Mine(r).price
      /\ Mine(r).price = Fee(r) /\ Mine(r) \in Payments /\ x \in Payments
  BY <1>1, MineFacts DEF CountSpend, Payments, Holds, Fee
<1> HIDE DEF x
<1>5. \A t \in Tasks : Cardinality(Booked(payments', t)) <= MaxPayments
                      /\ Spent(payments', t) <= Budget
  <2> SUFFICES ASSUME NEW t \in Tasks
               PROVE  Cardinality(Booked(payments', t)) <= MaxPayments
                      /\ Spent(payments', t) <= Budget
    OBVIOUS
  <2>1. SamePrices
    BY <1>1, <1>4, BookCounts
  <2>2. CASE t # T
    <3>1. Booked(payments', t) \subseteq Booked(payments, t)
      BY <1>1, <1>4, <2>2, BookCounts
    <3> QED
      BY <1>2, <2>1, <3>1, Limits, Fewer, CountedIsFinite, SpentIsNat DEF LimitInv
  <2>3. CASE t = T
    <3> DEFINE i == calls[r].payment
    <3>1. Booked(payments', t) \subseteq Booked(payments, t) \cup {i}
      BY <1>1, <1>4, <2>3, BookCounts
    <3>2. /\ i \in DOMAIN payments' /\ payments'[i].price = Fee(r) /\ Fee(r) \in Nat
          /\ \A p \in DOMAIN payments' : payments'[p].price \in Nat
      <4>1. i \in DOMAIN payments
        BY <1>1, MineFacts, Types
      <4>2. /\ DOMAIN payments' = DOMAIN payments
            /\ \A p \in DOMAIN payments : payments'[p] = IF p = i THEN x ELSE payments[p]
        BY <1>4, <4>1 DEF Book
      <4> QED
        BY <1>4, <4>1, <4>2, Types, FeeIsPrice DEF Payments
    <3> HIDE DEF i
    <3>3. /\ Cardinality(Booked(payments', t)) <= Cardinality(Booked(payments, t)) + 1
          /\ Cardinality(Booked(payments', t)) \in Nat
          /\ Spent(payments', t) <= Spent(payments, t) + Fee(r) /\ Spent(payments', t) \in Nat
      BY <2>1, <3>1, <3>2, OneMore
    <3>4. Cardinality(Booked(payments, t)) < MaxPayments /\ Spent(payments, t) + Fee(r) <= Budget
      BY <1>2, <2>3 DEF Room
    <3>5. Cardinality(Booked(payments', t)) <= MaxPayments
      BY <3>3, <3>4, Limits, CountedIsFinite
    <3>6. Spent(payments', t) <= Budget
      BY <3>2, <3>3, <3>4, Limits, SpentIsNat
    <3> QED
      BY <3>5, <3>6
  <2> QED
    BY <2>2, <2>3
<1>6. \A s, q \in Runs : ~At(s, "idle")' /\ ~At(q, "idle")' => s = q
  BY <1>2, <1>3 DEF At
<1> QED
  BY <1>1, <1>3, <1>5, <1>6 DEF LimitInv

LEMMA Thrown ==
  ASSUME IInv, NEW r \in Runs, Throw(r) \/ Become(r, Idle)
  PROVE  (\A s \in Runs : s # r => calls'[s] = calls[s]) /\ calls'[r].at \notin Window
<1>1. calls' = [calls EXCEPT ![r] = Idle] /\ calls \in [Runs -> Frames]
  BY Types DEF Throw, Become
<1>2. (\A s \in Runs : s # r => calls'[s] = calls[s]) /\ calls'[r] = Idle
  BY <1>1
<1> QED
  BY <1>2, IdleIsFrame DEF Window

\* The mock provider checks and books at once.
LEMMA PayMockLimits ==
  ASSUME IInv, IInv', LimitInv, NEW r \in Runs, PayMock(r), ~Blocked(r)
  PROVE  LimitInv'
<1> DEFINE x == [task |-> calls[r].task, merchant |-> calls[r].merchant,
                 price |-> Fee(r), row |-> "pending", event |-> "none",
                 landed |-> FALSE, taken |-> FALSE, refund |-> FALSE]
           n == Len(payments) + 1
           T == calls[r].task
<1>1. /\ provider = "mock" /\ provider' = "mock" /\ T \in Tasks /\ Fee(r) \in Nat
      /\ calls[r] \in Frames /\ payments \in Seq(Payments)
  BY FrameFacts, Types, FeeIsPrice DEF PayMock, plan
<1>2. Spent(payments, T) + Fee(r) <= Budget
  BY <1>1, CountedIsBooked DEF PayMock, WithinBudget, Cost, Spent, Prices
<1>3. payments' = Append(payments, x) /\ x.price = Fee(r) /\ x.task = T
  BY DEF PayMock, Issue
<1>4. \A s \in Runs : s # r => calls'[s] = calls[s]
  BY <1>1, Types DEF PayMock, Issue, Become
<1>5. calls'[r].at = "send"
  BY <1>1, Types DEF PayMock, Issue, Become, Frames
<1> HIDE DEF x
<1>6. /\ DOMAIN payments' = 1 .. n /\ payments'[n] = x /\ n \in Nat
      /\ \A p \in 1 .. Len(payments) : payments'[p] = payments[p]
  BY <1>1, <1>3, Types
<1>7. SamePrices /\ \A p \in DOMAIN payments' : payments'[p].price \in Nat
  BY <1>1, <1>3, <1>6, Types DEF SamePrices, Payments
<1>8. ASSUME NEW t \in Tasks PROVE Spent(payments', t) <= Budget
  <2>1. CASE t # T
    <3>1. Booked(payments', t) \subseteq Booked(payments, t)
      BY <2>1, <1>3, <1>6, Types DEF Booked
    <3> QED
      BY <3>1, <1>7, Fewer, Limits, SpentIsNat DEF LimitInv
  <2>2. CASE t = T
    <3>1. Booked(payments', t) \subseteq Booked(payments, t) \cup {n}
      BY <1>6, Types DEF Booked
    <3>2. n \in DOMAIN payments' /\ payments'[n].price = Fee(r)
      BY <1>3, <1>6
    <3> HIDE DEF n
    <3>3. Spent(payments', t) <= Spent(payments, t) + Fee(r) /\ Spent(payments', t) \in Nat
      BY <1>1, <1>7, <3>1, <3>2, OneMore
    <3> QED
      BY <1>1, <1>2, <2>2, <3>3, Limits, SpentIsNat
  <2> QED
    BY <2>1, <2>2
<1>9. \A s \in Runs : calls'[s].at \notin Window
  BY <1>1, <1>4, <1>5 DEF LimitInv, Window
<1> QED
  BY <1>1, <1>8, <1>9 DEF LimitInv

\* Every other step of a run keeps the limits and the room.
LEMMA RunLimits ==
  ASSUME IInv, IInv', LimitInv, NEW r \in Runs,
         \/ Step(r) /\ ~CountSpend(r)
         \/ NetworkFails(r) \/ TransferUnconfirmed(r) \/ RejectProof(r) \/ Refuse(r)
         \/ AnswerLost(r) \/ BodyBroken(r)
  PROVE  LimitInv'
<1>1. provider' = provider
  BY DEF Step, Discover, Skip, Ask, EndQuoting, EndReserving, EndNegotiating, Done, PayMock,
         PayOnChain, CheckDaily, Transfer, ConfirmEvent, CountSpend, Serve, Settle,
         NetworkFails, TransferUnconfirmed, RejectProof, Refuse, AnswerLost, BodyBroken, plan
<1>2. calls[r] \in Frames
  BY Types
<1>3. ~At(r, "idle")
  BY DEF Step, Discover, Skip, Ask, EndQuoting, EndReserving, EndNegotiating, Done, PayMock,
         PayOnChain, CheckDaily, Transfer, ConfirmEvent, CountSpend, Serve, Settle, Visits,
         NetworkFails, TransferUnconfirmed, RejectProof, Refuse, AnswerLost, BodyBroken, At
<1> DEFINE Alone == \A s \in Runs : s # r => calls'[s] = calls[s]
           Away == calls'[r].at \notin Window
           SameJob == calls'[r].task = calls[r].task /\ calls'[r].phase = calls[r].phase
<1>4. ASSUME Discover(r) \/ Skip(r) \/ Ask(r) \/ EndQuoting(r) \/ EndReserving(r)
             \/ EndNegotiating(r) \/ NetworkFails(r)
      PROVE  LimitInv'
  <2>1. payments' = payments
    BY <1>4 DEF Discover, Skip, Ask, EndQuoting, EndReserving, EndNegotiating, Done,
                NetworkFails, books
  <2>2. calls[r].at \in {"discover", "visit"}
    BY <1>4 DEF Discover, Skip, Ask, EndQuoting, EndReserving, EndNegotiating, NetworkFails,
                Visits, Done, At
  <2>3. Throw(r) \/ Become(r, Idle) => Alone /\ Away
    BY Thrown DEF Throw
  <2>4. \A phase \in Phases : Begin(r, phase) => Alone /\ Away
    BY <1>2, <2>2, Types DEF Begin, Become, Window, Frames
  <2>5. Discover(r) \/ Skip(r) \/ Ask(r) => Alone /\ Away
    BY <1>2, <2>2, Types DEF Discover, Skip, Ask, Become, Window, Frames
  <2>6. EndQuoting(r) \/ EndReserving(r) \/ EndNegotiating(r) \/ NetworkFails(r)
          => Alone /\ Away
    BY <2>3, <2>4 DEF EndQuoting, EndReserving, EndNegotiating, NetworkFails, Phases
  <2>7. Alone /\ Away
    BY <1>4, <2>5, <2>6
  <2> QED
    BY <1>1, <1>3, <2>1, <2>7, LimitStays DEF SamePrices
<1>5. ASSUME Blocked(r) PROVE LimitInv'
  <2>1. Alone /\ Away
    BY <1>2, <1>5, Types DEF Become, Blocked, GoTo, Window, Frames
  <2> QED
    BY <1>1, <1>3, <1>5, <2>1, LimitStays DEF Blocked, books, SamePrices
<1>6. ASSUME PayOnChain(r), ~Blocked(r) PROVE LimitInv'
  <2>1. Alone /\ SameJob
    BY <1>2, <1>6, Types DEF Become, PayOnChain, GoTo, Frames
  <2>2. Room(r) /\ payments' = payments /\ provider = "solana"
    BY <1>6, CountedIsBooked
       DEF PayOnChain, FewEnough, WithinBudget, Room, Cost, Spent, Prices, books
  <2> QED
    BY <1>1, <1>3, <2>1, <2>2, LimitStays DEF SamePrices
<1>7. ASSUME CheckDaily(r), ~Blocked(r) PROVE LimitInv'
  <2> DEFINE x == [task |-> calls[r].task, merchant |-> calls[r].merchant,
                   price |-> Fee(r), row |-> "none", event |-> "pending",
                   landed |-> FALSE, taken |-> FALSE, refund |-> FALSE]
  <2> DEFINE f == [calls[r] EXCEPT !.at = "transfer", !.payment = Len(payments) + 1]
  <2>1. Alone /\ SameJob
    <3>1. calls' = [calls EXCEPT ![r] = f]
      BY <1>7 DEF Become, CheckDaily, Issue
    <3>2. f.task = calls[r].task /\ f.phase = calls[r].phase
      BY <1>2 DEF Frames
    <3> HIDE DEF f
    <3> QED
      BY <3>1, <3>2, Types
  <2>2. payments' = Append(payments, x) /\ ~Counts(x.row) /\ calls[r].at = "daily"
        /\ provider = "solana"
    BY <1>7 DEF CheckDaily, Issue, At, Counts, LimitInv, Window
  <2> HIDE DEF x
  <2>3. /\ \A t \in Tasks : Booked(payments', t) \subseteq Booked(payments, t)
        /\ SamePrices
    <3>1. /\ DOMAIN payments' = 1 .. Len(payments) + 1
          /\ payments'[Len(payments) + 1] = x
          /\ \A p \in 1 .. Len(payments) : payments'[p] = payments[p]
      <4>1. payments' \in Seq(Payments)
        BY DEF IInv, TypeOK
      <4> QED
        BY <2>2, <4>1, Types
    <3> QED
      BY <2>2, <3>1, Types DEF Booked, SamePrices
  <2> QED
    BY <1>1, <1>3, <2>1, <2>2, <2>3, LimitStays DEF Window
<1>8. ASSUME Transfer(r) \/ ConfirmEvent(r) PROVE LimitInv'
  <2>1. calls[r].at \in Window /\ calls[r].at \in Paying /\ provider = "solana"
    BY <1>8 DEF Transfer, ConfirmEvent, At, Window, Paying, LimitInv
  <2>2. Alone /\ SameJob
    BY <1>2, <1>8, Types DEF Become, Transfer, ConfirmEvent, GoTo, Frames
  <2>3. \E x : Book(r, x) /\ x.task = Mine(r).task /\ x.row = Mine(r).row
                 /\ x.price = Mine(r).price
    BY <1>8, <2>1, MineFacts DEF Transfer, ConfirmEvent, Payments
  <2>4. SamePrices /\ \A t \in Tasks : Booked(payments', t) \subseteq Booked(payments, t)
    BY <2>1, <2>3, BookCounts, PaymentAssumption
  <2> QED
    BY <1>1, <1>3, <2>1, <2>2, <2>4, LimitStays
<1>9. ASSUME Serve(r) \/ AnswerLost(r) \/ Settle(r) \/ TransferUnconfirmed(r)
      PROVE  LimitInv'
  <2>1. calls[r].at \in Paying
    BY <1>9 DEF Serve, AnswerLost, Settle, TransferUnconfirmed, At, Paying
  <2>2. Alone /\ Away
    <3>1. Serve(r) => Alone /\ Away
      BY <1>2, Types DEF Serve, Become, Window, Frames
    <3>2. AnswerLost(r) => Alone /\ Away
      BY Thrown DEF AnswerLost
    <3>3. Settle(r) => Alone /\ Away
      BY <1>2, Types DEF Settle, Become, Window, Frames
    <3>4. TransferUnconfirmed(r) => Alone /\ Away
      BY Thrown DEF TransferUnconfirmed
    <3> QED
      BY <1>9, <3>1, <3>2, <3>3, <3>4
  <2>3. Mine(r) \in Payments
        /\ (calls[r].at = "answer" => Mine(r).row = "pending")
    BY <2>1, MineFacts DEF Holds
  <2> DEFINE Harmless ==
        \E x :
          /\ Book(r, x) /\ x.task = Mine(r).task /\ x.price = Mine(r).price
          /\ Counts(x.row) => Counts(Mine(r).row)
  <2>4. Harmless
    <3>1. ASSUME Serve(r) PROVE Harmless
      <4>1. PICK answer \in {"ok", "declined", "refund"} :
              Book(r, [Mine(r) EXCEPT !.taken = TRUE, !.refund = (answer = "refund")])
        BY <3>1 DEF Serve
      <4> DEFINE x == [Mine(r) EXCEPT !.taken = TRUE, !.refund = (answer = "refund")]
      <4>2. x.task = Mine(r).task /\ x.row = Mine(r).row /\ x.price = Mine(r).price
        BY <2>3 DEF Payments
      <4> QED
        BY <4>1, <4>2
    <3>2. ASSUME AnswerLost(r) PROVE Harmless
      BY <2>3, <3>2 DEF AnswerLost, Payments, Counts
    <3>3. ASSUME Settle(r) PROVE Harmless
      BY <2>3, <3>3 DEF Settle, Payments, Counts, At
    <3>4. ASSUME TransferUnconfirmed(r) PROVE Harmless
      <4>1. PICK landed \in BOOLEAN :
              Book(r, [Mine(r) EXCEPT !.event = "failed", !.landed = landed])
        BY <3>4 DEF TransferUnconfirmed
      <4> DEFINE x == [Mine(r) EXCEPT !.event = "failed", !.landed = landed]
      <4>2. x.task = Mine(r).task /\ x.row = Mine(r).row /\ x.price = Mine(r).price
        BY <2>3 DEF Payments
      <4> QED
        BY <4>1, <4>2
    <3> QED
      BY <1>9, <3>1, <3>2, <3>3, <3>4
  <2>5. PICK x : /\ Book(r, x) /\ x.task = Mine(r).task /\ x.price = Mine(r).price
                 /\ Counts(x.row) => Counts(Mine(r).row)
    BY <2>4
  <2>6. SamePrices /\ \A t \in Tasks : Booked(payments', t) \subseteq Booked(payments, t)
    BY <2>1, <2>5, BookCounts, PaymentAssumption
  <2> QED
    BY <1>1, <1>3, <2>2, <2>6, LimitStays
<1>10. ASSUME RejectProof(r) \/ Refuse(r) \/ BodyBroken(r) PROVE LimitInv'
  <2>1. Alone /\ Away
    <3>1. RejectProof(r) => Alone /\ Away
      BY <1>2, Types DEF Become, RejectProof, Window, Frames
    <3>2. Refuse(r) => Alone /\ Away
      BY <1>2, Types DEF Become, Refuse, Window, Frames
    <3>3. BodyBroken(r) => Alone /\ Away
      BY Thrown DEF BodyBroken
    <3> QED
      BY <1>10, <3>1, <3>2, <3>3
  <2>2. payments' = payments
    BY <1>10 DEF RejectProof, Refuse, BodyBroken, books
  <2> QED
    BY <1>1, <1>3, <2>1, <2>2, LimitStays DEF SamePrices
<1>11. ASSUME PayMock(r), ~Blocked(r) PROVE LimitInv'
  BY <1>11, PayMockLimits
<1> QED
  BY <1>4, <1>5, <1>6, <1>7, <1>8, <1>9, <1>10, <1>11 DEF Step

\* A run starts only while no other is at work; plan revisions count nothing.
LEMMA OthersLimits ==
  ASSUME IInv, IInv', LimitInv, "solana" \in Providers => Parallel["solana"] <= 1,
         \/ \E t \in Tasks : RefinePlan(t) \/ PlanReady(t) \/ RefineFails(t)
         \/ \E r \in Runs, t \in Tasks : ApprovePlan(r, t)
  PROVE  LimitInv'
<1>1. UNCHANGED <<provider, payments>>
  BY DEF RefinePlan, PlanReady, RefineFails, ApprovePlan, plan, books
<1>2. ASSUME NEW t \in Tasks, RefinePlan(t) \/ PlanReady(t) \/ RefineFails(t)
      PROVE  LimitInv'
  <2>1. UNCHANGED calls
    BY <1>2 DEF RefinePlan, PlanReady, RefineFails
  <2> QED
    BY <1>1, <2>1 DEF LimitInv, At, Room, Fee
<1>3. ASSUME NEW r \in Runs, NEW t \in Tasks, ApprovePlan(r, t)
      PROVE  LimitInv'
  <2> DEFINE Busy == {o \in Runs : ~At(o, "idle")}
  <2>1. ASSUME provider = "solana" PROVE Busy = {}
    <3>1. Cardinality(Busy) < Parallel["solana"] /\ Parallel["solana"] \in Nat
          /\ Parallel["solana"] <= 1
      BY <1>3, <2>1, PaymentAssumption, Types DEF ApprovePlan
    <3>2. IsFiniteSet(Busy)
      BY PaymentAssumption, FS_Subset
    <3> HIDE DEF Busy
    <3>3. Cardinality(Busy) \in Nat
      BY <3>2, FS_CardinalityType
    <3>4. Cardinality(Busy) = 0
      BY <3>1, <3>3
    <3> QED
      BY <3>2, <3>4, FS_EmptySet
  <2>2. provider = "solana" => \A s \in Runs : At(s, "idle")
    BY <2>1
  <2>3. /\ \A s \in Runs : s # r => calls'[s] = calls[s]
        /\ calls'[r].at \notin Window
    BY <1>3, IdleIsFrame, Types DEF ApprovePlan, Become, Window, Frames
  <2> QED
    BY <1>1, <2>2, <2>3, LimitStays DEF SamePrices
<1> QED
  BY <1>2, <1>3

LEMMA LimitStep ==
  ASSUME "solana" \in Providers => Parallel["solana"] <= 1
  PROVE  IInv /\ IInv' /\ LimitInv /\ [Next]_vars => LimitInv'
<1> SUFFICES ASSUME IInv, IInv', LimitInv, [Next]_vars PROVE LimitInv'
  OBVIOUS
<1>1. CASE UNCHANGED vars
  BY <1>1 DEF vars, LimitInv, At, Room, Fee
<1>2. CASE Next
  BY <1>2, OthersLimits, RunLimits, CountSpendLimits DEF Next
<1> QED
  BY <1>1, <1>2

LEMMA LimitInit == Init => LimitInv
<1> SUFFICES ASSUME Init PROVE LimitInv
  OBVIOUS
<1>1. \A t \in Tasks : Booked(payments, t) = {}
  BY DEF Init, Booked
<1>2. \A t \in Tasks : Cardinality(Booked(payments, t)) = 0 /\ Spent(payments, t) = 0
  BY <1>1, FS_EmptySet, SumOfNothing DEF Spent
<1> QED
  BY <1>2, Limits, IdleIsFrame DEF Init, LimitInv, At, Window

\* When the Solana provider serves one run at a time, no task ever spends more
\* than RESEARCH_BUDGET_TOTAL_MICRO nor has more payments than
\* MAX_PAYMENTS_PER_TASK, although the check in pay() and the booking are several
\* awaits apart (paymentClient.ts 206-223, 276-280).  Under the mock provider any
\* number of runs of one task may pay at once (100-119).
THEOREM LimitsAreKept ==
  ASSUME "solana" \in Providers => Parallel["solana"] <= 1
  PROVE  Spec => []LimitsHold
<1>1. LimitInv => LimitsHold
  <2>1. \A t \in Tasks : Cost(Counted(t)) = Spent(payments, t)
    BY CountedIsBooked DEF Cost, Spent, Prices
  <2> QED
    BY <2>1, CountedIsBooked DEF LimitInv, LimitsHold, BudgetHolds, CountHolds
<1>2. IInv /\ IInv' /\ LimitInv /\ [Next]_vars => LimitInv'
  BY LimitStep
<1> QED
  BY <1>1, <1>2, LimitInit, Inductive, PTL DEF Spec

-----------------------------------------------------------------------------
(* What went astray *)

LEMMA QuietAstray ==
  ASSUME IInv, Quiet, NEW kind \in Kinds
  PROVE  \A ps : ps \subseteq {p \in DOMAIN payments : Lost(kind, provider, payments[p])}
                  => AtMost(ps, kind)
<1> SUFFICES ASSUME NEW ps,
                    ps \subseteq {p \in DOMAIN payments : Lost(kind, provider, payments[p])}
             PROVE  AtMost(ps, kind)
  OBVIOUS
<1>1. \A r \in Runs : calls[r].payment = 0
  BY DEF Quiet, IInv, FramesHold
<1>2. DOMAIN payments = 1 .. Len(payments) /\ 0 \notin 1 .. Len(payments)
  BY Types
<1>3. ps \subseteq Astray(kind)
  BY <1>1, <1>2 DEF Astray
<1>4. Cardinality(ps) <= Cardinality(Astray(kind)) /\ Cardinality(ps) \in Nat
  BY <1>3, AstrayIsFinite, FS_Subset, FS_CardinalityType
<1>5. Failures(kind) \in Nat
  BY Types DEF Failures
<1> QED
  BY <1>4, <1>5, AstrayIsFinite DEF AtMost

\* No fee that its merchant marked as refunded is ever settled, and once no run
\* is at work at most one row is left pending per answer whose body broke off,
\* and one row is settled untaken per refusal of a gate: none of either where
\* nothing of that kind fails (paymentClient.ts paidFetch, 358 and 363-365).
THEOREM BooksAreClosed == Spec => []BooksClosed
<1>1. IInv => BooksClosed
  <2> SUFFICES ASSUME IInv PROVE BooksClosed
    OBVIOUS
  <2>1. \A p \in DOMAIN payments : payments[p].row = "settled" => ~payments[p].refund
    BY Types DEF IInv, Sound
  <2>2. ASSUME Quiet
        PROVE  AtMost({p \in DOMAIN payments : payments[p].row = "pending"}, "body")
    BY <2>2, QuietAstray DEF Lost, Kinds
  <2>3. ASSUME Quiet
        PROVE  AtMost({p \in DOMAIN payments :
                  payments[p].row = "settled" /\ ~payments[p].taken}, "refusal")
    BY <2>3, QuietAstray DEF Lost, Kinds
  <2> QED
    BY <2>1, <2>2, <2>3 DEF BooksClosed
<1> QED
  BY <1>1, Inductive, PTL

\* When no run is at work, every fee a merchant took and kept is in a row that
\* counts, but for one per lost answer: with any number of runs at once and any
\* failures (paymentClient.ts paidFetch, payments.ts paymentGate).
THEOREM BooksMatchMerchants == Spec => []BooksMatch
<1>1. IInv /\ BooksClosed => BooksMatch
  <2> SUFFICES ASSUME IInv, BooksClosed, Quiet
               PROVE  AtMost({p \in DOMAIN payments :
                         /\ payments[p].taken /\ ~payments[p].refund
                         /\ ~Counts(payments[p].row)}, "network")
    BY DEF BooksMatch
  <2>1. \A p \in DOMAIN payments :
          payments[p].taken /\ ~payments[p].refund /\ ~Counts(payments[p].row)
            => Lost("network", provider, payments[p])
    BY Types DEF IInv, Sound, Counts, Payments, Lost
  <2> QED
    BY <2>1, QuietAstray DEF Kinds
<1> QED
  BY <1>1, Inductive, BooksAreClosed, PTL

\* With the Solana provider the ledger's events and the chain's transfers agree
\* once no run is at work, but for one transfer per missing confirmation (tx.ts
\* sendAndConfirmInstructions, paymentClient.ts pay).
THEOREM LedgerMatchesChain == Spec => []LedgerMatches
<1>1. IInv /\ TakenIsPaid => LedgerMatches
  <2> SUFFICES ASSUME IInv, TakenIsPaid, provider = "solana", Quiet
               PROVE  AtMost({p \in DOMAIN payments :
                         payments[p].landed /\ payments[p].event # "confirmed"}, "unconfirmed")
    BY DEF LedgerMatches
  <2> QED
    BY QuietAstray DEF Lost, Kinds
<1> QED
  BY <1>1, Inductive, TakenPaymentsArePaid, PTL

-----------------------------------------------------------------------------
(* The daily counter, one run at a time *)

Confirmed(ps) == {p \in DOMAIN ps : ps[p].event = "confirmed"}

\* What the ledger says was spent.
Paid(ps) == SumFunctionOnSet(Prices(ps), Confirmed(ps))

\* The counter is what the ledger says, but while a run carries the sum that it
\* is about to write.
DailyInv ==
    provider = "solana" =>
        /\ (\A r \in Runs : ~At(r, "count")) => daily = Paid(payments)
        /\ \A r \in Runs : At(r, "count") =>
              calls[r].base = daily /\ Paid(payments) = daily + Fee(r)

LEMMA ConfirmedIsFinite ==
  ASSUME IInv
  PROVE  /\ Confirmed(payments) \subseteq DOMAIN payments /\ IsFiniteSet(Confirmed(payments))
         /\ \A p \in DOMAIN payments :
                Prices(payments)[p] \in Nat /\ Prices(payments)[p] = payments[p].price
         /\ Paid(payments) \in Nat
<1>1. Confirmed(payments) \subseteq 1 .. Len(payments) /\ DOMAIN payments = 1 .. Len(payments)
  BY Types DEF Confirmed
<1>2. IsFiniteSet(Confirmed(payments))
  <2>1. IsFiniteSet(1 .. Len(payments))
    BY Types, FS_Interval
  <2> QED
    BY <1>1, <2>1, FS_Subset
<1>3. \A p \in DOMAIN payments :
         Prices(payments)[p] \in Nat /\ Prices(payments)[p] = payments[p].price
  BY Types DEF Prices, Payments
<1>4. \A p \in Confirmed(payments) : Prices(payments)[p] \in Nat
  BY <1>1, <1>3
<1> QED
  BY <1>1, <1>2, <1>3, <1>4, SumIsNat DEF Paid

\* The ledger confirms nothing new.
LEMMA PaidStays ==
  ASSUME IInv, SamePrices, Confirmed(payments') = Confirmed(payments)
  PROVE  Paid(payments') = Paid(payments)
<1>1. \A p \in Confirmed(payments) : Prices(payments')[p] = Prices(payments)[p]
  BY DEF Confirmed, SamePrices, Prices
<1>2. IsFiniteSet(Confirmed(payments))
  BY ConfirmedIsFinite
<1>3. SumFunctionOnSet(Prices(payments'), Confirmed(payments))
        = SumFunctionOnSet(Prices(payments), Confirmed(payments))
  BY <1>1, <1>2, SumDependsOn
<1> QED
  BY <1>3 DEF Paid

LEMMA DailyStays ==
  ASSUME IInv, DailyInv, NEW r \in Runs, SamePrices,
         Confirmed(payments') = Confirmed(payments),
         \A s \in Runs : s # r => calls'[s] = calls[s],
         provider' = provider, daily' = daily,
         calls[r].at # "count", calls'[r].at # "count"
  PROVE  DailyInv'
<1>1. Paid(payments') = Paid(payments)
  BY PaidStays
<1>2. \A s \in Runs :
         /\ At(s, "count")' <=> At(s, "count")
         /\ At(s, "count") => calls'[s] = calls[s] /\ Fee(s)' = Fee(s)
  BY DEF At, Fee
<1>3. ASSUME NEW s \in Runs, provider = "solana", At(s, "count")
      PROVE  calls'[s].base = daily' /\ Paid(payments') = daily' + Fee(s)'
  <2>1. calls[s].base = daily /\ Paid(payments) = daily + Fee(s)
    BY <1>3 DEF DailyInv
  <2>2. calls'[s] = calls[s] /\ Fee(s)' = Fee(s)
    BY <1>2, <1>3
  <2> QED
    BY <1>1, <2>1, <2>2
<1>4. ASSUME provider = "solana", \A s \in Runs : ~At(s, "count")
      PROVE  daily' = Paid(payments')
  BY <1>1, <1>4 DEF DailyInv
<1>5. ASSUME provider = "solana"
      PROVE  \A s \in Runs : At(s, "count")' =>
                calls'[s].base = daily' /\ Paid(payments') = daily' + Fee(s)'
  BY <1>2, <1>3, <1>5
<1>6. ASSUME provider = "solana", \A s \in Runs : ~At(s, "count")'
      PROVE  daily' = Paid(payments')
  BY <1>2, <1>4, <1>6
<1> QED
  BY <1>5, <1>6 DEF DailyInv

\* Writing one's payment without touching what is confirmed.
LEMMA BookConfirms ==
  ASSUME IInv, NEW r \in Runs, calls[r].at \in Paying, NEW x, Book(r, x),
         x.price = Mine(r).price
  PROVE  /\ SamePrices
         /\ (x.event = "confirmed" <=> Mine(r).event = "confirmed")
               => Confirmed(payments') = Confirmed(payments)
         /\ x.event = "confirmed"
               => Confirmed(payments') = Confirmed(payments) \cup {calls[r].payment}
<1>1. calls[r].payment \in DOMAIN payments /\ Mine(r) = payments[calls[r].payment]
  BY MineFacts, Types
<1>2. /\ DOMAIN payments' = DOMAIN payments
      /\ \A p \in DOMAIN payments :
            payments'[p] = IF p = calls[r].payment THEN x ELSE payments[p]
  BY <1>1 DEF Book
<1> QED
  BY <1>1, <1>2 DEF Confirmed, SamePrices

LEMMA ConfirmDaily ==
  ASSUME IInv, LimitInv, DailyInv, NEW r \in Runs, ConfirmEvent(r)
  PROVE  DailyInv'
<1> DEFINE x == [Mine(r) EXCEPT !.event = "confirmed"]
           i == calls[r].payment
<1>1. calls[r].at = "confirm" /\ calls[r].at \in Paying /\ calls[r].at \in Window
  BY DEF ConfirmEvent, At, Paying, Window
<1>2. provider = "solana" /\ \A s \in Runs : s # r => calls[s].at = "idle"
  BY <1>1 DEF LimitInv, At
<1>3. daily = Paid(payments)
  BY <1>1, <1>2 DEF DailyInv, At
<1>4. /\ Book(r, x) /\ x.price = Mine(r).price /\ x.event = "confirmed"
      /\ Mine(r).price = Fee(r) /\ Mine(r).event # "confirmed"
      /\ Mine(r) = payments[i] /\ i \in DOMAIN payments
  BY <1>1, MineFacts, Types DEF ConfirmEvent, Payments, Holds, Fee
<1>5. /\ calls'[r].at = "count" /\ calls'[r].base = daily /\ calls'[r].phase = calls[r].phase
      /\ \A s \in Runs : s # r => calls'[s] = calls[s]
      /\ daily' = daily /\ provider' = provider
  <2>1. calls[r] \in Frames
    BY Types
  <2> QED
    BY <2>1, Types DEF ConfirmEvent, Become, Frames, plan
<1> HIDE DEF x
<1>6. SamePrices /\ Confirmed(payments') = Confirmed(payments) \cup {i}
  BY <1>1, <1>4, BookConfirms
<1>7. Paid(payments') = Paid(payments) + Fee(r)
  <2> DEFINE S == Confirmed(payments)
             f == Prices(payments)
             g == Prices(payments')
  <2>1. IsFiniteSet(S) /\ i \notin S
    BY <1>4, ConfirmedIsFinite DEF Confirmed
  <2>2. \A p \in S \cup {i} : g[p] = f[p] /\ f[p] \in Int
    BY <1>4, <1>6, ConfirmedIsFinite DEF SamePrices, Prices
  <2>3. f[i] = Fee(r)
    BY <1>4, ConfirmedIsFinite
  <2>4. Paid(payments) = SumFunctionOnSet(f, S)
        /\ Paid(payments') = SumFunctionOnSet(g, S \cup {i})
    BY <1>6 DEF Paid
  <2> HIDE DEF S, f, g, i
  <2>5. SumFunctionOnSet(g, S \cup {i}) = SumFunctionOnSet(f, S \cup {i})
    <3>1. IsFiniteSet(S \cup {i})
      BY <2>1, FS_AddElement
    <3> QED
      BY <2>2, <3>1, SumDependsOn
  <2>6. SumFunctionOnSet(f, S \cup {i}) = SumFunctionOnSet(f, S) + f[i]
    BY <2>1, <2>2, SumWith
  <2> QED
    BY <2>3, <2>4, <2>5, <2>6
<1>8. ASSUME NEW s \in Runs, At(s, "count")'
      PROVE  calls'[s].base = daily' /\ Paid(payments') = daily' + Fee(s)'
  <2>1. s = r
    BY <1>2, <1>5, <1>8 DEF At
  <2>2. Fee(s)' = Fee(r)
    BY <2>1, <1>5 DEF Fee
  <2> QED
    BY <2>1, <2>2, <1>3, <1>5, <1>7
<1>9. At(r, "count")'
  BY <1>5 DEF At
<1> QED
  BY <1>8, <1>9 DEF DailyInv

LEMMA CountDaily ==
  ASSUME IInv, LimitInv, DailyInv, NEW r \in Runs, CountSpend(r)
  PROVE  DailyInv'
<1> DEFINE x == [Mine(r) EXCEPT !.row = "pending"]
<1>1. calls[r].at = "count" /\ calls[r].at \in Paying /\ calls[r].at \in Window
  BY DEF CountSpend, At, Paying, Window
<1>2. provider = "solana" /\ \A s \in Runs : s # r => calls[s].at = "idle"
  BY <1>1 DEF LimitInv, At
<1>3. daily' = Paid(payments)
  BY <1>1, <1>2 DEF DailyInv, At, CountSpend, AddDaily
<1>4. Book(r, x) /\ x.price = Mine(r).price /\ x.event = Mine(r).event
  BY <1>1, MineFacts DEF CountSpend, Payments
<1>5. \A s \in Runs : ~At(s, "count")'
  <2>1. calls[r] \in Frames
    BY Types
  <2>2. calls'[r].at = "send" /\ \A s \in Runs : s # r => calls'[s] = calls[s]
    BY <2>1, Types DEF CountSpend, Become, Frames
  <2> QED
    BY <2>2, <1>2 DEF At
<1> HIDE DEF x
<1>6. Paid(payments') = Paid(payments)
  <2>1. SamePrices /\ Confirmed(payments') = Confirmed(payments)
    BY <1>1, <1>4, BookConfirms
  <2> QED
    BY <2>1, PaidStays
<1> QED
  BY <1>3, <1>5, <1>6 DEF DailyInv

\* No other step touches the counter or confirms anything.
LEMMA RunDaily ==
  ASSUME IInv, LimitInv, DailyInv, NEW r \in Runs,
         \/ Step(r) /\ ~CountSpend(r) /\ ~ConfirmEvent(r)
         \/ NetworkFails(r) \/ TransferUnconfirmed(r) \/ RejectProof(r) \/ Refuse(r)
         \/ AnswerLost(r) \/ BodyBroken(r)
  PROVE  DailyInv'
<1>1. provider' = provider /\ daily' = daily
  BY DEF Step, Discover, Skip, Ask, EndQuoting, EndReserving, EndNegotiating, Done, PayMock,
         PayOnChain, CheckDaily, Transfer, Serve, Settle, NetworkFails, TransferUnconfirmed,
         RejectProof, Refuse, AnswerLost, BodyBroken, Blocked, Issue, plan, books
<1> SUFFICES ASSUME provider = "solana" PROVE DailyInv'
  BY <1>1 DEF DailyInv
<1>2. calls[r] \in Frames /\ calls \in [Runs -> Frames]
  BY Types
<1>3. calls[r].at # "count"
  BY DEF Step, Discover, Skip, Ask, EndQuoting, EndReserving, EndNegotiating, Done, PayMock,
         PayOnChain, CheckDaily, Transfer, Serve, Settle, Visits,
         NetworkFails, TransferUnconfirmed, RejectProof, Refuse, AnswerLost, BodyBroken, At
<1> DEFINE Alone == \A s \in Runs : s # r => calls'[s] = calls[s]
           Calm == calls'[r].at # "count"
<1>4. Throw(r) \/ Become(r, Idle) => Alone /\ Calm
  <2>1. Throw(r) \/ Become(r, Idle) => calls' = [calls EXCEPT ![r] = Idle]
    BY DEF Throw, Become
  <2>2. Throw(r) \/ Become(r, Idle) => Alone /\ calls'[r] = Idle
    BY <2>1, <1>2
  <2> QED
    BY <2>2, IdleIsFrame
<1>5. ASSUME payments' = payments, Alone, Calm PROVE DailyInv'
  BY <1>1, <1>3, <1>5, DailyStays DEF SamePrices
<1>6. ASSUME Discover(r) \/ Skip(r) \/ Ask(r) \/ EndQuoting(r) \/ EndReserving(r)
             \/ EndNegotiating(r) \/ NetworkFails(r)
      PROVE  DailyInv'
  <2>1. payments' = payments
    BY <1>6 DEF Discover, Skip, Ask, EndQuoting, EndReserving, EndNegotiating, Done,
                NetworkFails, books
  <2>2. \A phase \in Phases : Begin(r, phase) => Alone /\ Calm
    BY <1>2, <1>3 DEF Begin, Become, Frames
  <2>3. Discover(r) \/ Skip(r) \/ Ask(r) => Alone /\ Calm
    BY <1>2, <1>3 DEF Discover, Skip, Ask, Become, Frames
  <2>4. EndQuoting(r) \/ EndReserving(r) \/ EndNegotiating(r) \/ NetworkFails(r)
          => Alone /\ Calm
    BY <1>4, <2>2 DEF EndQuoting, EndReserving, EndNegotiating, NetworkFails, Phases
  <2> QED
    BY <1>5, <1>6, <2>1, <2>3, <2>4
<1>7. ASSUME Blocked(r) \/ PayOnChain(r) \/ RejectProof(r) \/ Refuse(r) \/ BodyBroken(r)
      PROVE  DailyInv'
  <2>1. payments' = payments
    BY <1>7 DEF Blocked, PayOnChain, RejectProof, Refuse, BodyBroken, books
  <2>2. \A stage : GoTo(r, stage) /\ stage # "count" => Alone /\ Calm
    BY <1>2 DEF GoTo, Become, Frames
  <2>3. RejectProof(r) \/ Refuse(r) => Alone /\ Calm
    BY <1>2 DEF RejectProof, Refuse, Become, Frames
  <2>4. BodyBroken(r) => Alone /\ Calm
    BY <1>4 DEF BodyBroken
  <2> QED
    BY <1>5, <1>7, <2>1, <2>2, <2>3, <2>4 DEF Blocked, PayOnChain
<1>8. ASSUME CheckDaily(r), ~Blocked(r) PROVE DailyInv'
  <2> DEFINE x == [task |-> calls[r].task, merchant |-> calls[r].merchant,
                   price |-> Fee(r), row |-> "none", event |-> "pending",
                   landed |-> FALSE, taken |-> FALSE, refund |-> FALSE]
             f == [calls[r] EXCEPT !.at = "transfer", !.payment = Len(payments) + 1]
  <2>1. payments' = Append(payments, x) /\ x.event # "confirmed"
        /\ calls' = [calls EXCEPT ![r] = f]
    BY <1>8 DEF CheckDaily, Issue, Become
  <2>2. f.at = "transfer"
    BY <1>2 DEF Frames
  <2> HIDE DEF x, f
  <2>3. Alone /\ Calm
    BY <2>1, <2>2, <1>2
  <2>4. Confirmed(payments') = Confirmed(payments) /\ SamePrices
    <3>1. /\ DOMAIN payments' = 1 .. Len(payments) + 1
          /\ payments'[Len(payments) + 1] = x
          /\ \A p \in 1 .. Len(payments) : payments'[p] = payments[p]
      <4>1. payments \in Seq(Payments)
        BY DEF IInv, TypeOK
      <4> QED
        BY <2>1, <4>1, Types
    <3> QED
      BY <2>1, <3>1, Types DEF Confirmed, SamePrices
  <2> QED
    BY <1>1, <1>3, <2>3, <2>4, DailyStays
<1>9. ASSUME Transfer(r) \/ TransferUnconfirmed(r) \/ Serve(r) \/ AnswerLost(r) \/ Settle(r)
      PROVE  DailyInv'
  <2>1. calls[r].at \in Paying
    BY <1>9 DEF Transfer, TransferUnconfirmed, Serve, AnswerLost, Settle, At, Paying
  <2>2. Alone /\ Calm
    <3>1. Transfer(r) \/ Serve(r) \/ Settle(r) => Alone /\ Calm
      BY <1>2 DEF Transfer, Serve, Settle, GoTo, Become, Frames
    <3> QED
      BY <1>4, <1>9, <3>1 DEF TransferUnconfirmed, AnswerLost
  <2>3. /\ Mine(r) \in Payments
        /\ calls[r].at = "transfer" => Mine(r).event # "confirmed"
    BY <2>1, MineFacts DEF Holds
  <2> DEFINE Harmless ==
        \E x :
          /\ Book(r, x) /\ x.price = Mine(r).price
          /\ x.event = "confirmed" <=> Mine(r).event = "confirmed"
  <2>4. ASSUME Transfer(r) PROVE Harmless
    BY <2>3, <2>4 DEF Transfer, Payments
  <2>5. ASSUME TransferUnconfirmed(r) PROVE Harmless
    <3>1. PICK landed \in BOOLEAN :
            Book(r, [Mine(r) EXCEPT !.event = "failed", !.landed = landed])
      BY <2>5 DEF TransferUnconfirmed
    <3> DEFINE x == [Mine(r) EXCEPT !.event = "failed", !.landed = landed]
    <3>2. x.price = Mine(r).price /\ x.event = "failed"
      BY <2>3 DEF Payments
    <3> QED
      BY <2>3, <2>5, <3>1, <3>2 DEF TransferUnconfirmed, At
  <2>6. ASSUME Serve(r) PROVE Harmless
    <3>1. PICK answer \in {"ok", "declined", "refund"} :
            Book(r, [Mine(r) EXCEPT !.taken = TRUE, !.refund = (answer = "refund")])
      BY <2>6 DEF Serve
    <3> DEFINE x == [Mine(r) EXCEPT !.taken = TRUE, !.refund = (answer = "refund")]
    <3>2. x.price = Mine(r).price /\ x.event = Mine(r).event
      BY <2>3 DEF Payments
    <3> QED
      BY <3>1, <3>2
  <2>7. ASSUME AnswerLost(r) \/ Settle(r) PROVE Harmless
    BY <2>3, <2>7 DEF AnswerLost, Settle, Payments
  <2>8. PICK x : /\ Book(r, x) /\ x.price = Mine(r).price
                 /\ x.event = "confirmed" <=> Mine(r).event = "confirmed"
    BY <1>9, <2>4, <2>5, <2>6, <2>7
  <2>9. SamePrices /\ Confirmed(payments') = Confirmed(payments)
    BY <2>1, <2>8, BookConfirms
  <2> QED
    BY <1>1, <1>3, <2>2, <2>9, DailyStays
<1>10. ~PayMock(r)
  BY DEF PayMock
<1> QED
  BY <1>6, <1>7, <1>8, <1>9, <1>10 DEF Step

LEMMA OthersDaily ==
  ASSUME IInv, DailyInv,
         \/ \E t \in Tasks : RefinePlan(t) \/ PlanReady(t) \/ RefineFails(t)
         \/ \E r \in Runs, t \in Tasks : ApprovePlan(r, t)
  PROVE  DailyInv'
<1>1. UNCHANGED <<provider, payments, daily>>
  BY DEF RefinePlan, PlanReady, RefineFails, ApprovePlan, plan, books
<1>2. ASSUME NEW t \in Tasks, RefinePlan(t) \/ PlanReady(t) \/ RefineFails(t)
      PROVE  DailyInv'
  <2>1. UNCHANGED calls
    BY <1>2 DEF RefinePlan, PlanReady, RefineFails
  <2> QED
    BY <1>1, <2>1 DEF DailyInv, At, Fee
<1>3. ASSUME NEW r \in Runs, NEW t \in Tasks, ApprovePlan(r, t)
      PROVE  DailyInv'
  <2>1. /\ \A s \in Runs : s # r => calls'[s] = calls[s]
        /\ calls[r].at # "count" /\ calls'[r].at # "count"
    BY <1>3, IdleIsFrame, Types DEF ApprovePlan, Become, Frames, At
  <2> QED
    BY <1>1, <2>1, DailyStays DEF SamePrices
<1> QED
  BY <1>2, <1>3

LEMMA DailyStep == IInv /\ LimitInv /\ DailyInv /\ [Next]_vars => DailyInv'
<1> SUFFICES ASSUME IInv, LimitInv, DailyInv, [Next]_vars PROVE DailyInv'
  OBVIOUS
<1>1. CASE UNCHANGED vars
  BY <1>1 DEF vars, DailyInv, At, Fee
<1>2. CASE Next
  BY <1>2, OthersDaily, RunDaily, CountDaily, ConfirmDaily DEF Next
<1> QED
  BY <1>1, <1>2

LEMMA DailyInit == Init => DailyInv
<1> SUFFICES ASSUME Init PROVE DailyInv
  OBVIOUS
<1>1. Confirmed(payments) = {}
  BY DEF Init, Confirmed
<1> QED
  BY <1>1, SumOfNothing, IdleIsFrame DEF Init, DailyInv, Paid, At

\* The bridge's table, the ledger, the chain, the wallet's daily counter and the
\* merchants' gates agree on every payment when no run is at work, but for what
\* the failures of each kind explain, one payment each: under the mock provider with any
\* number of runs at once, under the Solana provider one run at a time, as the
\* counter is read and written in two statements (sessionWallet.ts 44-57).
THEOREM BooksAlwaysAgree ==
  ASSUME "solana" \in Providers => Parallel["solana"] <= 1
  PROVE  Spec => []BooksAgree
<1>1. IInv /\ DailyInv => DailyMatches
  BY DEF DailyInv, DailyMatches, Quiet, At, Cost, Paid, Prices, Confirmed
<1>2. IInv /\ IInv' /\ LimitInv /\ [Next]_vars => LimitInv'
  BY LimitStep
<1>3. Spec => []DailyInv
  BY <1>2, LimitInit, DailyInit, DailyStep, Inductive, PTL DEF Spec
<1>4. TypeOK /\ BooksMatch /\ LedgerMatches /\ DailyMatches => BooksAgree
  BY DEF BooksAgree
<1> QED
  BY <1>1, <1>3, <1>4, Inductive, TypeCorrect, BooksMatchMerchants, LedgerMatchesChain, PTL

================================================================================
