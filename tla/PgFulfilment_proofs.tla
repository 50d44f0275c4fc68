----------------------- MODULE PgFulfilment_proofs -----------------------
(***************************************************************************)
(* Proofs about PgFulfilment, for any orders, any number of escrows and    *)
(* any number of failures. The first part is for any number of calls in    *)
(* flight; the second, from OneCall on, is for one call at a time.         *)
(***************************************************************************)
EXTENDS PgFulfilment, SequenceTheorems, TLAPS

\* An escrow of the order is in one of the states, on the chain as ch shows it.
Shows(ch, o, states) ==
    \E e \in DOMAIN ch : ch[e].order = o /\ ch[e].state \in states

IsOwn(ch, e, o) == e \in DOMAIN ch /\ ch[e].order = o

\* What a call in flight has already seen happen on the chain.
FrameHolds(ch, f) ==
    /\ f.at # "idle" => f.order \in OrderIds
    /\ f.at \in {"link", "pay", "prepare", "prepared", "ready", "readied", "pickup"}
          => IsOwn(ch, f.id, f.order)
    /\ f.at = "prepared" => Shows(ch, f.order, Grounds["preparing"])
    /\ f.at = "readied" => Shows(ch, f.order, Grounds["ready"])
    /\ f.at \in {"close", "complete"} => Shows(ch, f.order, Grounds["completed"])

\* The inductive invariant: a record follows the chain because every call that
\* is about to write it holds the evidence, and evidence is never lost.
IInv ==
    /\ TypeOK
    /\ Len(chain) <= MaxEscrows
    /\ RecordsFollowChain
    /\ LinkedEscrowIsOwn
    /\ SettledMeansReleased
    /\ \A c \in Calls : FrameHolds(chain, calls[c])

-----------------------------------------------------------------------------
(* The chain only moves forward *)

\* What a later state of an escrow still tells of an earlier one.
Later(s, t) ==
    /\ s # "Funded" => t # "Funded"
    /\ s \notin {"Funded", "Preparing"} => t \notin {"Funded", "Preparing"}
    /\ s = "Released" => t = "Released"

Grows ==
    /\ DOMAIN chain \subseteq DOMAIN chain'
    /\ \A e \in DOMAIN chain :
          /\ chain'[e].order = chain[e].order
          /\ Later(chain[e].state, chain'[e].state)

ChainKept == chain' \in Seq(Escrows) /\ Len(chain') <= MaxEscrows /\ Grows

LEMMA ChainFacts ==
  ASSUME IInv
  PROVE  /\ chain \in Seq(Escrows) /\ Len(chain) \in Nat
         /\ DOMAIN chain = 1 .. Len(chain)
         /\ \A e \in DOMAIN chain : chain[e] \in Escrows /\ chain[e].state \in ChainStates
<1>1. chain \in Seq(Escrows) /\ Len(chain) \in Nat /\ DOMAIN chain = 1 .. Len(chain)
  BY LenProperties DEF IInv, TypeOK
<1>2. \A e \in DOMAIN chain : chain[e] \in Escrows
  BY <1>1, ElementOfSeq
<1> QED
  BY <1>1, <1>2 DEF Escrows

LEMMA ChainStands ==
  ASSUME IInv, UNCHANGED chain
  PROVE  ChainKept
BY DEF IInv, TypeOK, ChainKept, Grows, Later

\* One escrow changes its state.
LEMMA ChainMoves ==
  ASSUME IInv, NEW e \in DOMAIN chain, NEW s \in ChainStates,
         SetChain(e, s), Later(chain[e].state, s)
  PROVE  /\ ChainKept
         /\ DOMAIN chain' = DOMAIN chain
         /\ chain'[e].state = s /\ chain'[e].order = chain[e].order
         /\ \A i \in DOMAIN chain : i # e => chain'[i] = chain[i]
<1> DEFINE x == [chain[e] EXCEPT !.state = s]
<1>1. x \in Escrows /\ x.state = s /\ x.order = chain[e].order
  BY ChainFacts DEF Escrows
<1>2. chain' = [chain EXCEPT ![e] = x]
  BY DEF SetChain
<1> HIDE DEF x
<1>3. e \in 1 .. Len(chain) /\ chain \in Seq(Escrows)
  BY ChainFacts
<1>4. /\ chain' \in Seq(Escrows) /\ Len(chain') = Len(chain)
      /\ \A i \in 1 .. Len(chain) : chain'[i] = IF i = e THEN x ELSE chain[i]
  BY <1>1, <1>2, <1>3, ExceptSeq
<1>5. DOMAIN chain' = DOMAIN chain
  BY <1>4, ChainFacts, LenProperties
<1>6. Len(chain') <= MaxEscrows
  BY <1>4 DEF IInv
<1> QED
  BY <1>1, <1>3, <1>4, <1>5, <1>6, ChainFacts DEF ChainKept, Grows, Later

LEMMA ChainAppends ==
  ASSUME IInv, NEW o \in OrderIds \cup {Foreign}, Len(chain) < MaxEscrows,
         chain' = Append(chain, [order |-> o, state |-> "Funded"])
  PROVE  ChainKept
<1> DEFINE x == [order |-> o, state |-> "Funded"]
<1>1. x \in Escrows
  BY DEF Escrows, ChainStates
<1> HIDE DEF x
<1>2. /\ chain' \in Seq(Escrows)
      /\ Len(chain') = Len(chain) + 1
      /\ \A i \in 1 .. Len(chain) : chain'[i] = chain[i]
      /\ DOMAIN chain' = 1 .. Len(chain) + 1
  BY <1>1, ChainFacts, AppendProperties DEF x
<1>3. MaxEscrows \in Nat
  BY FulfilmentAssumption
<1> QED
  BY <1>2, <1>3, ChainFacts DEF ChainKept, Grows, Later

\* Evidence, once on the chain, stays.
LEMMA EvidenceStays ==
  ASSUME ChainKept, NEW o, NEW state \in DOMAIN Grounds,
         Shows(chain, o, Grounds[state])
  PROVE  Shows(chain', o, Grounds[state])
<1>1. PICK e \in DOMAIN chain : chain[e].order = o /\ chain[e].state \in Grounds[state]
  BY DEF Shows
<1>2. /\ e \in DOMAIN chain' /\ chain'[e].order = o
      /\ Later(chain[e].state, chain'[e].state)
  BY <1>1 DEF ChainKept, Grows
<1>3. chain'[e] \in Escrows
  BY <1>2, ElementOfSeq, LenProperties DEF ChainKept
<1>4. chain'[e].state \in ChainStates
  BY <1>3 DEF Escrows
<1>5. state \in {"paid_in_escrow", "preparing", "ready", "completed"}
  BY DEF Grounds
<1>6. chain'[e].state \in Grounds[state]
  BY <1>1, <1>2, <1>4, <1>5 DEF Later, Grounds, ChainStates
<1> QED
  BY <1>2, <1>6 DEF Shows

LEMMA OwnStays ==
  ASSUME ChainKept, NEW e, NEW o, IsOwn(chain, e, o)
  PROVE  IsOwn(chain', e, o)
BY DEF ChainKept, Grows, IsOwn

LEMMA OwnIsEvidence ==
  ASSUME IInv, NEW e, NEW o, IsOwn(chain, e, o)
  PROVE  Shows(chain, o, Grounds["paid_in_escrow"])
BY ChainFacts DEF IsOwn, Shows, Grounds

LEMMA GroundsFacts ==
  /\ DOMAIN Grounds = {"paid_in_escrow", "preparing", "ready", "completed"}
  /\ Grounds["paid_in_escrow"] = ChainStates
  /\ Grounds["preparing"] = ChainStates \ {"Funded"}
  /\ Grounds["ready"] = ChainStates \ {"Funded", "Preparing"}
  /\ Grounds["completed"] = {"Released"}
BY DEF Grounds

LEMMA FrameStays ==
  ASSUME ChainKept, NEW f, FrameHolds(chain, f)
  PROVE  FrameHolds(chain', f)
BY GroundsFacts, EvidenceStays, OwnStays DEF FrameHolds

-----------------------------------------------------------------------------
(* Frames *)

LEMMA CallFacts ==
  ASSUME IInv, NEW c \in Calls
  PROVE  /\ calls[c] \in Frames
         /\ ~At(c, "idle") => calls[c].order \in OrderIds
         /\ FrameHolds(chain, calls[c])
BY DEF IInv, TypeOK, FrameHolds, At

CallsHold ==
    /\ calls' \in [Calls -> Frames]
    /\ \A d \in Calls : FrameHolds(chain', calls'[d])

LEMMA CallsStand ==
  ASSUME IInv, ChainKept, UNCHANGED calls
  PROVE  CallsHold
BY CallFacts, FrameStays DEF CallsHold, IInv, TypeOK

\* A call becomes a frame that holds what it needs.
LEMMA BecomeHolds ==
  ASSUME IInv, ChainKept, NEW c \in Calls, NEW f \in Frames,
         FrameHolds(chain', f), Become(c, f)
  PROVE  CallsHold
<1>1. calls \in [Calls -> Frames]
  BY DEF IInv, TypeOK
<1>2. \A d \in Calls : calls'[d] = IF d = c THEN f ELSE calls[d]
  BY <1>1 DEF Become
<1>3. calls' \in [Calls -> Frames]
  BY <1>1 DEF Become
<1> QED
  BY <1>2, <1>3, CallFacts, FrameStays DEF CallsHold

LEMMA IdleHolds == Idle \in Frames /\ \A ch : FrameHolds(ch, Idle)
BY DEF Idle, Frames, FrameHolds

LEMMA ReturnHolds ==
  ASSUME IInv, ChainKept, NEW c \in Calls, Return(c)
  PROVE  CallsHold
BY IdleHolds, BecomeHolds DEF Return

Stages == {"idle", "link", "pay", "tell", "start", "prepare", "prepared",
           "ready", "readied", "pickup", "close", "complete"}

\* A call that goes on keeps its order, its escrow and who waits for it.
LEMMA GoToHolds ==
  ASSUME IInv, ChainKept, NEW c \in Calls, NEW stage \in Stages,
         ~At(c, "idle"), GoTo(c, stage),
         stage \in {"link", "pay", "prepare", "prepared", "ready", "readied", "pickup"}
            => IsOwn(chain, calls[c].id, calls[c].order),
         stage = "prepared" => Shows(chain', calls[c].order, Grounds["preparing"]),
         stage = "readied" => Shows(chain', calls[c].order, Grounds["ready"]),
         stage \in {"close", "complete"} => Shows(chain', calls[c].order, Grounds["completed"])
  PROVE  CallsHold
<1> DEFINE f == [calls[c] EXCEPT !.at = stage]
<1>1. f \in Frames /\ f.at = stage /\ f.order = calls[c].order /\ f.id = calls[c].id
  BY CallFacts DEF Frames, Stages
<1>2. FrameHolds(chain', f)
  BY <1>1, CallFacts, OwnStays DEF FrameHolds
<1> QED
  BY <1>1, <1>2, BecomeHolds DEF GoTo

-----------------------------------------------------------------------------
(* Records *)

RecordsHold == RecordsFollowChain' /\ LinkedEscrowIsOwn' /\ SettledMeansReleased'

LEMMA RecordFacts ==
  ASSUME IInv, NEW o \in OrderIds
  PROVE  /\ orders[o] \in DOMAIN Grounds => Shows(chain, o, Grounds[orders[o]])
         /\ rows[o].state = "Released" => Shows(chain, o, Grounds["completed"])
         /\ rows[o].id # 0 => IsOwn(chain, rows[o].id, o)
         /\ settled => Shows(chain, o, Grounds["completed"])
BY GroundsFacts DEF IInv, RecordsFollowChain, LinkedEscrowIsOwn, SettledMeansReleased,
   Evidence, Linked, Shows, IsOwn

\* The same facts are what has to be shown after a step.
LEMMA RecordsFromFacts ==
  ASSUME \A o \in OrderIds :
           /\ orders'[o] \in DOMAIN Grounds => Shows(chain', o, Grounds[orders'[o]])
           /\ rows'[o].state = "Released" => Shows(chain', o, Grounds["completed"])
           /\ rows'[o].id # 0 => IsOwn(chain', rows'[o].id, o)
           /\ settled' => Shows(chain', o, Grounds["completed"])
  PROVE  RecordsHold
BY GroundsFacts DEF RecordsHold, RecordsFollowChain, LinkedEscrowIsOwn, SettledMeansReleased,
   Evidence, Linked, Shows, IsOwn

LEMMA RecordsStand ==
  ASSUME IInv, ChainKept, UNCHANGED <<orders, rows, settled>>
  PROVE  RecordsHold
BY RecordFacts, RecordsFromFacts, EvidenceStays, OwnStays, GroundsFacts

OrderStates == {"awaiting_funding", "merchant_rejected", "paid_in_escrow",
                "preparing", "ready", "completed"}

\* An order is written with the evidence at hand.
LEMMA OrderWritten ==
  ASSUME IInv, ChainKept, NEW o \in OrderIds, NEW state \in DOMAIN Grounds,
         Shows(chain', o, Grounds[state]),
         orders' = [orders EXCEPT ![o] = state], UNCHANGED <<rows, settled>>
  PROVE  orders' \in [OrderIds -> OrderStates] /\ RecordsHold
<1>1. orders \in [OrderIds -> OrderStates]
  BY DEF IInv, TypeOK, OrderStates
<1>2. \A p \in OrderIds : orders'[p] = IF p = o THEN state ELSE orders[p]
  BY <1>1
<1>3. orders' \in [OrderIds -> OrderStates]
  BY <1>1, GroundsFacts DEF OrderStates
<1> QED
  BY <1>2, <1>3, RecordFacts, RecordsFromFacts, EvidenceStays, OwnStays, GroundsFacts

\* The task is reported settled only when the orders, as just written, are all
\* completed; then each of them has its evidence.
LEMMA AnnounceHolds ==
  ASSUME IInv, NEW o \in OrderIds, NEW state \in DOMAIN Grounds,
         Shows(chain, o, Grounds[state]), Announce(o, state), UNCHANGED <<chain, rows>>
  PROVE  /\ orders' \in [OrderIds -> OrderStates]
         /\ settled' \in BOOLEAN
         /\ RecordsHold
<1>1. orders \in [OrderIds -> OrderStates]
  BY DEF IInv, TypeOK, OrderStates
<1>2. \A p \in OrderIds : orders'[p] = IF p = o THEN state ELSE orders[p]
  BY <1>1 DEF Announce
<1>3. orders' \in [OrderIds -> OrderStates]
  BY <1>1, GroundsFacts DEF OrderStates, Announce
<1>4. \A p \in OrderIds : orders'[p] \in DOMAIN Grounds => Shows(chain, p, Grounds[orders'[p]])
  BY <1>2, RecordFacts
<1>5. settled' => \A p \in OrderIds : Shows(chain, p, Grounds["completed"])
  <2>1. CASE settled
    BY <2>1, RecordFacts
  <2>2. CASE AllSettled(orders')
    <3>1. \A p \in OrderIds : orders'[p] = "completed"
      BY <1>3, <2>2 DEF AllSettled, OrderStates
    <3> QED
      BY <3>1, <1>4, GroundsFacts
  <2> QED
    BY <2>1, <2>2 DEF Announce
<1>6. settled' \in BOOLEAN
  BY DEF Announce, AllSettled, IInv, TypeOK
<1>7. \A p \in OrderIds : 
        /\ rows'[p].state = "Released" => Shows(chain, p, Grounds["completed"])
        /\ rows'[p].id # 0 => IsOwn(chain, rows'[p].id, p)
  BY RecordFacts
<1> QED
  BY <1>3, <1>4, <1>5, <1>6, <1>7, RecordsFromFacts

-----------------------------------------------------------------------------
(* Wizard, timers, and what a step has to show *)

TypesHold ==
    /\ orders' \in [OrderIds -> OrderStates]
    /\ rows' \in [OrderIds -> [state : {"none", "awaiting_funding", "Funded", "Released"},
                               id : Nat]]
    /\ late' \in BOOLEAN
    /\ timers' \in [{"prepare", "ready"} \X OrderIds -> Nat]
    /\ status' \in {"awaiting_funding", "in_progress", "cancelled"}
    /\ settled' \in BOOLEAN
    /\ wizard' \in Wizards
    /\ failures' \in 0 .. MaxFailures

LEMMA StepHolds ==
  ASSUME TypesHold, ChainKept, RecordsHold, CallsHold
  PROVE  IInv'
BY DEF TypesHold, ChainKept, RecordsHold, CallsHold, IInv, TypeOK, OrderStates

LEMMA Types ==
  ASSUME IInv
  PROVE  /\ orders \in [OrderIds -> OrderStates]
         /\ rows \in [OrderIds -> [state : {"none", "awaiting_funding", "Funded", "Released"},
                                   id : Nat]]
         /\ late \in BOOLEAN
         /\ timers \in [{"prepare", "ready"} \X OrderIds -> Nat]
         /\ status \in {"awaiting_funding", "in_progress", "cancelled"}
         /\ settled \in BOOLEAN
         /\ wizard \in Wizards
         /\ failures \in 0 .. MaxFailures
BY DEF IInv, TypeOK, OrderStates

LEMMA ClosedType == Closed \in Wizards
BY DEF Closed, Wizards

LEMMA SignType ==
  ASSUME NEW todo \in SUBSET OrderIds, NEW id \in Nat, Sign(todo, id)
  PROVE  wizard' \in Wizards
BY DEF Wizards, Sign

LEMMA AnswerTypes ==
  ASSUME IInv, NEW c \in Calls, NEW ok \in BOOLEAN, Answer(c, ok)
  PROVE  wizard' \in Wizards
<1>1. wizard \in Wizards /\ wizard.todo \in SUBSET OrderIds /\ wizard.id + 1 \in Nat
  BY Types DEF Wizards, Closed
<1> QED
  BY <1>1, SignType, ClosedType DEF Answer

LEMMA TimerSet ==
  ASSUME IInv, NEW kind \in {"prepare", "ready"}, NEW o \in OrderIds
  PROVE  /\ [timers EXCEPT ![<<kind, o>>] = @ + 1]
                \in [{"prepare", "ready"} \X OrderIds -> Nat]
         /\ Fires(kind, o) => timers' \in [{"prepare", "ready"} \X OrderIds -> Nat]
<1>1. timers \in [{"prepare", "ready"} \X OrderIds -> Nat]
  BY Types
<1>2. <<kind, o>> \in {"prepare", "ready"} \X OrderIds
  OBVIOUS
<1>3. timers[<<kind, o>>] \in Nat
  BY <1>1, <1>2
<1>4. timers[<<kind, o>>] > 0 => timers[<<kind, o>>] - 1 \in Nat
  BY <1>3
<1> QED
  BY <1>1, <1>2, <1>3, <1>4 DEF Fires

LEMMA Failed ==
  ASSUME IInv, NEW kind, Fail(kind)
  PROVE  failures' \in 0 .. MaxFailures
BY Types, FulfilmentAssumption DEF Fail

-----------------------------------------------------------------------------
(* The chain, the clock and the wizard *)

LEMMA OnChainIInv == ASSUME IInv, OnChain PROVE IInv'
<1> USE DEF OnChain
<1>1. ChainKept
  <2>1. CASE OthersFund
    BY <2>1, ChainAppends DEF OthersFund
  <2>2. ASSUME NEW e \in DOMAIN chain,
               BuyerReleases(e) \/ Refund(e) \/ Dispute(e) \/ Resolve(e)
        PROVE  ChainKept
    <3>1. chain[e].state \in ChainStates
      BY ChainFacts
    <3>2. PICK s \in ChainStates : SetChain(e, s) /\ Later(chain[e].state, s)
      BY <2>2, <3>1 DEF BuyerReleases, Refund, Dispute, Resolve, Later, ChainStates
    <3> QED
      BY <3>2, ChainMoves
  <2> QED
    BY <2>1, <2>2
<1>2. CallsHold /\ RecordsHold
  BY <1>1, CallsStand, RecordsStand DEF records, outcome
<1>3. TypesHold
  BY Types DEF TypesHold, records, outcome
<1> QED
  BY <1>1, <1>2, <1>3, StepHolds

LEMMA DeadlineIInv == ASSUME IInv, DeadlinePasses PROVE IInv'
<1> USE DEF DeadlinePasses, records, outcome
<1>1. ChainKept
  BY ChainStands
<1>2. TypesHold
  BY Types DEF TypesHold
<1> QED
  BY <1>1, <1>2, CallsStand, RecordsStand, StepHolds

LEMMA WizardIInv == ASSUME IInv, StartFunding \/ CloseWizard PROVE IInv'
<1> USE DEF StartFunding, CloseWizard, records, outcome, outside
<1>1. ChainKept
  BY ChainStands
<1>2. wizard' \in Wizards
  <2>1. \A todo \in {Fundable} \cup {{o} : o \in Fundable} : todo \in SUBSET OrderIds
    BY DEF Fundable
  <2>2. Len(chain) + 1 \in Nat
    BY ChainFacts
  <2> QED
    BY <2>1, <2>2, SignType, ClosedType
<1>3. TypesHold
  BY <1>2, Types DEF TypesHold
<1> QED
  BY <1>1, <1>3, CallsStand, RecordsStand, StepHolds

LEMMA FundIInv == ASSUME IInv, Fund PROVE IInv'
<1> USE DEF Fund, records, outcome
<1>0. wizard \in [at : {"sign", "report", "wait"}, order : OrderIds, id : Nat,
                 todo : SUBSET OrderIds]
  BY Types DEF Wizards, Closed
<1>1. wizard.order \in OrderIds /\ [wizard EXCEPT !.at = "report"] \in Wizards
  BY <1>0 DEF Wizards
<1>2. ChainKept
  BY <1>1, ChainStands, ChainAppends
<1>3. wizard' \in Wizards
  BY <1>1, SignType, ClosedType
<1>4. TypesHold
  BY <1>3, Types DEF TypesHold
<1> QED
  BY <1>2, <1>4, CallsStand, RecordsStand, StepHolds

LEMMA CancelIInv == ASSUME IInv, CancelTask PROVE IInv'
<1> USE DEF CancelTask, records, outside
<1>1. ChainKept
  BY ChainStands
<1>2. TypesHold
  BY Types DEF TypesHold
<1> QED
  BY <1>1, <1>2, CallsStand, RecordsStand, StepHolds

-----------------------------------------------------------------------------
(* The bridge *)

LEMMA VerifyHolds ==
  ASSUME IInv, UNCHANGED chain, NEW c \in Calls, NEW o \in OrderIds, NEW e \in Nat,
         NEW by \in {"other", "wizard", "pickup"}, Verifiable(o, e), Verify(c, o, e, by)
  PROVE  CallsHold
<1> DEFINE f == [at |-> "link", order |-> o, id |-> e, by |-> by]
<1>1. f \in Frames /\ FrameHolds(chain', f)
  BY DEF Frames, FrameHolds, Verifiable, IsEscrowOf, IsOwn
<1> QED
  BY <1>1, ChainStands, BecomeHolds DEF Verify

LEMMA VerifyFundingIInv ==
  ASSUME IInv, NEW c \in Calls, VerifyFunding(c) PROVE IInv'
<1> USE DEF VerifyFunding, records, outcome, outside
<1>1. ChainKept
  BY ChainStands
<1>2. /\ wizard \in Wizards /\ wizard.id \in Nat
      /\ wizard.at = "report" => [wizard EXCEPT !.at = "wait"] \in Wizards
  BY Types DEF Wizards, Closed
<1>3. CallsHold
  <2>1. CASE Verifiable(wizard.order, wizard.id)
    <3>1. wizard.order \in OrderIds
      BY <1>2 DEF Wizards, Closed
    <3> QED
      BY <2>1, <3>1, <1>2, VerifyHolds
  <2>2. CASE ~Verifiable(wizard.order, wizard.id)
    BY <2>2, <1>1, CallsStand
  <2> QED
    BY <2>1, <2>2
<1>4. TypesHold
  BY <1>2, ClosedType, Types DEF TypesHold
<1> QED
  BY <1>1, <1>3, <1>4, RecordsStand, StepHolds

LEMMA ReportAgainIInv ==
  ASSUME IInv, NEW c \in Calls, ReportAgain(c) PROVE IInv'
<1> USE DEF ReportAgain, records, outcome, outside
<1>1. ChainKept
  BY ChainStands
<1>2. PICK o \in OrderIds, e \in DOMAIN chain : Verifiable(o, e) /\ Verify(c, o, e, "other")
  OBVIOUS
<1>3. e \in Nat
  BY ChainFacts
<1>4. CallsHold
  BY <1>2, <1>3, VerifyHolds
<1>5. TypesHold
  BY Types DEF TypesHold
<1> QED
  BY <1>1, <1>4, <1>5, RecordsStand, StepHolds

LEMMA LinkEscrowIInv ==
  ASSUME IInv, NEW c \in Calls, LinkEscrow(c) PROVE IInv'
<1> USE DEF LinkEscrow, outcome, outside
<1>1. ChainKept
  BY ChainStands
<1> DEFINE o == calls[c].order
           row == [state |-> "Funded", id |-> calls[c].id]
<1>2. o \in OrderIds /\ calls[c].id \in Nat /\ IsOwn(chain, calls[c].id, o)
  BY CallFacts DEF At, Frames, FrameHolds
<1>3. CallsHold
  BY <1>1, <1>2, GoToHolds DEF At, Stages
<1>4. rows' = [rows EXCEPT ![o] = row]
  OBVIOUS
<1>5. \A p \in OrderIds : rows'[p] = IF p = o THEN row ELSE rows[p]
  BY <1>2, <1>4, Types
<1>6. RecordsHold
  BY <1>2, <1>5, RecordFacts, RecordsFromFacts
<1>7. TypesHold
  BY <1>2, <1>4, Types DEF TypesHold
<1> QED
  BY <1>1, <1>3, <1>6, <1>7, StepHolds

LEMMA PaidInEscrowIInv ==
  ASSUME IInv, NEW c \in Calls, PaidInEscrow(c) PROVE IInv'
<1> USE DEF PaidInEscrow, outcome, outside
<1>1. ChainKept
  BY ChainStands
<1>2. calls[c].order \in OrderIds /\ IsOwn(chain, calls[c].id, calls[c].order)
  BY CallFacts DEF At, FrameHolds
<1>3. Shows(chain', calls[c].order, Grounds["paid_in_escrow"])
  BY <1>2, OwnIsEvidence
<1>4. orders' \in [OrderIds -> OrderStates] /\ RecordsHold
  BY <1>1, <1>2, <1>3, GroundsFacts, OrderWritten
<1>5. CallsHold
  BY <1>1, <1>2, GoToHolds DEF At, Stages
<1>6. TypesHold
  BY <1>4, Types DEF TypesHold
<1> QED
  BY <1>1, <1>4, <1>5, <1>6, StepHolds

LEMMA TellMerchantIInv ==
  ASSUME IInv, NEW c \in Calls, TellMerchant(c) \/ WebhookLost(c) PROVE IInv'
<1> USE DEF TellMerchant, WebhookLost, records, outcome, outside
<1>1. ChainKept
  BY ChainStands
<1>2. calls[c].order \in OrderIds
  BY CallFacts DEF At
<1>3. CallsHold
  BY <1>1, GoToHolds DEF At, Stages
<1>4. timers' \in [{"prepare", "ready"} \X OrderIds -> Nat]
  <2>1. CASE TellMerchant(c)
    <3>1. timers' = [timers EXCEPT ![<<"prepare", calls[c].order>>] = @ + 1]
      BY <2>1
    <3> QED
      BY <3>1, <1>2, TimerSet
  <2>2. CASE WebhookLost(c)
    BY <2>2, Types
  <2> QED
    BY <2>1, <2>2
<1>5. failures' \in 0 .. MaxFailures
  BY Failed, Types
<1>6. TypesHold
  BY <1>4, <1>5, Types DEF TypesHold
<1> QED
  BY <1>1, <1>3, <1>6, RecordsStand, StepHolds

LEMMA StartTaskIInv ==
  ASSUME IInv, NEW c \in Calls, StartTask(c) PROVE IInv'
<1> USE DEF StartTask, records, outside
<1>1. ChainKept
  BY ChainStands
<1>2. TypesHold
  BY AnswerTypes, Types DEF TypesHold
<1> QED
  BY <1>1, <1>2, ReturnHolds, RecordsStand, StepHolds

LEMMA VerifyUserReleaseIInv ==
  ASSUME IInv, NEW c \in Calls, VerifyUserRelease(c) PROVE IInv'
<1> USE DEF VerifyUserRelease, records, outcome, outside
<1>1. ChainKept
  BY ChainStands
<1>2. PICK o \in OrderIds :
        /\ ReleasedOnChain(rows[o].id)
        /\ Become(c, [Idle EXCEPT !.at = "close", !.order = o])
  OBVIOUS
<1> DEFINE f == [Idle EXCEPT !.at = "close", !.order = o]
<1>3. f \in Frames /\ f.at = "close" /\ f.order = o
  BY DEF Idle, Frames
<1>4. Shows(chain', o, Grounds["completed"])
  <2>1. rows[o].id \in DOMAIN chain /\ chain[rows[o].id].state = "Released"
    BY <1>2 DEF ReleasedOnChain
  <2>2. rows[o].id # 0
    BY <2>1, ChainFacts
  <2> QED
    BY <2>1, <2>2, RecordFacts, GroundsFacts DEF IsOwn, Shows
<1>5. FrameHolds(chain', f)
  BY <1>3, <1>4 DEF FrameHolds
<1>6. CallsHold
  BY <1>1, <1>2, <1>3, <1>5, BecomeHolds
<1>7. TypesHold
  BY Types DEF TypesHold
<1> QED
  BY <1>1, <1>6, <1>7, RecordsStand, StepHolds

LEMMA CloseRowIInv ==
  ASSUME IInv, NEW c \in Calls, CloseRow(c) PROVE IInv'
<1> USE DEF CloseRow, outcome, outside
<1>1. ChainKept
  BY ChainStands
<1> DEFINE o == calls[c].order
<1>2. o \in OrderIds /\ Shows(chain', o, Grounds["completed"])
  BY CallFacts DEF At, FrameHolds
<1>3. CallsHold
  BY <1>1, <1>2, GoToHolds DEF At, Stages
<1>4. rows' = [rows EXCEPT ![o].state = "Released"]
  OBVIOUS
<1>5. \A p \in OrderIds : /\ rows'[p].id = rows[p].id
                           /\ p # o => rows'[p] = rows[p]
  BY <1>2, <1>4, Types
<1>6. RecordsHold
  BY <1>2, <1>5, RecordFacts, RecordsFromFacts
<1>7. TypesHold
  BY <1>2, <1>4, Types DEF TypesHold
<1> QED
  BY <1>1, <1>3, <1>6, <1>7, StepHolds

LEMMA CompleteOrderIInv ==
  ASSUME IInv, NEW c \in Calls, CompleteOrder(c) PROVE IInv'
<1> USE DEF CompleteOrder, outside
<1>1. ChainKept
  BY ChainStands
<1>2. calls[c].order \in OrderIds /\ Shows(chain, calls[c].order, Grounds["completed"])
  BY CallFacts DEF At, FrameHolds
<1>3. orders' \in [OrderIds -> OrderStates] /\ settled' \in BOOLEAN /\ RecordsHold
  BY <1>2, GroundsFacts, AnnounceHolds
<1>4. TypesHold
  BY <1>3, Types DEF TypesHold
<1> QED
  BY <1>1, <1>3, <1>4, ReturnHolds, StepHolds

-----------------------------------------------------------------------------
(* The merchant agent *)

LEMMA WorkHolds ==
  ASSUME IInv, UNCHANGED chain, NEW c \in Calls, NEW o \in OrderIds, Linked(o),
         NEW stage \in {"prepare", "ready", "pickup"}, NEW by \in {"other", "pickup"},
         Become(c, Work(stage, o, by))
  PROVE  CallsHold
<1>1. Work(stage, o, by) \in Frames
  BY Types DEF Work, Frames
<1>2. IsOwn(chain, rows[o].id, o)
  BY RecordFacts DEF Linked
<1>3. FrameHolds(chain', Work(stage, o, by))
  BY <1>2 DEF Work, FrameHolds
<1> QED
  BY <1>1, <1>3, ChainStands, BecomeHolds

LEMMA TimerIInv ==
  ASSUME IInv, NEW c \in Calls, NEW o \in OrderIds,
         PrepareDue(c, o) \/ ReadyDue(c, o)
  PROVE  IInv'
<1> USE DEF PrepareDue, ReadyDue, records, outcome, outside
<1>1. ChainKept
  BY ChainStands
<1>2. CallsHold
  BY <1>1, WorkHolds, CallsStand
<1>3. timers' \in [{"prepare", "ready"} \X OrderIds -> Nat]
  BY TimerSet
<1>4. TypesHold
  BY <1>3, Types DEF TypesHold
<1> QED
  BY <1>1, <1>2, <1>4, RecordsStand, StepHolds

LEMMA MerchantWorkIInv ==
  ASSUME IInv, NEW c \in Calls, MerchantReady(c) \/ VerifyPickup(c) PROVE IInv'
<1> USE DEF MerchantReady, VerifyPickup, records, outcome, outside
<1>1. ChainKept
  BY ChainStands
<1>2. CallsHold
  BY WorkHolds
<1>3. TypesHold
  BY Types DEF TypesHold
<1> QED
  BY <1>1, <1>2, <1>3, RecordsStand, StepHolds

\* A transaction that the program accepts leaves its own evidence behind.
LEMMA TransactHolds ==
  ASSUME IInv, NEW c \in Calls, ~At(c, "idle"),
         NEW from, NEW to \in {"Preparing", "Ready", "Released"},
         NEW next \in {"prepared", "readied", "close"},
         IsOwn(chain, calls[c].id, calls[c].order),
         from \subseteq {"Funded", "Preparing", "Ready"},
         \A s \in from : Later(s, to),
         to \in Grounds[IF next = "prepared" THEN "preparing"
                        ELSE IF next = "readied" THEN "ready" ELSE "completed"],
         Transact(c, from, to, next)
  PROVE  ChainKept /\ CallsHold
<1> USE DEF Transact
<1> DEFINE e == calls[c].id
           o == calls[c].order
<1>1. CASE chain[e].state \notin from
  <2>1. UNCHANGED chain /\ Return(c)
    BY <1>1
  <2>2. ChainKept
    BY <2>1, ChainStands
  <2> QED
    BY <2>1, <2>2, ReturnHolds
<1>2. CASE chain[e].state \in from
  <2>1. e \in DOMAIN chain /\ chain[e].order = o /\ to \in ChainStates
    BY DEF IsOwn, ChainStates
  <2>2. /\ ChainKept /\ DOMAIN chain' = DOMAIN chain
        /\ chain'[e].state = to /\ chain'[e].order = o
    BY <1>2, <2>1, ChainMoves
  <2>3. GoTo(c, next)
    BY <1>2
  <2>4. \A state \in DOMAIN Grounds :
           to \in Grounds[state] => Shows(chain', o, Grounds[state])
    BY <2>1, <2>2 DEF Shows
  <2> QED
    BY <2>2, <2>3, <2>4, GroundsFacts, GoToHolds DEF Stages
<1> QED
  BY <1>1, <1>2

LEMMA TransactIInv ==
  ASSUME IInv, NEW c \in Calls, MarkPreparing(c) \/ MarkReady(c) \/ ConfirmPickup(c)
  PROVE  IInv'
<1> USE DEF MarkPreparing, MarkReady, ConfirmPickup, records, outcome
<1>1. ~At(c, "idle") /\ IsOwn(chain, calls[c].id, calls[c].order)
  BY CallFacts DEF At, FrameHolds
<1>2. ChainKept /\ CallsHold
  <2>1. CASE MarkPreparing(c)
    BY <1>1, <2>1, TransactHolds, GroundsFacts DEF Later, ChainStates
  <2>2. CASE MarkReady(c)
    BY <1>1, <2>2, TransactHolds, GroundsFacts DEF Later, ChainStates
  <2>3. CASE ConfirmPickup(c)
    BY <1>1, <2>3, TransactHolds, GroundsFacts DEF Later, ChainStates
  <2> QED
    BY <2>1, <2>2, <2>3
<1>3. TypesHold
  BY Types DEF TypesHold
<1> QED
  BY <1>2, <1>3, RecordsStand, StepHolds

LEMMA OrderPreparingIInv ==
  ASSUME IInv, NEW c \in Calls, OrderPreparing(c) PROVE IInv'
<1> USE DEF OrderPreparing, outside
<1>1. ChainKept
  BY ChainStands
<1>2. calls[c].order \in OrderIds /\ Shows(chain, calls[c].order, Grounds["preparing"])
  BY CallFacts DEF At, FrameHolds
<1>3. orders' \in [OrderIds -> OrderStates] /\ settled' \in BOOLEAN /\ RecordsHold
  BY <1>2, GroundsFacts, AnnounceHolds
<1>4. timers' \in [{"prepare", "ready"} \X OrderIds -> Nat]
  BY <1>2, TimerSet
<1>5. TypesHold
  BY <1>3, <1>4, Types DEF TypesHold
<1> QED
  BY <1>1, <1>3, <1>5, ReturnHolds, StepHolds

LEMMA OrderReadyIInv ==
  ASSUME IInv, NEW c \in Calls, OrderReady(c) PROVE IInv'
<1> USE DEF OrderReady, outside
<1>1. ChainKept
  BY ChainStands
<1>2. /\ calls[c].order \in OrderIds /\ Shows(chain, calls[c].order, Grounds["ready"])
      /\ IsOwn(chain, calls[c].id, calls[c].order)
  BY CallFacts DEF At, FrameHolds
<1>3. orders' \in [OrderIds -> OrderStates] /\ settled' \in BOOLEAN /\ RecordsHold
  BY <1>2, GroundsFacts, AnnounceHolds
<1>4. CallsHold
  BY <1>1, <1>2, ReturnHolds, GoToHolds DEF At, Stages
<1>5. TypesHold
  BY <1>3, Types DEF TypesHold
<1> QED
  BY <1>1, <1>3, <1>4, <1>5, StepHolds

-----------------------------------------------------------------------------
(* Failures *)

LEMMA AbortIInv ==
  ASSUME IInv, NEW c \in Calls, Abort(c) PROVE IInv'
<1> USE DEF Abort, records, outcome, outside
<1>1. ChainKept
  BY ChainStands
<1>2. TypesHold
  BY AnswerTypes, Failed, Types DEF TypesHold
<1> QED
  BY <1>1, <1>2, ReturnHolds, RecordsStand, StepHolds

LEMMA RestartIInv == ASSUME IInv, MerchantRestart PROVE IInv'
<1> USE DEF MerchantRestart, records, outcome, outside
<1>1. ChainKept
  BY ChainStands
<1>2. CallsHold
  <2>1. \A c \in Calls : calls'[c] \in {Idle, calls[c]}
    OBVIOUS
  <2> QED
    BY <2>1, <1>1, IdleHolds, CallFacts, FrameStays DEF CallsHold
<1>3. timers' \in [{"prepare", "ready"} \X OrderIds -> Nat]
  BY Types
<1>4. TypesHold
  BY <1>3, Failed, Types DEF TypesHold
<1> QED
  BY <1>1, <1>2, <1>4, RecordsStand, StepHolds

LEMMA StutterIInv == ASSUME IInv, UNCHANGED vars PROVE IInv'
<1> USE DEF vars
<1>1. ChainKept
  BY ChainStands
<1>2. TypesHold
  BY Types DEF TypesHold
<1> QED
  BY <1>1, <1>2, CallsStand, RecordsStand, StepHolds

-----------------------------------------------------------------------------
(* Invariance *)

LEMMA InitIInv == Init => IInv
<1> SUFFICES ASSUME Init PROVE IInv
  OBVIOUS
<1> USE DEF Init
<1>1. chain \in Seq(Escrows) /\ Len(chain) = 0 /\ DOMAIN chain = {}
  BY EmptySeq
<1>2. /\ Closed \in Wizards /\ Idle \in Frames
  BY DEF Closed, Wizards, Idle, Frames
<1>3. 0 \in 0 .. MaxFailures /\ 0 <= MaxEscrows
  BY FulfilmentAssumption
<1>4. TypeOK
  BY <1>1, <1>2, <1>3 DEF TypeOK
<1>5. RecordsFollowChain /\ LinkedEscrowIsOwn /\ SettledMeansReleased
  BY DEF RecordsFollowChain, LinkedEscrowIsOwn, SettledMeansReleased, Linked, Grounds
<1>6. \A c \in Calls : FrameHolds(chain, calls[c])
  BY IdleHolds
<1> QED
  BY <1>1, <1>3, <1>4, <1>5, <1>6 DEF IInv

\* The inductive invariant: evidence for what a record says or a call is about
\* to write is on the chain, however calls interleave.
THEOREM Invariance == Spec => []IInv
<1>1. Init => IInv
  BY InitIInv
<1>2. IInv /\ [Next]_vars => IInv'
  <2> SUFFICES ASSUME IInv, [Next]_vars PROVE IInv'
    OBVIOUS
  <2>1. CASE UNCHANGED vars
    BY <2>1, StutterIInv
  <2>2. CASE StartFunding \/ CloseWizard \/ Fund
    BY <2>2, WizardIInv, FundIInv
  <2>3. CASE OnChain \/ DeadlinePasses
    BY <2>3, OnChainIInv, DeadlineIInv
  <2>4. CASE CancelTask \/ MerchantRestart
    BY <2>4, CancelIInv, RestartIInv
  <2>5. ASSUME NEW o \in OrderIds, TimerFires(o) PROVE IInv'
    BY <2>5, TimerIInv DEF TimerFires
  <2>6. ASSUME NEW c \in Calls, Step(c) PROVE IInv'
    BY <2>6, VerifyFundingIInv, LinkEscrowIInv, PaidInEscrowIInv, TellMerchantIInv,
       StartTaskIInv, CloseRowIInv, CompleteOrderIInv, TransactIInv,
       OrderPreparingIInv, OrderReadyIInv DEF Step
  <2>7. ASSUME NEW c \in Calls,
               \/ ReportAgain(c) \/ WebhookLost(c) \/ VerifyUserRelease(c)
               \/ MerchantReady(c) \/ VerifyPickup(c) \/ Abort(c)
        PROVE  IInv'
    BY <2>7, ReportAgainIInv, TellMerchantIInv, VerifyUserReleaseIInv,
       MerchantWorkIInv, AbortIInv
  <2> QED
    BY <2>1, <2>2, <2>3, <2>4, <2>5, <2>6, <2>7 DEF Next
<1> QED
  BY <1>1, <1>2, PTL DEF Spec

\* The types of the records, the timers, the chain and every call in flight.
THEOREM TypeCorrect == Spec => []TypeOK
<1>1. IInv => TypeOK
  BY DEF IInv
<1> QED
  BY <1>1, Invariance, PTL

\* However reports, timers, pickups, releases, aborts and restarts interleave,
\* no record claims more than an escrow of that order has done on the chain.
THEOREM RecordsAreGrounded == Spec => []RecordsAreTrue
<1>1. IInv => RecordsAreTrue
  BY DEF IInv, RecordsAreTrue
<1> QED
  BY <1>1, Invariance, PTL

\* The checks of verifyFunding are enough: whatever is reported, and however the
\* reports overlap, an order is only ever linked to an escrow with its own code.
THEOREM LinksAreOwn == Spec => []LinkedEscrowIsOwn
<1>1. IInv => LinkedEscrowIsOwn
  BY DEF IInv
<1> QED
  BY <1>1, Invariance, PTL

\* When task_orders_settled is emitted an escrow under each order's own pickup code has
\* been released, and stays released; its merchant is compared nowhere.
THEOREM SettledIsReleased == Spec => []SettledMeansReleased
<1>1. IInv => SettledMeansReleased
  BY DEF IInv
<1> QED
  BY <1>1, Invariance, PTL

-----------------------------------------------------------------------------
(* The chain lives as EscrowLife says *)

Legal(from, to) ==
    \/ from = "Funded" /\ to = "Preparing"
    \/ from = "Preparing" /\ to = "Ready"
    \/ from \in {"Funded", "Preparing", "Ready"} /\ to = "Disputed"
    \/ from \in {"Funded", "Preparing", "Ready", "Disputed"} /\ to \in {"Released", "Refunded"}

LEMMA LivesFacts ==
  ASSUME IInv
  PROVE  /\ Lives \in [1 .. MaxEscrows -> ChainStates \cup {"None"}]
         /\ \A e \in DOMAIN chain : e \in 1 .. MaxEscrows /\ Lives[e] = chain[e].state
         /\ \A e \in 1 .. MaxEscrows : e \notin DOMAIN chain => Lives[e] = "None"
<1>1. Len(chain) <= MaxEscrows /\ MaxEscrows \in Nat
  BY FulfilmentAssumption DEF IInv
<1> QED
  BY <1>1, ChainFacts DEF Lives

LEMMA MoveRefines ==
  ASSUME IInv, NEW e \in DOMAIN chain, NEW s \in ChainStates, SetChain(e, s),
         Legal(chain[e].state, s)
  PROVE  Life!Next
<1>1. Later(chain[e].state, s)
  BY DEF Legal, Later
<1>2. /\ chain' \in Seq(Escrows) /\ Len(chain') = Len(chain)
      /\ chain'[e].state = s
      /\ \A i \in DOMAIN chain : i # e => chain'[i] = chain[i]
  BY <1>1, ChainMoves, ChainFacts, LenProperties DEF ChainKept
<1>3. e \in 1 .. MaxEscrows /\ Lives[e] = chain[e].state
  BY LivesFacts
<1>4. Lives' = [Lives EXCEPT ![e] = s]
  <2>1. ASSUME NEW j \in 1 .. MaxEscrows
        PROVE  (IF j <= Len(chain') THEN chain'[j].state ELSE "None")
                  = IF j = e THEN s ELSE IF j <= Len(chain) THEN chain[j].state ELSE "None"
    <3>1. j <= Len(chain) => j \in DOMAIN chain
      BY ChainFacts
    <3>2. e <= Len(chain)
      BY ChainFacts
    <3> QED
      BY <1>2, <3>1, <3>2
  <2>2. Lives' = [j \in 1 .. MaxEscrows |->
                    IF j = e THEN s ELSE IF j <= Len(chain) THEN chain[j].state ELSE "None"]
    BY <2>1 DEF Lives
  <2> QED
    BY <2>2, <1>3 DEF Lives
<1>5. Life!Advance(e) \/ Life!Settle(e)
  BY <1>3, <1>4 DEF Legal, Life!Advance, Life!Settle, Life!Becomes
<1> QED
  BY <1>3, <1>5 DEF Life!Next

LEMMA AppendRefines ==
  ASSUME IInv, Len(chain) < MaxEscrows, NEW o \in OrderIds \cup {Foreign},
         chain' = Append(chain, [order |-> o, state |-> "Funded"])
  PROVE  Life!Next
<1> DEFINE i == Len(chain) + 1
           x == [order |-> o, state |-> "Funded"]
<1>1. i \in 1 .. MaxEscrows /\ Len(chain) \in Nat /\ MaxEscrows \in Nat
  BY ChainFacts, FulfilmentAssumption
<1>2. x \in Escrows
  BY DEF Escrows, ChainStates
<1>3. /\ Len(chain') = i
      /\ \A e \in 1 .. Len(chain) : chain'[e] = chain[e]
      /\ chain'[i] = x
  BY <1>2, ChainFacts, AppendProperties
<1>4. Lives' = [Lives EXCEPT ![i] = "Funded"]
  <2> HIDE DEF x
  <2>1. ASSUME NEW j \in 1 .. MaxEscrows
        PROVE  (IF j <= Len(chain') THEN chain'[j].state ELSE "None")
                  = IF j = i THEN "Funded" ELSE IF j <= Len(chain) THEN chain[j].state ELSE "None"
    BY <1>1, <1>3 DEF x
  <2>2. Lives' = [j \in 1 .. MaxEscrows |->
                    IF j = i THEN "Funded" ELSE IF j <= Len(chain) THEN chain[j].state ELSE "None"]
    BY <2>1 DEF Lives
  <2> QED
    BY <2>2, <1>1 DEF Lives
<1>5. Lives[i] = "None" /\ \A j \in 1 .. MaxEscrows : j < i => Lives[j] # "None"
  BY <1>1, LivesFacts, ChainFacts DEF ChainStates
<1>6. Life!Create(i)
  BY <1>4, <1>5 DEF Life!Create, Life!Becomes
<1> QED
  BY <1>1, <1>6 DEF Life!Next

\* Whatever happens, the chain stands still, or one escrow makes a legal move,
\* or one escrow is appended.
LEMMA ChainSteps ==
  ASSUME IInv, [Next]_vars
  PROVE  \/ UNCHANGED chain
         \/ \E e \in DOMAIN chain, s \in ChainStates :
               SetChain(e, s) /\ Legal(chain[e].state, s)
         \/ \E o \in OrderIds \cup {Foreign} :
               /\ Len(chain) < MaxEscrows
               /\ chain' = Append(chain, [order |-> o, state |-> "Funded"])
<1>1. CASE Fund
  <2>1. wizard.order \in OrderIds \cup {Foreign}
    BY Types DEF Wizards, Closed
  <2> QED
    BY <1>1, <2>1 DEF Fund
<1>2. CASE OnChain
  <2>1. CASE OthersFund
    BY <2>1 DEF OthersFund
  <2>2. ASSUME NEW e \in DOMAIN chain,
               BuyerReleases(e) \/ Refund(e) \/ Dispute(e) \/ Resolve(e)
        PROVE  \E s \in ChainStates : SetChain(e, s) /\ Legal(chain[e].state, s)
    <3>1. chain[e].state \in ChainStates
      BY ChainFacts
    <3> QED
      BY <2>2, <3>1 DEF BuyerReleases, Refund, Dispute, Resolve, Legal, ChainStates
  <2> QED
    BY <1>2, <2>1, <2>2 DEF OnChain
<1>3. ASSUME NEW c \in Calls, MarkPreparing(c) \/ MarkReady(c) \/ ConfirmPickup(c)
      PROVE  \/ UNCHANGED chain
             \/ \E e \in DOMAIN chain, s \in ChainStates :
                   SetChain(e, s) /\ Legal(chain[e].state, s)
  <2>1. calls[c].id \in DOMAIN chain
    BY <1>3, CallFacts DEF MarkPreparing, MarkReady, ConfirmPickup, At, FrameHolds, IsOwn
  <2>2. \/ UNCHANGED chain
        \/ \E s \in ChainStates : SetChain(calls[c].id, s) /\ Legal(chain[calls[c].id].state, s)
    BY <1>3 DEF MarkPreparing, MarkReady, ConfirmPickup, Transact, Legal, ChainStates
  <2> QED
    BY <2>1, <2>2
<1>4. ASSUME NEW c \in Calls,
             \/ VerifyFunding(c) \/ LinkEscrow(c) \/ PaidInEscrow(c) \/ TellMerchant(c)
             \/ StartTask(c) \/ CloseRow(c) \/ CompleteOrder(c) \/ OrderPreparing(c)
             \/ OrderReady(c) \/ ReportAgain(c) \/ WebhookLost(c) \/ VerifyUserRelease(c)
             \/ MerchantReady(c) \/ VerifyPickup(c) \/ Abort(c)
      PROVE  UNCHANGED chain
  BY <1>4 DEF VerifyFunding, LinkEscrow, PaidInEscrow, TellMerchant, StartTask, CloseRow,
     CompleteOrder, OrderPreparing, OrderReady, ReportAgain, WebhookLost, VerifyUserRelease,
     MerchantReady, VerifyPickup, Abort, outside
<1>5. ASSUME \/ StartFunding \/ CloseWizard \/ DeadlinePasses \/ CancelTask
             \/ MerchantRestart \/ UNCHANGED vars
             \/ \E o \in OrderIds : TimerFires(o)
      PROVE  UNCHANGED chain
  BY <1>5 DEF StartFunding, CloseWizard, DeadlinePasses, CancelTask, MerchantRestart,
     TimerFires, PrepareDue, ReadyDue, vars, outside
<1> QED
  BY <1>1, <1>2, <1>3, <1>4, <1>5 DEF Next, Step

LEMMA NextRefines == IInv /\ [Next]_vars => [Life!Next]_Lives
<1> SUFFICES ASSUME IInv, [Next]_vars
             PROVE  Life!Next \/ UNCHANGED Lives
  OBVIOUS
<1>1. CASE UNCHANGED chain
  BY <1>1 DEF Lives
<1> QED
  BY <1>1, ChainSteps, MoveRefines, AppendRefines

LEMMA InitRefines == Init => Life!Init
<1> SUFFICES ASSUME Init PROVE Lives = [e \in 1 .. MaxEscrows |-> "None"]
  BY DEF Life!Init
<1>1. Len(chain) = 0
  BY DEF Init
<1> QED
  BY <1>1, FulfilmentAssumption DEF Lives

\* The chain that the browser, the merchants and other users move, with the
\* guards the program enforces, obeys the life cycle the abstract module states.
THEOREM ChainRefinesLife == Spec => ChainFollowsLife
BY InitRefines, NextRefines, Invariance, PTL DEF Spec, ChainFollowsLife, Life!Spec

-----------------------------------------------------------------------------
(* The start of the task *)

LEMMA ChainAlwaysKept ==
  ASSUME IInv, [Next]_vars
  PROVE  ChainKept
<1>1. ASSUME NEW e \in DOMAIN chain, NEW s \in ChainStates, SetChain(e, s),
             Legal(chain[e].state, s)
      PROVE  ChainKept
  <2>1. Later(chain[e].state, s)
    BY <1>1 DEF Legal, Later
  <2> QED
    BY <1>1, <2>1, ChainMoves
<1> QED
  BY <1>1, ChainSteps, ChainStands, ChainAppends

\* Only the last step of verifyFunding puts a task in progress.
LEMMA StatusSteps ==
  ASSUME [Next]_vars
  PROVE  status' \in {status, "cancelled"} \/ \E c \in Calls : StartTask(c)
<1>1. ASSUME NEW c \in Calls,
             \/ VerifyFunding(c) \/ LinkEscrow(c) \/ PaidInEscrow(c) \/ TellMerchant(c)
             \/ CloseRow(c) \/ CompleteOrder(c) \/ OrderPreparing(c)
             \/ OrderReady(c) \/ ReportAgain(c) \/ WebhookLost(c) \/ VerifyUserRelease(c)
             \/ MerchantReady(c) \/ VerifyPickup(c) \/ Abort(c)
             \/ MarkPreparing(c) \/ MarkReady(c) \/ ConfirmPickup(c)
      PROVE  status' = status
  BY <1>1 DEF VerifyFunding, LinkEscrow, PaidInEscrow, TellMerchant, CloseRow,
     CompleteOrder, OrderPreparing, OrderReady, ReportAgain, WebhookLost, VerifyUserRelease,
     MerchantReady, VerifyPickup, Abort, MarkPreparing, MarkReady, ConfirmPickup, outcome
<1>2. ASSUME \/ StartFunding \/ CloseWizard \/ Fund \/ OnChain \/ DeadlinePasses
             \/ CancelTask \/ MerchantRestart \/ UNCHANGED vars
             \/ \E o \in OrderIds : TimerFires(o)
      PROVE  status' \in {status, "cancelled"}
  BY <1>2 DEF StartFunding, CloseWizard, Fund, OnChain, DeadlinePasses, CancelTask,
     MerchantRestart, TimerFires, PrepareDue, ReadyDue, vars, outcome
<1> QED
  BY <1>1, <1>2 DEF Next, Step

LEMMA StartedStays ==
  ASSUME IInv, StartedIsFunded, [Next]_vars
  PROVE  StartedIsFunded'
<1> DEFINE Backed(ch) == \A o \in OrderIds : Shows(ch, o, ChainStates)
<1>1. ChainKept
  BY ChainAlwaysKept
<1>2. Backed(chain) => Backed(chain')
  BY <1>1, EvidenceStays, GroundsFacts
<1>3. ASSUME NEW c \in Calls, StartTask(c), AllFunded
      PROVE  Backed(chain)
  <2>1. \A o \in OrderIds : orders[o] = "paid_in_escrow"
    BY <1>3, Types DEF AllFunded, OrderStates
  <2> QED
    BY <2>1, RecordFacts, GroundsFacts
<1>4. status' = "in_progress" => Backed(chain)
  <2>1. status = "in_progress" => Backed(chain)
    BY DEF StartedIsFunded, Evidence, Shows
  <2>2. ASSUME NEW c \in Calls, StartTask(c), status' = "in_progress"
        PROVE  Backed(chain)
    BY <2>1, <2>2, <1>3 DEF StartTask
  <2> QED
    BY <2>1, <2>2, StatusSteps
<1> QED
  BY <1>2, <1>4 DEF StartedIsFunded, Evidence, Shows

\* With any number of calls in flight, a task is only put in progress when
\* every order of it has an escrow of its own on the chain.
THEOREM StartIsFunded == Spec => []StartedIsFunded
<1>1. Init => StartedIsFunded
  BY DEF Init, StartedIsFunded
<1> QED
  BY <1>1, StartedStays, Invariance, PTL DEF Spec
-----------------------------------------------------------------------------
(* One call at a time *)

\* One request or timer run is in flight at a time.
OneCall == \E r : Calls = {r}

\* What the call in flight has read of an order is still what the records say;
\* an order that is linked but not yet paid is at the second of the two writes.
RowFits(o, f) ==
    /\ f.order = o /\ f.at = "link" =>
          orders[o] = "awaiting_funding" /\ ~Linked(o) /\ f.by # "pickup"
    /\ f.order = o /\ f.at = "pay" =>
          orders[o] = "awaiting_funding" /\ rows[o].id = f.id /\ f.by # "pickup"
    /\ f.order = o /\ f.at \in {"prepare", "prepared"} => orders[o] = "paid_in_escrow"
    /\ f.order = o /\ f.at \in {"ready", "readied"} => orders[o] = "preparing"
    /\ Linked(o) /\ orders[o] = "awaiting_funding" => f.order = o /\ f.at = "pay"

RowsFit == \A o \in OrderIds, c \in Calls : RowFits(o, calls[c])

\* An escrow is in the state, or somebody disputed or settled it on the chain.
Stands(e, state) == chain[e].state \in {state, "Disputed", "Released", "Refunded"}

\* An order at rest says what its escrow says.
Agrees(o) == Linked(o) => TakenOver(o) \/ orders[o] = RecordOf[chain[rows[o].id].state]

\* Between the transaction of a call and its write the chain is one step ahead
\* of the record; the call works with the escrow that is linked.
ChainFits(o, f) ==
    /\ f.order = o /\ f.at \in {"link", "pay", "prepare"} => Stands(f.id, "Funded")
    /\ f.order = o /\ f.at \in {"prepared", "ready"} => Stands(f.id, "Preparing")
    /\ f.order = o /\ f.at \in {"readied", "pickup"} => Stands(f.id, "Ready")
    /\ f.order = o /\ f.at \in {"prepare", "prepared", "ready", "readied", "pickup"} =>
          Linked(o) /\ rows[o].id = f.id
    /\ f.order = o /\ f.at = "pickup" => orders[o] = "ready"
    /\ f.order = o /\ f.at \in {"close", "complete"} => Linked(o) /\ TakenOver(o)
    /\ f.order # o \/ f.at \notin {"link", "pay", "prepared", "readied"} => Agrees(o)

ChainFit == \A o \in OrderIds, c \in Calls : ChainFits(o, calls[c])

\* What a step keeps of the records.
RecordsKept ==
    \A o \in OrderIds :
        /\ Rank[orders'[o]] >= Rank[orders[o]]
        /\ Linked(o) => rows'[o].id = rows[o].id

RowStep == RowsFit' /\ RecordsKept

LEMMA BecomeFacts ==
  ASSUME IInv, NEW c \in Calls, NEW f, Become(c, f)
  PROVE  calls'[c] = f
BY DEF IInv, TypeOK, Become

LEMMA RankFacts ==
  /\ DOMAIN Rank = OrderStates
  /\ Rank["awaiting_funding"] = 0 /\ Rank["merchant_rejected"] = 0
  /\ Rank["paid_in_escrow"] = 1 /\ Rank["preparing"] = 2
  /\ Rank["ready"] = 3 /\ Rank["completed"] = 4
BY DEF Rank, OrderStates

LEMMA OrderFacts ==
  ASSUME IInv, NEW o \in OrderIds
  PROVE  /\ orders[o] \in OrderStates
         /\ Rank[orders[o]] \in 0 .. 4
         /\ rows[o].id \in Nat
         /\ o # Foreign
<1>1. orders[o] \in OrderStates /\ rows[o].id \in Nat /\ o # Foreign
  BY Types, FulfilmentAssumption DEF Foreign
<1> QED
  BY <1>1, RankFacts DEF OrderStates

\* Nothing is written: only the call's own frame has to fit.
LEMMA FrameChanges ==
  ASSUME IInv, NEW r, Calls = {r}, UNCHANGED <<orders, rows>>,
         \A o \in OrderIds : RowFits(o, calls[r]) => RowFits(o, calls[r])'
  PROVE  RowsFit => RowStep
<1>1. r \in Calls /\ \A c \in Calls : c = r
  OBVIOUS
<1>2. RowsFit => RowsFit'
  BY <1>1 DEF RowsFit
<1>3. RecordsKept
  BY OrderFacts DEF RecordsKept
<1> QED
  BY <1>2, <1>3 DEF RowStep

LEMMA CallsAlone ==
  ASSUME IInv, UNCHANGED <<orders, rows, calls>>, RowsFit
  PROVE  RowStep
<1>1. RowsFit'
  BY DEF RowsFit, RowFits, Linked
<1>2. RecordsKept
  BY OrderFacts DEF RecordsKept
<1> QED
  BY <1>1, <1>2 DEF RowStep

\* A call that starts, starts from what it has just read.
LEMMA StartsFit ==
  ASSUME IInv, RowsFit, NEW r, Calls = {r},
         \/ VerifyFunding(r) \/ ReportAgain(r) \/ VerifyUserRelease(r)
         \/ MerchantReady(r) \/ VerifyPickup(r)
         \/ \E o \in OrderIds : PrepareDue(r, o) \/ ReadyDue(r, o)
  PROVE  RowStep
<1>1. r \in Calls
  OBVIOUS
<1> DEFINE f == calls'[r]
<1>2. UNCHANGED <<orders, rows>> /\ At(r, "idle")
  BY DEF VerifyFunding, ReportAgain, VerifyUserRelease, MerchantReady, VerifyPickup,
     PrepareDue, ReadyDue, records
<1>3. CASE UNCHANGED calls
  BY <1>2, <1>3, CallsAlone
<1>4. ASSUME NEW p, NEW e, NEW by \in {"other", "wizard"}, Verifiable(p, e),
             Verify(r, p, e, by)
      PROVE  RowStep
  <2>1. f = [at |-> "link", order |-> p, id |-> e, by |-> by]
    BY <1>4, <1>1, BecomeFacts DEF Verify
  <2>2. ASSUME NEW o \in OrderIds, RowFits(o, calls[r]) PROVE RowFits(o, calls[r])'
    <3>1. Linked(o) => orders[o] # "awaiting_funding"
      BY <2>2, <1>2 DEF RowFits, At
    <3> QED
      BY <2>1, <3>1, <1>2, <1>4 DEF RowFits, Verifiable, Linked
  <2> QED
    BY <2>2, <1>2, FrameChanges
<1>5. ASSUME NEW p, NEW x, Become(r, x), x.order = p,
             \/ x.at \in {"ready"} /\ orders[p] = "preparing"
             \/ x.at \in {"prepare"} /\ orders[p] = "paid_in_escrow"
             \/ x.at \in {"pickup", "close"}
      PROVE  RowStep
  <2>1. f = x
    BY <1>5, <1>1, BecomeFacts
  <2>2. ASSUME NEW o \in OrderIds, RowFits(o, calls[r]) PROVE RowFits(o, calls[r])'
    <3>1. Linked(o) => orders[o] # "awaiting_funding"
      BY <2>2, <1>2 DEF RowFits, At
    <3> QED
      BY <2>1, <3>1, <1>2, <1>5 DEF RowFits, Linked
  <2> QED
    BY <2>2, <1>2, FrameChanges
<1>6. CASE VerifyFunding(r)
  BY <1>6, <1>3, <1>4 DEF VerifyFunding
<1>7. CASE ReportAgain(r)
  BY <1>7, <1>4 DEF ReportAgain
<1>8. CASE VerifyUserRelease(r)
  <2>1. PICK p \in OrderIds : Become(r, [Idle EXCEPT !.at = "close", !.order = p])
    BY <1>8 DEF VerifyUserRelease
  <2>2. LET x == [Idle EXCEPT !.at = "close", !.order = p]
        IN  x.at = "close" /\ x.order = p
    BY DEF Idle
  <2> QED
    BY <2>1, <2>2, <1>5
<1>9. CASE MerchantReady(r)
  <2>1. PICK p \in OrderIds : orders[p] = "preparing" /\ Become(r, Work("ready", p, "other"))
    BY <1>9 DEF MerchantReady
  <2> QED
    BY <2>1, <1>5 DEF Work
<1>10. CASE VerifyPickup(r)
  <2>1. PICK p \in OrderIds :
          Become(r, Work(IF orders[p] = "preparing" THEN "ready" ELSE "pickup", p, "pickup"))
    BY <1>10 DEF VerifyPickup
  <2> QED
    BY <2>1, <1>5 DEF Work
<1>11. ASSUME NEW p \in OrderIds, PrepareDue(r, p) PROVE RowStep
  BY <1>11, <1>3, <1>5 DEF PrepareDue, Work
<1>12. ASSUME NEW p \in OrderIds, ReadyDue(r, p) PROVE RowStep
  BY <1>12, <1>3, <1>5 DEF ReadyDue, Work
<1> QED
  BY <1>6, <1>7, <1>8, <1>9, <1>10, <1>11, <1>12

\* A call that goes on without a write, and one that ends.
LEMMA StagesFit ==
  ASSUME IInv, RowsFit, NEW r, Calls = {r},
         \/ TellMerchant(r) \/ WebhookLost(r) \/ StartTask(r)
         \/ MarkPreparing(r) \/ MarkReady(r) \/ ConfirmPickup(r)
  PROVE  RowStep
<1>1. r \in Calls
  OBVIOUS
<1>2. UNCHANGED <<orders, rows>>
  BY DEF TellMerchant, WebhookLost, StartTask, MarkPreparing, MarkReady, ConfirmPickup, records
<1>3. /\ calls[r].at \in {"tell", "start", "prepare", "ready", "pickup"}
      /\ \/ Return(r)
         \/ GoTo(r, "start") /\ At(r, "tell")
         \/ GoTo(r, "prepared") /\ At(r, "prepare")
         \/ GoTo(r, "readied") /\ At(r, "ready")
         \/ GoTo(r, "close") /\ At(r, "pickup")
  BY DEF TellMerchant, WebhookLost, StartTask, MarkPreparing, MarkReady, ConfirmPickup, Transact, At
<1>4. /\ calls[r] \in Frames
      /\ calls'[r] = Idle
         \/ \E s \in {"start", "prepared", "readied", "close"} :
               /\ calls'[r] = [calls[r] EXCEPT !.at = s]
               /\ s = "prepared" => At(r, "prepare")
               /\ s = "readied" => At(r, "ready")
  BY <1>1, <1>3, CallFacts, BecomeFacts DEF Return, GoTo
<1>5. ASSUME NEW o \in OrderIds, RowFits(o, calls[r]) PROVE RowFits(o, calls[r])'
  <2>1. CASE calls'[r] = Idle
    BY <2>1, <1>2, <1>3, <1>5, OrderFacts DEF RowFits, Linked, Idle
  <2>2. ASSUME NEW s \in {"start", "prepared", "readied", "close"},
               calls'[r] = [calls[r] EXCEPT !.at = s],
               s = "prepared" => At(r, "prepare"), s = "readied" => At(r, "ready")
        PROVE  RowFits(o, calls[r])'
    <3>1. calls'[r].at = s /\ calls'[r].order = calls[r].order
      BY <2>2, <1>4 DEF Frames
    <3> QED
      BY <2>2, <3>1, <1>2, <1>3, <1>5 DEF RowFits, Linked, At
  <2> QED
    BY <2>1, <2>2, <1>4
<1> QED
  BY <1>2, <1>5, FrameChanges

\* Only an order's own call writes it, and it writes what it has read the order to be.
LEMMA OrderWrittenFits ==
  ASSUME IInv, RowsFit, NEW r, Calls = {r}, NEW p \in OrderIds, NEW s \in DOMAIN Grounds,
         orders' = [orders EXCEPT ![p] = s], UNCHANGED rows,
         Rank[s] >= Rank[orders[p]],
         calls'[r] = Idle \/ (calls'[r].order = p /\ calls'[r].at \in {"tell", "pickup"}),
         Linked(p) \/ s # "awaiting_funding",
         calls[r].order = p
  PROVE  RowStep
<1>1. \A o \in OrderIds : orders'[o] = IF o = p THEN s ELSE orders[o]
  BY Types
<1>2. s # "awaiting_funding"
  BY GroundsFacts
<1>3. RecordsKept
  BY <1>1, OrderFacts DEF RecordsKept
<1>4. ASSUME NEW o \in OrderIds, RowFits(o, calls[r]) PROVE RowFits(o, calls[r])'
  BY <1>1, <1>2, <1>4, OrderFacts DEF RowFits, Linked, Idle
<1>5. RowsFit'
  BY <1>4 DEF RowsFit
<1> QED
  BY <1>3, <1>5 DEF RowStep

LEMMA WritesFit ==
  ASSUME IInv, RowsFit, NEW r, Calls = {r},
         \/ LinkEscrow(r) \/ PaidInEscrow(r) \/ CloseRow(r) \/ CompleteOrder(r)
         \/ OrderPreparing(r) \/ OrderReady(r)
  PROVE  RowStep
<1> DEFINE p == calls[r].order
           s == IF At(r, "pay") THEN "paid_in_escrow"
                ELSE IF At(r, "prepared") THEN "preparing"
                ELSE IF At(r, "readied") THEN "ready" ELSE "completed"
<1>1. r \in Calls /\ calls[r] \in Frames /\ ~At(r, "idle") /\ p \in OrderIds
  BY CallFacts DEF LinkEscrow, PaidInEscrow, CloseRow, CompleteOrder, OrderPreparing,
     OrderReady, At
<1>2. RowFits(p, calls[r])
  BY <1>1 DEF RowsFit
<1>3. CASE PaidInEscrow(r) \/ CompleteOrder(r) \/ OrderPreparing(r) \/ OrderReady(r)
  <2>1. /\ orders' = [orders EXCEPT ![p] = s] /\ UNCHANGED rows
        /\ s \in DOMAIN Grounds
    BY <1>3, GroundsFacts DEF PaidInEscrow, CompleteOrder, OrderPreparing, OrderReady, Announce, At
  <2>2. Rank[s] >= Rank[orders[p]]
    BY <1>1, <1>2, <1>3, RankFacts, OrderFacts DEF PaidInEscrow, CompleteOrder, OrderPreparing,
       OrderReady, RowFits, At
  <2>3. Return(r) \/ \E t \in {"tell", "pickup"} : GoTo(r, t)
    BY <1>3 DEF PaidInEscrow, CompleteOrder, OrderPreparing, OrderReady
  <2>4. calls'[r] = Idle \/ (calls'[r].order = p /\ calls'[r].at \in {"tell", "pickup"})
    BY <1>1, <2>3, BecomeFacts DEF Return, GoTo, Frames
  <2>5. s # "awaiting_funding"
    OBVIOUS
  <2> HIDE DEF s
  <2> QED
    BY <1>1, <2>1, <2>2, <2>4, <2>5, OrderWrittenFits
<1>4. CASE LinkEscrow(r) \/ CloseRow(r)
  <2>1. UNCHANGED orders /\ \E t \in {"pay", "complete"} : GoTo(r, t) /\ (t = "pay" <=> LinkEscrow(r))
    BY <1>4 DEF LinkEscrow, CloseRow, At
  <2>2. PICK t \in {"pay", "complete"} : GoTo(r, t) /\ (t = "pay" <=> LinkEscrow(r))
    BY <2>1
  <2>3. calls'[r] = [calls[r] EXCEPT !.at = t]
    BY <1>1, <2>2, BecomeFacts DEF GoTo
  <2>4. calls'[r].at = t /\ calls'[r].order = p /\ calls'[r].id = calls[r].id /\ calls'[r].by = calls[r].by
    BY <1>1, <2>3 DEF Frames
  <2>5. \A o \in OrderIds : o # p => rows'[o] = rows[o]
    BY <1>4, Types DEF LinkEscrow, CloseRow
  <2>6. rows'[p].id = IF t = "pay" THEN calls[r].id ELSE rows[p].id
    BY <1>1, <1>4, <2>2, Types DEF LinkEscrow, CloseRow
  <2>7. /\ t = "pay" => calls[r].at = "link"
        /\ t = "complete" => calls[r].at = "close"
    BY <1>4, <2>2 DEF LinkEscrow, CloseRow, At
  <2>8. ASSUME NEW o \in OrderIds, RowFits(o, calls[r]) PROVE RowFits(o, calls[r])'
    BY <2>1, <2>4, <2>5, <2>6, <2>7, <2>8 DEF RowFits, Linked
  <2>9. RowsFit'
    BY <2>8 DEF RowsFit
  <2>10. RecordsKept
    BY <1>2, <2>1, <2>5, <2>6, <2>7, OrderFacts DEF RecordsKept, RowFits, Linked
  <2> QED
    BY <2>9, <2>10 DEF RowStep
<1> QED
  BY <1>3, <1>4

LEMMA RestartFits ==
  ASSUME IInv, RowsFit, NEW r, Calls = {r}, MerchantRestart
  PROVE  RowStep
<1>1. UNCHANGED <<orders, rows>> /\ (UNCHANGED calls \/ (MerchantCall(calls[r]) /\ calls'[r] = Idle))
  <2>1. calls \in [Calls -> Frames]
    BY DEF IInv, TypeOK
  <2>2. calls' = [c \in Calls |-> IF MerchantCall(calls[c]) THEN Idle ELSE calls[c]]
    BY DEF MerchantRestart
  <2> QED
    BY <2>1, <2>2 DEF MerchantRestart, records
<1>2. CASE UNCHANGED calls
  BY <1>1, <1>2, CallsAlone
<1>3. CASE MerchantCall(calls[r]) /\ calls'[r] = Idle
  <2>1. ASSUME NEW o \in OrderIds, RowFits(o, calls[r]) PROVE RowFits(o, calls[r])'
    BY <1>1, <1>3, <2>1, OrderFacts DEF RowFits, Linked, Idle, MerchantCall
  <2> QED
    BY <1>1, <2>1, FrameChanges
<1> QED
  BY <1>1, <1>2, <1>3

\* With one call at a time that no error stops half-way, every step fits.
LEMMA NextFits ==
  ASSUME IInv, RowsFit, OneCall, "abort" \notin FailureKinds, [Next]_vars
  PROVE  RowStep
<1>1. PICK r : Calls = {r}
  BY DEF OneCall
<1>2. CASE \/ StartFunding \/ Fund \/ CloseWizard \/ OnChain \/ DeadlinePasses \/ CancelTask
           \/ UNCHANGED vars
  <2>1. UNCHANGED <<orders, rows, calls>>
    BY <1>2 DEF StartFunding, Fund, CloseWizard, OnChain, DeadlinePasses, CancelTask, vars, records
  <2> QED
    BY <2>1, CallsAlone
<1>3. CASE MerchantRestart
  BY <1>1, <1>3, RestartFits
<1>4. ASSUME NEW o \in OrderIds, TimerFires(o) PROVE RowStep
  BY <1>1, <1>4, StartsFit DEF TimerFires
<1>5. ~Abort(r)
  BY DEF Abort, Fail
<1>6. ASSUME NEW c \in Calls, Step(c) \/ ReportAgain(c) \/ WebhookLost(c) \/ VerifyUserRelease(c)
             \/ MerchantReady(c) \/ VerifyPickup(c) \/ Abort(c)
      PROVE  RowStep
  <2>1. c = r
    BY <1>1
  <2> QED
    BY <1>1, <1>5, <1>6, <2>1, StartsFit, StagesFit, WritesFit DEF Step
<1> QED
  BY <1>2, <1>3, <1>4, <1>6 DEF Next

LEMMA RowsAlwaysFit ==
  OneCall /\ "abort" \notin FailureKinds => (Spec => []RowsFit)
<1> SUFFICES ASSUME OneCall, "abort" \notin FailureKinds PROVE Spec => []RowsFit
  OBVIOUS
<1>1. Init => RowsFit
  BY FulfilmentAssumption DEF Init, RowsFit, RowFits, Idle, Linked, Foreign
<1>2. IInv /\ RowsFit /\ [Next]_vars => RowsFit'
  BY NextFits DEF RowStep
<1> QED
  BY <1>1, <1>2, Invariance, PTL DEF Spec

\* With one call at a time and none that stops between two of its writes, an
\* order never falls back and never changes its escrow, merchant restarts and lost
\* webhooks included: each write finds the order as the call has read it
\* (verifyFunding, autoPrepare, autoReady, verifyPickup, verifyUserRelease).
THEOREM OrdersNeverRegress ==
  OneCall /\ "abort" \notin FailureKinds => (Spec => NeverRegresses)
<1> SUFFICES ASSUME OneCall, "abort" \notin FailureKinds PROVE Spec => NeverRegresses
  OBVIOUS
<1>1. IInv /\ RowsFit /\ [Next]_vars =>
        [\A o \in OrderIds :
          /\ Rank[orders'[o]] >= Rank[orders[o]]
          /\ Linked(o) => rows'[o].id = rows[o].id]_vars
  BY NextFits DEF RowStep, RecordsKept
<1>2. Spec => []RowsFit
  BY RowsAlwaysFit
<1> QED
  BY <1>1, <1>2, Invariance, PTL DEF Spec, NeverRegresses

-----------------------------------------------------------------------------
(* The records and the chain, one call at a time *)

Gone == {"Disputed", "Released", "Refunded"}

\* The step moves no escrow, or only as somebody may without telling anybody.
Apart ==
    \A e \in DOMAIN chain :
        /\ e \in DOMAIN chain'
        /\ chain'[e].state = chain[e].state \/ chain'[e].state \in Gone

LEMMA EscrowFacts ==
  ASSUME IInv, NEW o \in OrderIds
  PROVE  /\ Linked(o) => rows[o].id \in DOMAIN chain /\ chain[rows[o].id].order = o
         /\ \A e \in DOMAIN chain : chain[e].state \in ChainStates
         /\ 0 \notin DOMAIN chain
BY RecordFacts, ChainFacts DEF Linked, IsOwn

LEMMA FrameEscrow ==
  ASSUME IInv, NEW r \in Calls,
         calls[r].at \in {"link", "pay", "prepare", "prepared", "ready", "readied", "pickup"}
  PROVE  /\ calls[r].order \in OrderIds
         /\ calls[r].id \in DOMAIN chain /\ chain[calls[r].id].order = calls[r].order
BY CallFacts DEF FrameHolds, IsOwn

LEMMA RecordOfFacts ==
  /\ RecordOf["Funded"] = "paid_in_escrow"
  /\ RecordOf["Preparing"] = "preparing"
  /\ RecordOf["Ready"] = "ready"
BY DEF RecordOf

\* An order that agrees with its escrow tells its state, unless that was taken over.
LEMMA AgreesTells ==
  ASSUME IInv, NEW o \in OrderIds, Linked(o), Agrees(o)
  PROVE  /\ orders[o] = "paid_in_escrow" => Stands(rows[o].id, "Funded")
         /\ orders[o] = "preparing" => Stands(rows[o].id, "Preparing")
         /\ orders[o] = "ready" => Stands(rows[o].id, "Ready")
<1>1. chain[rows[o].id].state \in ChainStates
  BY EscrowFacts
<1> QED
  BY <1>1, RecordOfFacts DEF Agrees, TakenOver, Stands, ChainStates

LEMMA StandsAgrees ==
  ASSUME NEW o \in OrderIds, NEW s \in {"Funded", "Preparing", "Ready"},
         Stands(rows[o].id, s), orders[o] = RecordOf[s]
  PROVE  Agrees(o)
BY DEF Agrees, TakenOver, Stands

\* What others do on the chain leaves every call and record in order.
LEMMA ApartFits ==
  ASSUME IInv, ChainFit, Apart, UNCHANGED <<orders, rows, calls>>
  PROVE  ChainFit'
<1> SUFFICES ASSUME NEW o \in OrderIds, NEW c \in Calls PROVE ChainFits(o, calls[c])'
  BY DEF ChainFit
<1>1. ChainFits(o, calls[c])
  BY DEF ChainFit
<1>2. ASSUME NEW e \in DOMAIN chain, NEW s, chain[e].state \in {s} \cup Gone
      PROVE  chain'[e].state \in {s} \cup Gone
  BY <1>2 DEF Apart, Gone
<1>3. calls[c].at \in {"link", "pay", "prepare", "prepared", "ready", "readied", "pickup"}
        => calls[c].id \in DOMAIN chain
  BY FrameEscrow
<1>4. Linked(o) => rows[o].id \in DOMAIN chain
  BY EscrowFacts
<1>5. Agrees(o) => Agrees(o)'
  BY <1>2, <1>4 DEF Agrees, Linked, TakenOver, Gone
<1>6. \A s : calls[c].id \in DOMAIN chain /\ Stands(calls[c].id, s) => Stands(calls[c].id, s)'
  BY <1>2 DEF Stands, Gone
<1>7. Linked(o) /\ TakenOver(o) => TakenOver(o)'
  BY <1>2, <1>4 DEF Linked, TakenOver, Gone
<1>8. Linked(o)' = Linked(o)
  BY DEF Linked
<1> QED
  BY <1>1, <1>3, <1>5, <1>6, <1>7, <1>8 DEF ChainFits

\* A call that starts: everything else is as before.
LEMMA StartsAgree ==
  ASSUME IInv, RowsFit, ChainFit, NEW r, Calls = {r},
         \/ VerifyFunding(r) \/ ReportAgain(r) \/ VerifyUserRelease(r)
         \/ MerchantReady(r) \/ VerifyPickup(r)
         \/ \E o \in OrderIds : PrepareDue(r, o) \/ ReadyDue(r, o)
  PROVE  ChainFit'
<1>1. r \in Calls /\ \A c \in Calls : c = r
  OBVIOUS
<1> DEFINE f == calls'[r]
<1>2. UNCHANGED <<orders, rows, chain>> /\ At(r, "idle")
  BY DEF VerifyFunding, ReportAgain, VerifyUserRelease, MerchantReady, VerifyPickup,
     PrepareDue, ReadyDue, records, outside
<1>3. CASE UNCHANGED calls
  <2>1. Apart
    BY <1>2 DEF Apart
  <2> QED
    BY <1>2, <1>3, <2>1, ApartFits
<1>4. \A o \in OrderIds : Agrees(o) /\ (Linked(o) => orders[o] # "awaiting_funding")
  BY <1>1, <1>2 DEF ChainFit, ChainFits, RowsFit, RowFits, At
<1>5. \A o \in OrderIds : /\ Agrees(o)' /\ Linked(o)' = Linked(o) /\ TakenOver(o)' = TakenOver(o)
  BY <1>2, <1>4 DEF Agrees, Linked, TakenOver
<1>6. ASSUME NEW p, NEW e, NEW by \in {"other", "wizard"}, Verifiable(p, e),
             Verify(r, p, e, by)
      PROVE  ChainFit'
  <2>1. f = [at |-> "link", order |-> p, id |-> e, by |-> by]
    BY <1>6, <1>1, BecomeFacts DEF Verify
  <2>2. f.at = "link" /\ f.order = p /\ Stands(calls[r].id, "Funded")'
    BY <2>1, <1>2, <1>6 DEF Verifiable, Stands
  <2>3. ASSUME NEW o \in OrderIds PROVE ChainFits(o, calls[r])'
    BY <2>2, <1>5 DEF ChainFits
  <2> QED
    BY <1>1, <2>3 DEF ChainFit
<1>7. ASSUME NEW p \in OrderIds, NEW x, Become(r, x), x.order = p, Linked(p),
             \/ x.at = "ready" /\ x.id = rows[p].id /\ orders[p] = "preparing"
             \/ x.at = "prepare" /\ x.id = rows[p].id /\ orders[p] = "paid_in_escrow"
             \/ x.at = "pickup" /\ x.id = rows[p].id /\ orders[p] = "ready"
             \/ x.at = "close" /\ TakenOver(p)
      PROVE  ChainFit'
  <2>1. f = x
    BY <1>7, <1>1, BecomeFacts
  <2>2. /\ x.at = "ready" => Stands(x.id, "Preparing")
        /\ x.at = "prepare" => Stands(x.id, "Funded")
        /\ x.at = "pickup" => Stands(x.id, "Ready")
    BY <1>4, <1>7, AgreesTells
  <2>3. /\ f.at = "ready" => Stands(calls[r].id, "Preparing")'
        /\ f.at = "prepare" => Stands(calls[r].id, "Funded")'
        /\ f.at = "pickup" => Stands(calls[r].id, "Ready")'
    BY <1>2, <2>1, <2>2 DEF Stands
  <2>4. ASSUME NEW o \in OrderIds PROVE ChainFits(o, calls[r])'
    BY <2>1, <2>3, <1>2, <1>5, <1>7 DEF ChainFits
  <2> QED
    BY <1>1, <2>4 DEF ChainFit
<1>8. CASE VerifyFunding(r)
  BY <1>8, <1>3, <1>6 DEF VerifyFunding
<1>9. CASE ReportAgain(r)
  BY <1>9, <1>6 DEF ReportAgain
<1>10. CASE VerifyUserRelease(r)
  <2>1. PICK p \in OrderIds :
          /\ ReleasedOnChain(rows[p].id)
          /\ Become(r, [Idle EXCEPT !.at = "close", !.order = p])
    BY <1>10 DEF VerifyUserRelease
  <2>2. LET x == [Idle EXCEPT !.at = "close", !.order = p]
        IN  x.at = "close" /\ x.order = p
    BY DEF Idle
  <2>3. Linked(p) /\ TakenOver(p)
    BY <2>1, EscrowFacts DEF ReleasedOnChain, Linked, TakenOver
  <2> QED
    BY <2>1, <2>2, <2>3, <1>7
<1>11. \A stage, p, by : /\ Work(stage, p, by).at = stage
                         /\ Work(stage, p, by).order = p
                         /\ Work(stage, p, by).id = rows[p].id
  BY DEF Work
<1>12. CASE MerchantReady(r)
  <2>1. PICK p \in OrderIds : orders[p] = "preparing" /\ Linked(p) /\ Become(r, Work("ready", p, "other"))
    BY <1>12 DEF MerchantReady
  <2> QED
    BY <2>1, <1>7, <1>11
<1>13. CASE VerifyPickup(r)
  <2>1. PICK p \in OrderIds :
          /\ orders[p] \in {"ready", "preparing"} /\ Linked(p)
          /\ Become(r, Work(IF orders[p] = "preparing" THEN "ready" ELSE "pickup", p, "pickup"))
    BY <1>13 DEF VerifyPickup
  <2>2. CASE orders[p] = "preparing"
    BY <2>1, <2>2, <1>7, <1>11
  <2>3. CASE orders[p] = "ready"
    BY <2>1, <2>3, <1>7, <1>11
  <2> QED
    BY <2>1, <2>2, <2>3
<1>14. ASSUME NEW p \in OrderIds, PrepareDue(r, p) PROVE ChainFit'
  BY <1>14, <1>3, <1>7, <1>11 DEF PrepareDue
<1>15. ASSUME NEW p \in OrderIds, ReadyDue(r, p) PROVE ChainFit'
  BY <1>15, <1>3, <1>7, <1>11 DEF ReadyDue
<1> QED
  BY <1>8, <1>9, <1>10, <1>12, <1>13, <1>14, <1>15

\* The call ends or goes on without the chain and without a write.
LEMMA TellsAgree ==
  ASSUME IInv, ChainFit, NEW r, Calls = {r},
         TellMerchant(r) \/ WebhookLost(r) \/ StartTask(r)
  PROVE  ChainFit'
<1>1. r \in Calls /\ (\A c \in Calls : c = r) /\ calls[r] \in Frames
  BY CallFacts
<1>2. UNCHANGED <<orders, rows, chain>> /\ calls[r].at \in {"tell", "start"}
  BY DEF TellMerchant, WebhookLost, StartTask, records, outside, At
<1>3. Return(r) \/ GoTo(r, "start")
  BY DEF TellMerchant, WebhookLost, StartTask
<1>4. calls'[r].at \in {"idle", "start"}
  BY <1>1, <1>3, BecomeFacts DEF Return, GoTo, Idle, Frames
<1>5. \A o \in OrderIds : Agrees(o)
  BY <1>1, <1>2 DEF ChainFit, ChainFits
<1>6. \A o \in OrderIds : Agrees(o)'
  BY <1>2, <1>5 DEF Agrees, Linked, TakenOver
<1>7. \A o \in OrderIds : ChainFits(o, calls[r])'
  BY <1>4, <1>6 DEF ChainFits
<1> QED
  BY <1>1, <1>7 DEF ChainFit

\* A transaction goes through and takes the call to its write.
LEMMA TransactsAgree ==
  ASSUME IInv, RowsFit, ChainFit, NEW r, Calls = {r},
         NEW p, NEW e, p = calls[r].order, e = calls[r].id,
         MarkPreparing(r) \/ MarkReady(r) \/ ConfirmPickup(r)
  PROVE  ChainFit'
<1>1. /\ r \in Calls /\ (\A c \in Calls : c = r) /\ calls[r] \in Frames
      /\ calls[r].at \in {"prepare", "ready", "pickup"}
  BY CallFacts DEF MarkPreparing, MarkReady, ConfirmPickup, At
<1>2. UNCHANGED <<orders, rows>>
  BY DEF MarkPreparing, MarkReady, ConfirmPickup, records
<1>3. p \in OrderIds /\ e \in DOMAIN chain /\ chain[e].order = p
  BY <1>1, FrameEscrow
<1>4. Linked(p) /\ rows[p].id = e /\ Agrees(p)
  BY <1>1, <1>3 DEF ChainFit, ChainFits
<1>5. \A o \in OrderIds \ {p} : Agrees(o)
  BY <1>1 DEF ChainFit, ChainFits
<1>6. CASE Return(r) /\ UNCHANGED chain
  <2>1. calls'[r].at = "idle"
    BY <1>1, <1>6, BecomeFacts DEF Return, Idle
  <2>2. \A o \in OrderIds : Agrees(o)'
    BY <1>2, <1>4, <1>5, <1>6 DEF Agrees, Linked, TakenOver
  <2>3. \A o \in OrderIds : ChainFits(o, calls[r])'
    BY <2>1, <2>2 DEF ChainFits
  <2> QED
    BY <1>1, <2>3 DEF ChainFit
<1>7. ASSUME NEW to, NEW next, SetChain(e, to), GoTo(r, next), Later(chain[e].state, to),
             \/ next = "prepared" /\ to = "Preparing"
             \/ next = "readied" /\ to = "Ready"
             \/ next = "close" /\ to = "Released"
      PROVE  ChainFit'
  <2>4. /\ DOMAIN chain' = DOMAIN chain /\ chain'[e].state = to
        /\ \A i \in DOMAIN chain : i # e => chain'[i] = chain[i]
    BY <1>3, <1>7, ChainMoves DEF ChainStates
  <2>5. calls'[r].at = next /\ calls'[r].order = p /\ calls'[r].id = e
    BY <1>1, <1>7, BecomeFacts DEF GoTo, Frames
  <2>6. ASSUME NEW o \in OrderIds, o # p PROVE Agrees(o)'
    <3>1. Linked(o) => rows[o].id \in DOMAIN chain /\ rows[o].id # e
      BY <1>3, <2>6, EscrowFacts
    <3> QED
      BY <1>2, <1>5, <2>4, <2>6, <3>1 DEF Agrees, Linked, TakenOver
  <2>7. Linked(p)' /\ rows'[p].id = e /\ (to = "Released" => TakenOver(p)')
    BY <1>2, <1>4, <2>4 DEF Linked, TakenOver
  <2>8. Stands(calls[r].id, to)'
    BY <2>4, <2>5 DEF Stands
  <2>9. to = "Released" => Agrees(p)'
    BY <2>7 DEF Agrees
  <2>10. ChainFits(p, calls[r])'
    BY <1>7, <2>5, <2>7, <2>8, <2>9 DEF ChainFits
  <2>11. \A o \in OrderIds : o # p => ChainFits(o, calls[r])'
    BY <2>5, <2>6 DEF ChainFits
  <2> QED
    BY <1>1, <2>10, <2>11 DEF ChainFit
<1>8. CASE MarkPreparing(r)
  BY <1>6, <1>7, <1>8 DEF MarkPreparing, Transact, Later
<1>9. CASE MarkReady(r)
  BY <1>6, <1>7, <1>9 DEF MarkReady, Transact, Later
<1>10. CASE ConfirmPickup(r)
  BY <1>6, <1>7, <1>10 DEF ConfirmPickup, Transact, Later
<1> QED
  BY <1>8, <1>9, <1>10

\* The write that follows brings the record to where the chain is.
LEMMA WritesAgree ==
  ASSUME IInv, RowsFit, ChainFit, NEW r, Calls = {r},
         NEW p, NEW e, p = calls[r].order, e = calls[r].id,
         \/ LinkEscrow(r) \/ PaidInEscrow(r) \/ CloseRow(r) \/ CompleteOrder(r)
         \/ OrderPreparing(r) \/ OrderReady(r)
  PROVE  ChainFit'
<1>1. /\ r \in Calls /\ (\A c \in Calls : c = r) /\ calls[r] \in Frames
      /\ ~At(r, "idle") /\ p \in OrderIds
  BY CallFacts DEF LinkEscrow, PaidInEscrow, CloseRow, CompleteOrder, OrderPreparing,
     OrderReady, At
<1>2. RowFits(p, calls[r]) /\ ChainFits(p, calls[r])
  BY <1>1 DEF RowsFit, ChainFit
<1>3. UNCHANGED chain
  BY DEF LinkEscrow, CloseRow, PaidInEscrow, CompleteOrder, OrderPreparing, OrderReady, outside
<1>4. \A o \in OrderIds : o # p => /\ Agrees(o) /\ orders'[o] = orders[o] /\ rows'[o] = rows[o]
  BY <1>1, Types DEF ChainFit, ChainFits, LinkEscrow, CloseRow, PaidInEscrow, CompleteOrder,
     OrderPreparing, OrderReady, Announce
<1>5. \A o \in OrderIds : o # p => Agrees(o)'
  BY <1>3, <1>4 DEF Agrees, Linked, TakenOver
<1>6. \/ Return(r)
      \/ \E t \in {"pay", "tell", "complete", "pickup"} : GoTo(r, t)
  BY DEF LinkEscrow, CloseRow, PaidInEscrow, CompleteOrder, OrderPreparing, OrderReady
<1>7. calls'[r] = Idle \/ (calls'[r].order = p /\ calls'[r].id = e)
  BY <1>1, <1>6, BecomeFacts DEF Return, GoTo, Frames
<1>8. ASSUME ChainFits(p, calls[r])' PROVE ChainFit'
  <2>1. \A o \in OrderIds : o # p => ChainFits(o, calls[r])'
    BY <1>5, <1>7, OrderFacts DEF ChainFits, Idle
  <2> QED
    BY <1>1, <1>8, <2>1 DEF ChainFit
<1>9. CASE LinkEscrow(r)
  <2>1. /\ calls'[r].at = "pay" /\ calls'[r].order = p /\ calls'[r].id = e
    BY <1>1, <1>9, BecomeFacts DEF LinkEscrow, GoTo, Frames
  <2>2. Stands(e, "Funded")
    BY <1>2, <1>9 DEF ChainFits, LinkEscrow, At
  <2>3. Stands(calls[r].id, "Funded")'
    BY <1>3, <2>1, <2>2 DEF Stands
  <2> QED
    BY <1>8, <2>1, <2>3 DEF ChainFits
<1>10. CASE CloseRow(r)
  <2>1. /\ calls'[r].at = "complete" /\ calls'[r].order = p
    BY <1>1, <1>10, BecomeFacts DEF CloseRow, GoTo, Frames
  <2>2. Linked(p) /\ TakenOver(p)
    BY <1>2, <1>10 DEF ChainFits, CloseRow, At
  <2>3. rows'[p].id = rows[p].id
    BY <1>1, <1>10, Types DEF CloseRow
  <2>4. Linked(p)' /\ TakenOver(p)' /\ Agrees(p)'
    BY <1>3, <2>2, <2>3 DEF Linked, TakenOver, Agrees
  <2> QED
    BY <1>8, <2>1, <2>4 DEF ChainFits
<1>11. ASSUME NEW s \in {"Funded", "Preparing", "Ready"},
              Stands(e, s), rows[p].id = e, Linked(p), orders'[p] = RecordOf[s], UNCHANGED rows,
              \/ calls'[r].at \in {"idle", "tell"}
              \/ calls'[r].at = "pickup" /\ calls'[r].order = p /\ calls'[r].id = e /\ s = "Ready"
       PROVE  ChainFit'
  <2>1. Stands(e, s)' /\ Agrees(p)'
    BY <1>3, <1>11 DEF Stands, Agrees, Linked, TakenOver
  <2>2. calls'[r].at = "pickup" =>
           Linked(p)' /\ rows'[p].id = calls'[r].id /\ orders'[p] = "ready"
           /\ Stands(calls[r].id, "Ready")'
    BY <1>3, <1>11, RecordOfFacts DEF Stands, Linked
  <2>3. ChainFits(p, calls[r])'
    BY <1>11, <2>1, <2>2 DEF ChainFits
  <2> QED
    BY <1>8, <2>3
<1>12. CASE PaidInEscrow(r)
  <2>1. At(r, "pay") /\ orders'[p] = "paid_in_escrow" /\ UNCHANGED rows /\ GoTo(r, "tell")
    BY <1>1, <1>12, Types DEF PaidInEscrow
  <2>2. calls'[r].at = "tell"
    BY <1>1, <2>1, BecomeFacts DEF GoTo, Frames
  <2>3. Stands(e, "Funded") /\ rows[p].id = e
    BY <1>2, <2>1 DEF ChainFits, RowFits, At
  <2>4. Linked(p)
    BY <1>1, <2>1, <2>3, FrameEscrow, EscrowFacts DEF Linked, At
  <2> QED
    BY <1>11, <2>1, <2>2, <2>3, <2>4, RecordOfFacts
<1>13. CASE OrderPreparing(r)
  <2>1. At(r, "prepared") /\ orders'[p] = "preparing" /\ UNCHANGED rows /\ Return(r)
    BY <1>1, <1>13, Types DEF OrderPreparing, Announce
  <2>2. calls'[r].at = "idle"
    BY <1>1, <2>1, BecomeFacts DEF Return, Idle
  <2>3. Stands(e, "Preparing") /\ rows[p].id = e /\ Linked(p)
    BY <1>2, <2>1 DEF ChainFits, At
  <2> QED
    BY <1>11, <2>1, <2>2, <2>3, RecordOfFacts
<1>14. CASE OrderReady(r)
  <2>1. At(r, "readied") /\ orders'[p] = "ready" /\ UNCHANGED rows /\ (Return(r) \/ GoTo(r, "pickup"))
    BY <1>1, <1>14, Types DEF OrderReady, Announce
  <2>2. \/ calls'[r].at = "idle"
        \/ calls'[r].at = "pickup" /\ calls'[r].order = p /\ calls'[r].id = e
    BY <1>1, <2>1, BecomeFacts DEF Return, GoTo, Idle, Frames
  <2>3. Stands(e, "Ready") /\ rows[p].id = e /\ Linked(p)
    BY <1>2, <2>1 DEF ChainFits, At
  <2> QED
    BY <1>11, <2>1, <2>2, <2>3, RecordOfFacts
<1>15. CASE CompleteOrder(r)
  <2>1. At(r, "complete") /\ UNCHANGED rows /\ Return(r)
    BY <1>15 DEF CompleteOrder
  <2>2. calls'[r].at = "idle"
    BY <1>1, <2>1, BecomeFacts DEF Return, Idle
  <2>3. Linked(p) /\ TakenOver(p)
    BY <1>2, <2>1 DEF ChainFits, At
  <2>4. Agrees(p)'
    BY <1>3, <2>1, <2>3 DEF Agrees, Linked, TakenOver
  <2> QED
    BY <1>8, <2>2, <2>4 DEF ChainFits
<1> QED
  BY <1>9, <1>10, <1>12, <1>13, <1>14, <1>15

\* What buyers, others and the arbiter do on the chain keeps the calls apart from it.
LEMMA OthersApart ==
  ASSUME IInv, OnChain \/ Fund
  PROVE  Apart
<1>1. CASE UNCHANGED chain
  BY <1>1 DEF Apart
<1>2. ASSUME NEW o \in OrderIds \cup {Foreign},
             chain' = Append(chain, [order |-> o, state |-> "Funded"])
      PROVE  Apart
  <2>1. [order |-> o, state |-> "Funded"] \in Escrows
    BY DEF Escrows, ChainStates
  <2>2. /\ DOMAIN chain' = 1 .. Len(chain) + 1
        /\ \A i \in 1 .. Len(chain) : chain'[i] = chain[i]
    BY <1>2, <2>1, ChainFacts, AppendProperties
  <2> QED
    BY <2>2, ChainFacts DEF Apart
<1>3. ASSUME NEW e \in DOMAIN chain, NEW s \in Gone, SetChain(e, s), Later(chain[e].state, s)
      PROVE  Apart
  BY <1>3, ChainMoves DEF Apart, Gone, ChainStates
<1>4. CASE Fund
  <2>1. wizard.order \in OrderIds \cup {Foreign}
    BY Types DEF Wizards, Closed
  <2> QED
    BY <1>1, <1>2, <1>4, <2>1 DEF Fund
<1>5. CASE OnChain
  <2>1. ASSUME NEW e \in DOMAIN chain,
               BuyerReleases(e) \/ Refund(e) \/ Dispute(e) \/ Resolve(e)
        PROVE  Apart
    <3>1. \E s \in Gone : SetChain(e, s) /\ Later(chain[e].state, s)
      BY <2>1 DEF BuyerReleases, Refund, Dispute, Resolve, Later, Gone
    <3> QED
      BY <3>1, <1>3
  <2> QED
    BY <1>2, <1>5, <2>1 DEF OnChain, OthersFund
<1> QED
  BY <1>4, <1>5

LEMMA NextAgrees ==
  ASSUME IInv, RowsFit, ChainFit, OneCall, FailureKinds \subseteq {"offline"}, [Next]_vars
  PROVE  ChainFit'
<1>1. PICK r : Calls = {r}
  BY DEF OneCall
<1>2. CASE OnChain \/ Fund
  <2>1. UNCHANGED <<orders, rows, calls>>
    BY <1>2 DEF OnChain, Fund, records
  <2> QED
    BY <1>2, <2>1, OthersApart, ApartFits
<1>3. CASE StartFunding \/ CloseWizard \/ DeadlinePasses \/ CancelTask \/ UNCHANGED vars
  <2>1. UNCHANGED <<orders, rows, calls, chain>>
    BY <1>3 DEF StartFunding, CloseWizard, DeadlinePasses, CancelTask, vars, records, outside
  <2>2. Apart
    BY <2>1 DEF Apart
  <2> QED
    BY <2>1, <2>2, ApartFits
<1>4. ASSUME NEW o \in OrderIds, TimerFires(o) PROVE ChainFit'
  BY <1>1, <1>4, StartsAgree DEF TimerFires
<1>5. ~MerchantRestart /\ ~Abort(r)
  BY DEF MerchantRestart, Abort, Fail
<1>6. ASSUME NEW c \in Calls, Step(c) \/ ReportAgain(c) \/ WebhookLost(c) \/ VerifyUserRelease(c)
             \/ MerchantReady(c) \/ VerifyPickup(c) \/ Abort(c)
      PROVE  ChainFit'
  <2>1. c = r
    BY <1>1
  <2> QED
    BY <1>1, <1>5, <1>6, <2>1, StartsAgree, TellsAgree, TransactsAgree, WritesAgree DEF Step
<1> QED
  BY <1>2, <1>3, <1>4, <1>5, <1>6 DEF Next

\* With one call at a time that runs to its end, a record at rest says what its
\* escrow says, lost webhooks and direct transactions on the chain included: each
\* handler writes the state its transaction has just reached (autoPrepare,
\* autoReady, verifyPickup, verifyFunding).
THEOREM RecordsAgreeAtRest ==
  OneCall /\ FailureKinds \subseteq {"offline"} => (Spec => []RecordsAgree)
<1> SUFFICES ASSUME OneCall, FailureKinds \subseteq {"offline"} PROVE Spec => []RecordsAgree
  OBVIOUS
<1>1. Init => ChainFit
  BY FulfilmentAssumption DEF Init, ChainFit, ChainFits, Idle, Linked, Foreign, Agrees
<1>2. IInv /\ RowsFit /\ ChainFit /\ [Next]_vars => ChainFit'
  BY NextAgrees
<1>3. Spec => []RowsFit
  BY RowsAlwaysFit
<1>4. ChainFit => RecordsAgree
  <2> SUFFICES ASSUME ChainFit, NEW o \in OrderIds, Quiet(o) PROVE Agrees(o)
    BY DEF RecordsAgree, Agrees
  <2>1. PICK r : Calls = {r}
    BY DEF OneCall
  <2>2. ChainFits(o, calls[r]) /\ (calls[r].at = "idle" \/ calls[r].order # o)
    BY <2>1 DEF ChainFit, Quiet, At
  <2> QED
    BY <2>2 DEF ChainFits
<1> QED
  BY <1>1, <1>2, <1>3, <1>4, Invariance, PTL DEF Spec

=============================================================================
