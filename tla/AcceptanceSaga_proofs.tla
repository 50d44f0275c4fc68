----------------------- MODULE AcceptanceSaga_proofs -----------------------
(***************************************************************************)
(* Proofs about AcceptanceSaga, for every set of merchants and baskets and *)
(* any number of failures. The first part (types, final decisions, escrow  *)
(* rows) is for any number of requests in flight; the second, from         *)
(* OneAtATime on, is for one request at a time.                            *)
(***************************************************************************)
EXTENDS AcceptanceSaga, SequenceTheorems, FiniteSetTheorems, TLAPS

\* What a frame points to exists among the first n orders.
FrameFits(f, n) ==
    /\ f.at \in {"resolve", "notify", "saga", "escrow", "restocked"} => f.order \in 1 .. n
    /\ f.at = "escrow" => f.code # 0
    /\ f.at = "resolve" => f.acceptance \in 1 .. n /\ f.decision # "none"
    /\ f.at = "window" => f.shops # <<>>
    /\ f.todo \subseteq 1 .. n
    /\ f.rows \subseteq 1 .. n

\* The inductive invariant: the types hold because no frame of a request in
\* flight points outside the tables, which never shrink.
IInv ==
    /\ TypeOK
    /\ \A c \in Calls : FrameFits(calls[c], Len(orders))

Statuses == {"pending", "accepted", "rejected", "expired"}

-----------------------------------------------------------------------------
(* Frames *)

Stages == {"idle", "window", "resolve", "notify", "saga", "funding",
           "opening", "escrow", "cancel", "restocked", "expire"}

LEMMA IdleFits == Idle \in Frames /\ \A n \in Nat : FrameFits(Idle, n)
<1>1. <<>> \in Seq(Shops)
  BY EmptySeq
<1> QED
  BY <1>1 DEF Idle, Frames, FrameFits

\* A slot changes to a frame that fits; the tables may have grown.
LEMMA BecomeFits ==
  ASSUME IInv, NEW c \in Calls, NEW f \in Frames, NEW n \in Nat,
         n >= Len(orders), FrameFits(f, n), Become(c, f)
  PROVE  /\ calls' \in [Calls -> Frames]
         /\ \A d \in Calls : FrameFits(calls'[d], n)
<1>1. Len(orders) \in Nat /\ 1 .. Len(orders) \subseteq 1 .. n
  BY LenProperties DEF IInv, TypeOK
<1>2. calls' \in [Calls -> Frames]
  BY DEF Become, IInv, TypeOK
<1>3. ASSUME NEW d \in Calls PROVE FrameFits(calls'[d], n)
  <2>1. CASE d = c
    BY <2>1 DEF Become, IInv, TypeOK
  <2>2. CASE d # c
    <3>1. calls'[d] = calls[d]
      BY <2>2 DEF Become, IInv, TypeOK
    <3>2. FrameFits(calls[d], Len(orders))
      BY DEF IInv
    <3> QED
      BY <1>1, <3>1, <3>2 DEF FrameFits
  <2> QED
    BY <2>1, <2>2
<1> QED
  BY <1>2, <1>3

LEMMA StageFits ==
  ASSUME IInv, NEW c \in Calls, NEW at \in Stages
  PROVE  /\ Stage(c, at) \in Frames
         /\ Stage(c, at).at = at
         /\ Stage(c, at).shops = <<>>
         /\ Stage(c, at).todo = {}
         /\ Stage(c, at).rows = calls[c].rows
         /\ calls[c].rows \in SUBSET (1 .. Len(orders))
<1>1. calls[c] \in Frames /\ FrameFits(calls[c], Len(orders))
  BY DEF IInv, TypeOK
<1>2. calls[c].rows \in SUBSET (1 .. Len(orders)) /\ calls[c].rows \in SUBSET Nat
  BY <1>1 DEF Frames, FrameFits
<1>3. Stage(c, at) \in Frames
  BY <1>2, IdleFits DEF Stage, Frames, Stages
<1>4. /\ Stage(c, at).at = at
      /\ Stage(c, at).shops = <<>>
      /\ Stage(c, at).todo = {}
      /\ Stage(c, at).rows = calls[c].rows
  BY DEF Stage, Idle
<1> QED
  BY <1>2, <1>3, <1>4

LEMMA ReturnFits ==
  ASSUME IInv, NEW c \in Calls, NEW n \in Nat, n >= Len(orders), Return(c)
  PROVE  /\ calls' \in [Calls -> Frames]
         /\ \A d \in Calls : FrameFits(calls'[d], n)
<1>1. Len(orders) \in Nat
  BY LenProperties DEF IInv, TypeOK
<1>2. Resume(c) \in Frames /\ FrameFits(Resume(c), n)
  <2>1. CASE calls[c].rows = {}
    BY <2>1, IdleFits DEF Resume
  <2>2. CASE calls[c].rows # {}
    <3>1. 1 .. Len(orders) \subseteq 1 .. n
      BY <1>1
    <3>2. "expire" \in Stages
      BY DEF Stages
    <3>3. FrameFits(Stage(c, "expire"), n)
      BY <3>1, <3>2, StageFits DEF FrameFits
    <3> QED
      BY <2>2, <3>2, <3>3, StageFits DEF Resume
  <2> QED
    BY <2>1, <2>2
<1> QED
  BY <1>2, BecomeFits DEF Return

LEMMA ThrowFits ==
  ASSUME IInv, NEW c \in Calls, Throw(c)
  PROVE  /\ calls' \in [Calls -> Frames]
         /\ \A d \in Calls : FrameFits(calls'[d], Len(orders))
<1>1. Len(orders) \in Nat
  BY LenProperties DEF IInv, TypeOK
<1> QED
  BY <1>1, IdleFits, BecomeFits DEF Throw

-----------------------------------------------------------------------------
(* Tables *)

LEMMA TableFacts ==
  ASSUME IInv
  PROVE  /\ Len(orders) \in Nat
         /\ DOMAIN orders = 1 .. Len(orders)
         /\ DOMAIN acceptances = 1 .. Len(orders)
         /\ DOMAIN escrows = 1 .. Len(orders)
         /\ \A o \in 1 .. Len(orders) : orders[o] \in Orders
         /\ \A o \in 1 .. Len(orders) : escrows[o] \in Nat
         /\ \A states : InState(states) \in SUBSET (1 .. Len(orders))
BY LenProperties DEF IInv, TypeOK, InState

LEMMA FunctionIsSeq ==
  ASSUME NEW S, NEW n \in Nat, NEW f \in [1 .. n -> S]
  PROVE  f \in Seq(S) /\ Len(f) = n
OBVIOUS

\* One order changes.
LEMMA OrderChange ==
  ASSUME IInv, NEW o \in 1 .. Len(orders), NEW x \in Orders,
         orders' = [orders EXCEPT ![o] = x]
  PROVE  orders' \in Seq(Orders) /\ Len(orders') = Len(orders)
BY ExceptSeq DEF IInv, TypeOK

LEMMA StateChange ==
  ASSUME IInv, NEW o \in 1 .. Len(orders), NEW st \in OrderStates,
         SetOrderState(o, st)
  PROVE  orders' \in Seq(Orders) /\ Len(orders') = Len(orders)
<1>1. [orders[o] EXCEPT !.state = st] \in Orders
  BY TableFacts DEF Orders
<1>2. orders' = [orders EXCEPT ![o] = [orders[o] EXCEPT !.state = st]]
  BY DEF SetOrderState
<1> QED
  BY <1>1, <1>2, OrderChange

\* A step that keeps the length of the tables keeps the invariant if it keeps
\* the types and its frames fit.
LEMMA Assemble ==
  ASSUME IInv, TypeOK', Len(orders') = Len(orders),
         \A d \in Calls : FrameFits(calls'[d], Len(orders))
  PROVE  IInv'
BY DEF IInv

-----------------------------------------------------------------------------
(* One lemma per action *)

LEMMA InitIInv == Init => IInv
<1> SUFFICES ASSUME Init PROVE IInv
  OBVIOUS
<1>1. /\ <<>> \in Seq(Orders) /\ <<>> \in Seq(Statuses) /\ <<>> \in Seq(Nat)
      /\ Len(orders) = 0 /\ Len(acceptances) = 0 /\ Len(escrows) = 0
  BY EmptySeq DEF Init
<1>2. calls \in [Calls -> Frames] /\ \A c \in Calls : FrameFits(calls[c], 0)
  BY IdleFits DEF Init
<1>3. TypeOK
  BY <1>1, <1>2, SagaAssumption DEF Init, TypeOK, Statuses
<1> QED
  BY <1>1, <1>2, <1>3 DEF IInv

LEMMA ApproveIInv ==
  ASSUME IInv, NEW c \in Calls, ApprovePayment(c)
  PROVE  IInv'
<1> DEFINE f == [Idle EXCEPT !.at = "window", !.shops = OptionShops]
<1>1. f \in Frames
  BY IdleFits, SagaAssumption DEF Frames
<1>2. FrameFits(f, Len(orders))
  BY SagaAssumption, TableFacts DEF FrameFits, Idle
<1>3. calls' \in [Calls -> Frames] /\ \A d \in Calls : FrameFits(calls'[d], Len(orders))
  BY <1>1, <1>2, TableFacts, BecomeFits DEF ApprovePayment
<1> QED
  BY <1>3, Assemble DEF ApprovePayment, tables, world, cuts, IInv, TypeOK

LEMMA OpenWindowIInv ==
  ASSUME IInv, NEW c \in Calls, OpenAcceptanceWindow(c)
  PROVE  IInv'
<1> DEFINE shop == Head(calls[c].shops)
           rest == Tail(calls[c].shops)
           order == [merchant |-> shop.merchant, need |-> shop.need,
                     state |-> "merchant_pending", hash |-> 0]
<1>1. calls[c] \in Frames /\ FrameFits(calls[c], Len(orders)) /\ calls[c].at = "window"
  BY DEF IInv, TypeOK, OpenAcceptanceWindow
<1>2. shop \in Shops /\ rest \in Seq(Shops)
  BY <1>1, HeadTailProperties DEF Frames, FrameFits
<1>3. order \in Orders
  BY <1>2 DEF Shops, Orders, OrderStates
<1>4. /\ orders' \in Seq(Orders) /\ acceptances' \in Seq(Statuses) /\ escrows' \in Seq(Nat)
      /\ Len(orders') \in Nat /\ Len(orders') >= Len(orders)
      /\ Len(acceptances') = Len(orders') /\ Len(escrows') = Len(orders')
  <2>1. CASE shop.merchant \in Provisioned
    <3>1. /\ orders' = Append(orders, order)
          /\ acceptances' = Append(acceptances, "pending")
          /\ escrows' = Append(escrows, 0)
      BY <2>1 DEF OpenAcceptanceWindow
    <3>2. "pending" \in Statuses /\ acceptances \in Seq(Statuses) /\ escrows \in Seq(Nat)
          /\ orders \in Seq(Orders)
          /\ Len(acceptances) = Len(orders) /\ Len(escrows) = Len(orders)
      BY DEF Statuses, IInv, TypeOK
    <3> QED
      BY <1>3, <3>1, <3>2, TableFacts, AppendProperties
  <2>2. CASE shop.merchant \notin Provisioned
    <3>1. UNCHANGED tables
      BY <2>2 DEF OpenAcceptanceWindow
    <3> QED
      BY <3>1, TableFacts DEF tables, IInv, TypeOK, Statuses
  <2> QED
    BY <2>1, <2>2
<1>5. /\ calls' \in [Calls -> Frames]
      /\ \A d \in Calls : FrameFits(calls'[d], Len(orders'))
  <2>1. CASE rest = <<>>
    BY <1>4, <2>1, ReturnFits DEF OpenAcceptanceWindow
  <2>2. CASE rest # <<>>
    <3> DEFINE f == [calls[c] EXCEPT !.shops = rest]
    <3>1. f \in Frames
      BY <1>1, <1>2 DEF Frames
    <3>2. FrameFits(f, Len(orders'))
      <4>1. 1 .. Len(orders) \subseteq 1 .. Len(orders')
        BY <1>4, TableFacts
      <4>2. /\ f.at = "window" /\ f.shops = rest
            /\ f.todo = calls[c].todo /\ f.rows = calls[c].rows
        BY <1>1 DEF Frames
      <4> QED
        BY <1>1, <2>2, <4>1, <4>2 DEF FrameFits
    <3>3. Become(c, f)
      BY <2>2 DEF OpenAcceptanceWindow
    <3> QED
      BY <1>4, <3>1, <3>2, <3>3, BecomeFits
  <2> QED
    BY <2>1, <2>2
<1>6. TypeOK'
  BY <1>4, <1>5 DEF OpenAcceptanceWindow, outcome, world, cuts, IInv, TypeOK, Statuses
<1> QED
  BY <1>5, <1>6 DEF IInv

LEMMA ResolveMerchantIInv ==
  ASSUME IInv, NEW c \in Calls, ResolveMerchantAcceptance(c)
  PROVE  IInv'
<1> DEFINE o == calls[c].order
           f == IF calls[c].decision = "accepted" THEN Stage(c, "funding")
                ELSE [Stage(c, "saga") EXCEPT !.order = o]
<1>1. o \in 1 .. Len(orders) /\ o \in Nat
  BY TableFacts DEF IInv, FrameFits, ResolveMerchantAcceptance
<1>2. StateFor(calls[c].decision) \in OrderStates
  BY DEF StateFor, OrderStates
<1>3. orders' \in Seq(Orders) /\ Len(orders') = Len(orders)
  BY <1>1, <1>2, StateChange DEF ResolveMerchantAcceptance
<1>4. "funding" \in Stages /\ "saga" \in Stages
  BY DEF Stages
<1>5. f \in Frames
  BY <1>1, <1>4, StageFits DEF Frames
<1>6. FrameFits(f, Len(orders))
  <2>1. CASE calls[c].decision = "accepted"
    BY <1>4, <2>1, StageFits DEF FrameFits
  <2>2. CASE calls[c].decision # "accepted"
    <3>1. /\ f.at = "saga" /\ f.order = o /\ f.todo = {}
          /\ f.rows = calls[c].rows
      BY <1>4, <2>2, StageFits DEF Frames
    <3> QED
      BY <1>1, <1>4, <3>1, StageFits DEF FrameFits
  <2> QED
    BY <2>1, <2>2
<1>7. calls' \in [Calls -> Frames] /\ \A d \in Calls : FrameFits(calls'[d], Len(orders))
  BY <1>5, <1>6, TableFacts, BecomeFits DEF ResolveMerchantAcceptance
<1> QED
  BY <1>3, <1>7, Assemble DEF ResolveMerchantAcceptance, outcome, world, cuts, IInv, TypeOK

LEMMA LostIInv ==
  ASSUME IInv, NEW c \in Calls, NotificationLost(c)
  PROVE  IInv'
<1>1. calls' \in [Calls -> Frames] /\ \A d \in Calls : FrameFits(calls'[d], Len(orders))
  BY ThrowFits DEF NotificationLost
<1> QED
  BY <1>1, Assemble, SagaAssumption
     DEF NotificationLost, Fail, tables, outcome, cuts, IInv, TypeOK

LEMMA TickIInv ==
  ASSUME IInv, NEW c \in Calls, AcceptanceTimeoutTick(c)
  PROVE  IInv'
<1>1. PICK youngest \in DOMAIN acceptances :
        LET stale == {a \in 1 .. youngest : acceptances[a] = "pending"}
        IN  /\ acceptances' = [a \in DOMAIN acceptances |->
                  IF a \in stale THEN "expired" ELSE acceptances[a]]
            /\ Become(c, [Idle EXCEPT !.at = "expire", !.rows = stale])
  BY DEF AcceptanceTimeoutTick
<1> DEFINE stale == {a \in 1 .. youngest : acceptances[a] = "pending"}
           f == [Idle EXCEPT !.at = "expire", !.rows = stale]
<1>2. stale \in SUBSET (1 .. Len(orders)) /\ stale \in SUBSET Nat
  BY TableFacts
<1>3. f \in Frames
  BY <1>2, IdleFits DEF Frames
<1>4. FrameFits(f, Len(orders))
  BY <1>2, TableFacts DEF FrameFits, Idle
<1>5. calls' \in [Calls -> Frames] /\ \A d \in Calls : FrameFits(calls'[d], Len(orders))
  BY <1>1, <1>3, <1>4, TableFacts, BecomeFits
<1>6. acceptances' \in Seq(Statuses) /\ Len(acceptances') = Len(acceptances)
  <2>1. acceptances \in [1 .. Len(orders) -> Statuses]
    BY LenProperties DEF IInv, TypeOK, Statuses
  <2>2. acceptances' \in [1 .. Len(orders) -> Statuses]
    BY <1>1, <2>1, TableFacts DEF Statuses
  <2> QED
    BY <2>2, TableFacts, FunctionIsSeq DEF IInv, TypeOK
<1> QED
  BY <1>5, <1>6, Assemble
     DEF AcceptanceTimeoutTick, outcome, world, cuts, IInv, TypeOK, Statuses

LEMMA ExpireOrderIInv ==
  ASSUME IInv, NEW c \in Calls, ExpireOrder(c)
  PROVE  IInv'
<1>1. PICK row \in calls[c].rows :
        LET rest == calls[c].rows \ {row}
            pending == PendingOrderOf(orders[row].merchant)
        IN  \/ /\ pending = {}
               /\ Become(c, IF rest = {} THEN Idle
                            ELSE [calls[c] EXCEPT !.rows = rest])
               /\ UNCHANGED orders
            \/ \E o \in pending :
                  /\ SetOrderState(o, "expired")
                  /\ Become(c, [calls[c] EXCEPT
                                  !.at = "saga", !.order = o, !.rows = rest])
  BY DEF ExpireOrder
<1> DEFINE rest == calls[c].rows \ {row}
           pending == PendingOrderOf(orders[row].merchant)
<1>2. calls[c] \in Frames /\ FrameFits(calls[c], Len(orders)) /\ calls[c].at = "expire"
  BY DEF IInv, TypeOK, ExpireOrder
<1>3. rest \in SUBSET Nat /\ rest \in SUBSET (1 .. Len(orders))
  BY <1>2 DEF Frames, FrameFits
<1>4. CASE /\ pending = {}
           /\ Become(c, IF rest = {} THEN Idle
                        ELSE [calls[c] EXCEPT !.rows = rest])
           /\ UNCHANGED orders
  <2> DEFINE f == IF rest = {} THEN Idle ELSE [calls[c] EXCEPT !.rows = rest]
  <2>1. f \in Frames
    BY <1>2, <1>3, IdleFits DEF Frames
  <2>2. FrameFits(f, Len(orders))
    <3>1. CASE rest = {}
      BY <3>1, TableFacts, IdleFits
    <3>2. CASE rest # {}
      <4>1. f.at = "expire" /\ f.todo = calls[c].todo /\ f.rows = rest
        BY <1>2, <3>2 DEF Frames
      <4> QED
        BY <1>2, <1>3, <4>1 DEF FrameFits
    <3> QED
      BY <3>1, <3>2
  <2>3. calls' \in [Calls -> Frames] /\ \A d \in Calls : FrameFits(calls'[d], Len(orders))
    BY <1>4, <2>1, <2>2, TableFacts, BecomeFits
  <2> QED
    BY <1>4, <2>3, Assemble DEF ExpireOrder, outcome, world, cuts, IInv, TypeOK
<1>5. ASSUME NEW o \in pending,
             SetOrderState(o, "expired"),
             Become(c, [calls[c] EXCEPT !.at = "saga", !.order = o, !.rows = rest])
      PROVE  IInv'
  <2> DEFINE f == [calls[c] EXCEPT !.at = "saga", !.order = o, !.rows = rest]
  <2>1. o \in 1 .. Len(orders) /\ o \in Nat
    BY TableFacts DEF PendingOrderOf
  <2>2. f \in Frames
    BY <1>2, <1>3, <2>1 DEF Frames
  <2>3. /\ f.at = "saga" /\ f.order = o /\ f.rows = rest
        /\ f.todo = calls[c].todo
    BY <1>2 DEF Frames
  <2>4. FrameFits(f, Len(orders))
    BY <1>2, <1>3, <2>1, <2>3 DEF FrameFits
  <2>5. calls' \in [Calls -> Frames] /\ \A d \in Calls : FrameFits(calls'[d], Len(orders))
    BY <1>5, <2>2, <2>4, TableFacts, BecomeFits
  <2>6. orders' \in Seq(Orders) /\ Len(orders') = Len(orders)
    BY <1>5, <2>1, StateChange DEF OrderStates
  <2> QED
    BY <2>5, <2>6, Assemble DEF ExpireOrder, outcome, world, cuts, IInv, TypeOK
<1> QED
  BY <1>1, <1>4, <1>5

LEMMA AlternativeIInv ==
  ASSUME IInv, NEW c \in Calls, TryAlternative(c)
  PROVE  IInv'
<1>1. PICK shop \in FindAlternativeShop(calls[c].order) :
        Become(c, [Stage(c, "window") EXCEPT !.shops = <<shop>>])
  BY DEF TryAlternative
<1> DEFINE list == <<shop>>
           f == [Stage(c, "window") EXCEPT !.shops = list]
<1>2. calls[c].order \in 1 .. Len(orders)
  BY DEF IInv, FrameFits, TryAlternative
<1>3. shop \in Shops
  <2>1. orders[calls[c].order].need \in Needs
    BY <1>2, TableFacts DEF Orders
  <2>2. \A i \in DOMAIN Preference : Preference[i] \in Merchants
    BY SagaAssumption, LenProperties
  <2> QED
    BY <2>1, <2>2 DEF FindAlternativeShop, UsableQuotes, Shops
<1>4. list \in Seq(Shops) /\ list # <<>>
  <2>1. <<>> \in Seq(Shops) /\ <<shop>> = Append(<<>>, shop)
    BY EmptySeq
  <2> QED
    BY <1>3, <2>1, AppendProperties
<1>5. "window" \in Stages
  BY DEF Stages
<1>6. Become(c, f)
  BY <1>1
<1> HIDE DEF list
<1>7. f \in Frames
  <2>1. Stage(c, "window") \in Frames
    BY <1>5, StageFits
  <2> QED
    BY <1>4, <2>1 DEF Frames
<1>8. f.at = "window" /\ f.shops = list /\ f.todo = {} /\ f.rows = calls[c].rows
  BY <1>5, StageFits DEF Frames
<1>9. FrameFits(f, Len(orders))
  BY <1>4, <1>5, <1>8, StageFits DEF FrameFits
<1>10. calls' \in [Calls -> Frames] /\ \A d \in Calls : FrameFits(calls'[d], Len(orders))
  BY <1>6, <1>7, <1>9, TableFacts, BecomeFits
<1> QED
  BY <1>10, Assemble DEF TryAlternative, tables, outcome, world, cuts, IInv, TypeOK

LEMMA DropIInv ==
  ASSUME IInv, NEW c \in Calls, DropShop(c)
  PROVE  IInv'
<1>1. calls[c].order \in 1 .. Len(orders)
  BY DEF IInv, FrameFits, DropShop
<1>2. orders[calls[c].order].need \in Needs
  BY <1>1, TableFacts DEF Orders
<1>3. "funding" \in Stages
  BY DEF Stages
<1>4. FrameFits(Stage(c, "funding"), Len(orders))
  BY <1>3, StageFits DEF FrameFits
<1>5. calls' \in [Calls -> Frames] /\ \A d \in Calls : FrameFits(calls'[d], Len(orders))
  BY <1>3, <1>4, StageFits, TableFacts, BecomeFits DEF DropShop
<1> QED
  BY <1>2, <1>5, Assemble DEF DropShop, tables, world, cuts, IInv, TypeOK

LEMMA CancelPgIInv ==
  ASSUME IInv, NEW c \in Calls, CancelPgTask(c)
  PROVE  IInv'
<1> DEFINE f == [Stage(c, "cancel") EXCEPT !.todo = InState(Cancellable),
                                           !.back = InState(Restocked)]
<1>1. /\ InState(Cancellable) \in SUBSET (1 .. Len(orders))
      /\ InState(Cancellable) \in SUBSET Nat /\ InState(Restocked) \in SUBSET Nat
  BY TableFacts
<1>2. "cancel" \in Stages
  BY DEF Stages
<1>3. f \in Frames
  <2>1. Stage(c, "cancel") \in Frames
    BY <1>2, StageFits
  <2> QED
    BY <1>1, <2>1 DEF Frames
<1>4. f.at = "cancel" /\ f.todo = InState(Cancellable) /\ f.rows = calls[c].rows
  BY <1>2, StageFits DEF Frames
<1>5. FrameFits(f, Len(orders))
  BY <1>1, <1>2, <1>4, StageFits DEF FrameFits
<1>6. calls' \in [Calls -> Frames] /\ \A d \in Calls : FrameFits(calls'[d], Len(orders))
  BY <1>3, <1>5, TableFacts, BecomeFits DEF CancelPgTask
<1> QED
  BY <1>6, Assemble DEF CancelPgTask, tables, outcome, world, cuts, IInv, TypeOK

LEMMA RestockIInv ==
  ASSUME IInv, NEW c \in Calls, RestockAfterCancel(c)
  PROVE  IInv'
<1>1. PICK o \in calls[c].todo \cap calls[c].back :
        /\ stock' = [stock EXCEPT ![Line(o)] = @ + 1]
        /\ Become(c, [calls[c] EXCEPT !.at = "restocked", !.order = o])
  BY DEF RestockAfterCancel
<1> DEFINE f == [calls[c] EXCEPT !.at = "restocked", !.order = o]
<1>2. calls[c] \in Frames /\ FrameFits(calls[c], Len(orders))
  BY DEF IInv, TypeOK
<1>3. o \in 1 .. Len(orders) /\ o \in Nat
  BY <1>2, TableFacts DEF FrameFits
<1>4. f \in Frames
  BY <1>2, <1>3 DEF Frames
<1>5. /\ f.at = "restocked" /\ f.order = o
      /\ f.todo = calls[c].todo /\ f.rows = calls[c].rows
  BY <1>2 DEF Frames
<1>6. FrameFits(f, Len(orders))
  BY <1>2, <1>3, <1>5 DEF FrameFits
<1>7. calls' \in [Calls -> Frames] /\ \A d \in Calls : FrameFits(calls'[d], Len(orders))
  BY <1>1, <1>4, <1>6, TableFacts, BecomeFits
<1>8. stock' \in [Merchants \X Needs -> Nat]
  <2>1. stock \in [Merchants \X Needs -> Nat] /\ Line(o) \in Merchants \X Needs
    BY <1>3, TableFacts DEF IInv, TypeOK, Line, Orders
  <2> QED
    BY <1>1, <2>1
<1> QED
  BY <1>7, <1>8, Assemble DEF RestockAfterCancel, tables, outcome, world, cuts, IInv, TypeOK

LEMMA CancelListedIInv ==
  ASSUME IInv, NEW c \in Calls, CancelListedOrder(c)
  PROVE  IInv'
<1>1. PICK o \in calls[c].todo :
        /\ SetOrderState(o, "cancelled")
        /\ Become(c, [calls[c] EXCEPT !.at = "cancel", !.order = 0, !.todo = @ \ {o}])
  BY DEF CancelListedOrder
<1> DEFINE f == [calls[c] EXCEPT !.at = "cancel", !.order = 0, !.todo = @ \ {o}]
<1>2. calls[c] \in Frames /\ FrameFits(calls[c], Len(orders))
  BY DEF IInv, TypeOK
<1>3. o \in 1 .. Len(orders) /\ "cancelled" \in OrderStates
  BY <1>2 DEF FrameFits, OrderStates
<1>4. orders' \in Seq(Orders) /\ Len(orders') = Len(orders)
  BY <1>1, <1>3, StateChange
<1>5. f \in Frames
  BY <1>2 DEF Frames
<1>6. f.at = "cancel" /\ f.todo = calls[c].todo \ {o} /\ f.rows = calls[c].rows
  BY <1>2 DEF Frames
<1>7. FrameFits(f, Len(orders))
  BY <1>2, <1>6 DEF FrameFits
<1>8. calls' \in [Calls -> Frames] /\ \A d \in Calls : FrameFits(calls'[d], Len(orders))
  BY <1>1, <1>5, <1>7, TableFacts, BecomeFits
<1> QED
  BY <1>4, <1>8, Assemble DEF CancelListedOrder, outcome, world, cuts, IInv, TypeOK

\* A handler that ends its loop writes the task's status and returns.
LEMMA StatusIInv ==
  ASSUME IInv, NEW c \in Calls, EndCancel(c) \/ FundingReady(c)
  PROVE  IInv'
<1>1. calls' \in [Calls -> Frames] /\ \A d \in Calls : FrameFits(calls'[d], Len(orders))
  BY TableFacts, ReturnFits DEF EndCancel, FundingReady
<1>2. status' \in {"cancelled", "awaiting_funding"}
  BY DEF EndCancel, FundingReady
<1> QED
  BY <1>1, <1>2, Assemble DEF EndCancel, FundingReady, tables, world, cuts, IInv, TypeOK

LEMMA MaybeOpenIInv ==
  ASSUME IInv, NEW c \in Calls, MaybeOpenFunding(c)
  PROVE  IInv'
<1>1. CASE Return(c)
  <2>1. calls' \in [Calls -> Frames] /\ \A d \in Calls : FrameFits(calls'[d], Len(orders))
    BY <1>1, TableFacts, ReturnFits
  <2>2. status' = "failed" \/ status' = status
    BY DEF MaybeOpenFunding
  <2> QED
    BY <2>1, <2>2, Assemble DEF MaybeOpenFunding, tables, world, cuts, IInv, TypeOK
<1>2. CASE /\ Become(c, [Stage(c, "opening") EXCEPT
                          !.todo = InState({"merchant_confirmed"})])
           /\ UNCHANGED status
  <2> DEFINE f == [Stage(c, "opening") EXCEPT !.todo = InState({"merchant_confirmed"})]
  <2>1. InState({"merchant_confirmed"}) \in SUBSET (1 .. Len(orders))
        /\ InState({"merchant_confirmed"}) \in SUBSET Nat
    BY TableFacts
  <2>2. "opening" \in Stages
    BY DEF Stages
  <2>3. f \in Frames
    BY <2>1, <2>2, StageFits DEF Frames
  <2>4. f.at = "opening" /\ f.todo = InState({"merchant_confirmed"})
        /\ f.rows = calls[c].rows
    BY <2>2, StageFits DEF Frames
  <2>5. FrameFits(f, Len(orders))
    BY <2>1, <2>2, <2>4, StageFits DEF FrameFits
  <2>6. calls' \in [Calls -> Frames] /\ \A d \in Calls : FrameFits(calls'[d], Len(orders))
    BY <1>2, <2>3, <2>5, TableFacts, BecomeFits
  <2> QED
    BY <1>2, <2>6, Assemble DEF MaybeOpenFunding, tables, world, cuts, IInv, TypeOK
<1> QED
  BY <1>1, <1>2 DEF MaybeOpenFunding

LEMMA OpenEscrowIInv ==
  ASSUME IInv, NEW c \in Calls, OpenEscrow(c)
  PROVE  IInv'
<1>1. PICK o \in calls[c].todo :
        LET code == orders[o].hash + 1
        IN  /\ orders' = [orders EXCEPT ![o] = WithCode(@, code)]
            /\ Become(c, [calls[c] EXCEPT !.at = "escrow", !.order = o, !.code = code])
  BY DEF OpenEscrow
<1> DEFINE code == orders[o].hash + 1
           f == [calls[c] EXCEPT !.at = "escrow", !.order = o, !.code = code]
<1>2. calls[c] \in Frames /\ FrameFits(calls[c], Len(orders))
  BY DEF IInv, TypeOK
<1>3. o \in 1 .. Len(orders) /\ o \in Nat
  BY <1>2, TableFacts DEF FrameFits
<1>4. orders[o] \in Orders /\ code \in Nat /\ code # 0
  BY <1>3, TableFacts DEF Orders
<1>5. orders' \in Seq(Orders) /\ Len(orders') = Len(orders)
  <2>1. WithCode(orders[o], code) \in Orders
    BY <1>4 DEF WithCode, Orders, OrderStates
  <2> QED
    BY <1>1, <1>3, <2>1, OrderChange
<1>6. calls' \in [Calls -> Frames] /\ \A d \in Calls : FrameFits(calls'[d], Len(orders))
  <2>1. Become(c, f)
    BY <1>1
  <2> HIDE DEF code
  <2>2. f \in Frames
    BY <1>2, <1>3, <1>4 DEF Frames
  <2>3. /\ f.at = "escrow" /\ f.order = o /\ f.code = code
        /\ f.todo = calls[c].todo /\ f.rows = calls[c].rows
    BY <1>2 DEF Frames
  <2>4. FrameFits(f, Len(orders))
    BY <1>2, <1>3, <1>4, <2>3 DEF FrameFits
  <2> QED
    BY <2>1, <2>2, <2>4, TableFacts, BecomeFits
<1> QED
  BY <1>5, <1>6, Assemble DEF OpenEscrow, outcome, world, cuts, IInv, TypeOK

LEMMA WriteRowIInv ==
  ASSUME IInv, NEW c \in Calls, WriteEscrowRow(c)
  PROVE  IInv'
<1> DEFINE o == calls[c].order
           f == [calls[c] EXCEPT !.at = "opening", !.order = 0, !.code = 0, !.todo = @ \ {o}]
<1>1. calls[c] \in Frames /\ FrameFits(calls[c], Len(orders)) /\ calls[c].at = "escrow"
  BY DEF IInv, TypeOK, WriteEscrowRow
<1>2. o \in 1 .. Len(orders) /\ calls[c].code \in Nat
  BY <1>1 DEF FrameFits, Frames
<1>3. escrows' \in Seq(Nat) /\ Len(escrows') = Len(escrows)
  <2>1. escrows \in Seq(Nat) /\ o \in 1 .. Len(escrows)
    BY <1>2 DEF IInv, TypeOK
  <2>2. escrows' = escrows \/ escrows' = [escrows EXCEPT ![o] = calls[c].code]
    BY DEF WriteEscrowRow
  <2> QED
    BY <1>2, <2>1, <2>2, ExceptSeq
<1>4. calls' \in [Calls -> Frames] /\ \A d \in Calls : FrameFits(calls'[d], Len(orders))
  <2>1. CASE Throw(c)
    BY <2>1, ThrowFits
  <2>2. CASE Become(c, f)
    <3>1. f \in Frames
      BY <1>1 DEF Frames
    <3>2. f.at = "opening" /\ f.todo = calls[c].todo \ {o} /\ f.rows = calls[c].rows
      BY <1>1 DEF Frames
    <3>3. FrameFits(f, Len(orders))
      BY <1>1, <3>2 DEF FrameFits
    <3> QED
      BY <2>2, <3>1, <3>3, TableFacts, BecomeFits
  <2> QED
    BY <2>1, <2>2 DEF WriteEscrowRow
<1> QED
  BY <1>3, <1>4, Assemble DEF WriteEscrowRow, outcome, world, cuts, IInv, TypeOK

\* Both answers of a merchant start from an acceptance and a pending order.
LEMMA AnswerFits ==
  ASSUME IInv, NEW a \in DOMAIN acceptances, NEW o \in DOMAIN orders,
         NEW d \in {"accepted", "rejected"}
  PROVE  LET f == [Idle EXCEPT !.at = "resolve", !.acceptance = a,
                     !.order = o, !.decision = d]
         IN  f \in Frames /\ FrameFits(f, Len(orders))
<1> DEFINE f == [Idle EXCEPT !.at = "resolve", !.acceptance = a,
                   !.order = o, !.decision = d]
<1>1. a \in 1 .. Len(orders) /\ o \in 1 .. Len(orders) /\ a \in Nat /\ o \in Nat
  BY TableFacts
<1>2. f \in Frames
  BY <1>1, IdleFits DEF Frames
<1>3. FrameFits(f, Len(orders))
  BY <1>1, TableFacts DEF FrameFits, Idle
<1> QED
  BY <1>2, <1>3

LEMMA AcceptIInv ==
  ASSUME IInv, NEW c \in Calls, Accept(c)
  PROVE  IInv'
<1>1. PICK a \in DOMAIN acceptances, o \in DOMAIN orders :
        /\ stock' = IF InStock(o) THEN [stock EXCEPT ![Line(o)] = @ - 1]
                                  ELSE stock
        /\ Become(c, [Idle EXCEPT
             !.at = "resolve", !.acceptance = a, !.order = o,
             !.decision = IF InStock(o) THEN "accepted" ELSE "rejected"])
  BY DEF Accept
<1> DEFINE d == IF InStock(o) THEN "accepted" ELSE "rejected"
<1>2. d \in {"accepted", "rejected"}
  OBVIOUS
<1>3. calls' \in [Calls -> Frames] /\ \A e \in Calls : FrameFits(calls'[e], Len(orders))
  <2> DEFINE f == [Idle EXCEPT !.at = "resolve", !.acceptance = a,
                     !.order = o, !.decision = d]
  <2>1. f \in Frames /\ FrameFits(f, Len(orders))
    BY <1>2, AnswerFits
  <2>2. Become(c, f)
    BY <1>1
  <2> HIDE DEF f
  <2> QED
    BY <2>1, <2>2, TableFacts, BecomeFits
<1>4. stock' \in [Merchants \X Needs -> Nat]
  <2>1. Line(o) \in Merchants \X Needs
    BY TableFacts DEF Line, Orders
  <2>2. stock \in [Merchants \X Needs -> Nat]
    BY DEF IInv, TypeOK
  <2>3. CASE InStock(o)
    <3>1. stock[Line(o)] - 1 \in Nat
      BY <2>1, <2>2, <2>3 DEF InStock
    <3> QED
      BY <1>1, <2>2, <2>3, <3>1
  <2>4. CASE ~InStock(o)
    BY <1>1, <2>2, <2>4
  <2> QED
    BY <2>3, <2>4
<1> QED
  BY <1>3, <1>4, Assemble DEF Accept, tables, outcome, world, cuts, IInv, TypeOK

LEMMA RejectIInv ==
  ASSUME IInv, NEW c \in Calls, Reject(c)
  PROVE  IInv'
<1>1. PICK a \in DOMAIN acceptances, o \in DOMAIN orders :
        Become(c, [Idle EXCEPT !.at = "resolve", !.acceptance = a,
                     !.order = o, !.decision = "rejected"])
  BY DEF Reject
<1>2. calls' \in [Calls -> Frames] /\ \A e \in Calls : FrameFits(calls'[e], Len(orders))
  <2> DEFINE f == [Idle EXCEPT !.at = "resolve", !.acceptance = a,
                     !.order = o, !.decision = "rejected"]
  <2>1. f \in Frames /\ FrameFits(f, Len(orders))
    BY AnswerFits
  <2>2. Become(c, f)
    BY <1>1
  <2> HIDE DEF f
  <2> QED
    BY <2>1, <2>2, TableFacts, BecomeFits
<1> QED
  BY <1>2, Assemble DEF Reject, tables, outcome, world, cuts, IInv, TypeOK

LEMMA ResolveAcceptanceIInv ==
  ASSUME IInv, NEW c \in Calls, ResolveAcceptance(c)
  PROVE  IInv'
<1> DEFINE a == calls[c].acceptance
           f == [calls[c] EXCEPT !.at = "notify", !.acceptance = 0]
<1>1. calls[c] \in Frames /\ FrameFits(calls[c], Len(orders)) /\ calls[c].at = "resolve"
  BY DEF IInv, TypeOK, ResolveAcceptance
<1>2. f \in Frames
  BY <1>1 DEF Frames
<1>3. /\ f.at = "notify" /\ f.order = calls[c].order
      /\ f.todo = calls[c].todo /\ f.rows = calls[c].rows
  BY <1>1 DEF Frames
<1>4. FrameFits(f, Len(orders))
  BY <1>1, <1>3 DEF FrameFits
<1>5. calls' \in [Calls -> Frames] /\ \A d \in Calls : FrameFits(calls'[d], Len(orders))
  BY <1>2, <1>4, TableFacts, BecomeFits DEF ResolveAcceptance
<1>6. acceptances' \in Seq(Statuses) /\ Len(acceptances') = Len(acceptances)
  <2>1. acceptances \in Seq(Statuses) /\ a \in 1 .. Len(acceptances)
    BY <1>1 DEF IInv, TypeOK, Statuses, FrameFits
  <2>2. calls[c].decision \in Statuses
    BY <1>1 DEF Frames, FrameFits, Statuses
  <2>3. CASE MayDecide(a)
    BY <2>1, <2>2, <2>3, ExceptSeq DEF ResolveAcceptance
  <2>4. CASE ~MayDecide(a)
    BY <2>1, <2>4 DEF ResolveAcceptance
  <2> QED
    BY <2>3, <2>4
<1> QED
  BY <1>5, <1>6, Assemble
     DEF ResolveAcceptance, outcome, world, cuts, IInv, TypeOK, Statuses

\* What a restart leaves in the histories.
LEMMA CutsFit ==
  ASSUME IInv, BridgeRestart
  PROVE  orphans' \subseteq Nat /\ surplus' \in [Merchants \X Needs -> Nat]
<1>1. RowsDue \subseteq Nat
  BY DEF RowsDue, IInv, TypeOK, Frames
<1>2. \A key : Cardinality(Restocking(key)) \in Nat
  <2> SUFFICES ASSUME NEW key PROVE Cardinality(Restocking(key)) \in Nat
    OBVIOUS
  <2>1. IsFiniteSet(Calls) /\ Restocking(key) \in SUBSET Calls
    BY SagaAssumption DEF Restocking
  <2> QED
    BY <2>1, FS_Subset, FS_CardinalityType
<1>3. surplus \in [Merchants \X Needs -> Nat]
  BY DEF IInv, TypeOK
<1>4. \A key \in Merchants \X Needs : surplus[key] + Cardinality(Restocking(key)) \in Nat
  <2>1. \A key \in Merchants \X Needs : surplus[key] \in Nat
    BY <1>3
  <2> QED
    BY <1>2, <2>1
<1>5. surplus' = [key \in Merchants \X Needs |-> surplus[key] + Cardinality(Restocking(key))]
  BY <1>3 DEF BridgeRestart
<1> QED
  BY <1>1, <1>4, <1>5 DEF BridgeRestart, IInv, TypeOK

LEMMA RestartIInv ==
  ASSUME IInv, BridgeRestart
  PROVE  IInv'
<1>1. calls' \in [Calls -> Frames] /\ \A d \in Calls : FrameFits(calls'[d], Len(orders))
  BY IdleFits, TableFacts DEF BridgeRestart, IInv, TypeOK
<1> QED
  BY <1>1, CutsFit, Assemble, SagaAssumption
     DEF BridgeRestart, Fail, tables, outcome, IInv, TypeOK

LEMMA CancelTaskIInv ==
  ASSUME IInv, CancelTask
  PROVE  IInv'
BY DEF CancelTask, tables, world, cuts, IInv, TypeOK

LEMMA QuoteExpiresIInv ==
  ASSUME IInv, NEW m \in Merchants, QuoteExpires(m)
  PROVE  IInv'
BY DEF QuoteExpires, tables, outcome, cuts, IInv, TypeOK

LEMMA StutterIInv == IInv /\ UNCHANGED vars => IInv'
BY DEF vars, IInv, TypeOK

\* The invariant is inductive.
THEOREM Invariance == Spec => []IInv
<1>1. Init => IInv
  BY InitIInv
<1>2. IInv /\ [Next]_vars => IInv'
  <2> SUFFICES ASSUME IInv, [Next]_vars PROVE IInv'
    OBVIOUS
  <2>1. CASE UNCHANGED vars
    BY <2>1, StutterIInv
  <2>2. CASE CancelTask
    BY <2>2, CancelTaskIInv
  <2>3. CASE BridgeRestart
    BY <2>3, RestartIInv
  <2>4. ASSUME NEW m \in Merchants, QuoteExpires(m) PROVE IInv'
    BY <2>4, QuoteExpiresIInv
  <2>5. ASSUME NEW c \in Calls, Step(c) PROVE IInv'
    BY <2>5, OpenWindowIInv, ResolveAcceptanceIInv, ResolveMerchantIInv,
       ExpireOrderIInv, AlternativeIInv, DropIInv, CancelPgIInv, RestockIInv,
       CancelListedIInv, StatusIInv, MaybeOpenIInv, OpenEscrowIInv, WriteRowIInv
       DEF Step
  <2>6. ASSUME NEW c \in Calls,
               \/ ApprovePayment(c) \/ Accept(c) \/ Reject(c)
               \/ AcceptanceTimeoutTick(c) \/ NotificationLost(c)
        PROVE  IInv'
    BY <2>6, ApproveIInv, AcceptIInv, RejectIInv, TickIInv, LostIInv
  <2> QED
    BY <2>1, <2>2, <2>3, <2>4, <2>5, <2>6 DEF Next
<1> QED
  BY <1>1, <1>2, PTL DEF Spec

\* The types of the tables: in particular a merchant's stock never falls below
\* zero, and every order keeps exactly one acceptance and one escrow column,
\* however the answers, the timer and the restarts interleave.
THEOREM TypeCorrect == Spec => []TypeOK
<1>1. IInv => TypeOK
  BY DEF IInv
<1> QED
  BY <1>1, Invariance, PTL

-----------------------------------------------------------------------------
(* What is written once *)

\* A row that has been decided is not written by any action.
LEMMA DecidedRowsStay ==
  ASSUME IInv, [Next]_vars, NEW a \in DOMAIN acceptances,
         acceptances[a] # "pending"
  PROVE  acceptances'[a] = acceptances[a]
<1>1. ASSUME NEW c \in Calls, OpenAcceptanceWindow(c)
      PROVE  acceptances'[a] = acceptances[a]
  <2>1. acceptances \in Seq(Statuses) /\ a \in 1 .. Len(acceptances)
    BY DEF IInv, TypeOK, Statuses
  <2>2. \/ acceptances' = Append(acceptances, "pending")
        \/ acceptances' = acceptances
    BY <1>1 DEF OpenAcceptanceWindow, tables
  <2> QED
    BY <2>1, <2>2, AppendProperties DEF Statuses
<1>2. ASSUME NEW c \in Calls, ResolveAcceptance(c)
      PROVE  acceptances'[a] = acceptances[a]
  BY <1>2 DEF ResolveAcceptance, MayDecide
<1>3. ASSUME NEW c \in Calls, AcceptanceTimeoutTick(c)
      PROVE  acceptances'[a] = acceptances[a]
  BY <1>3 DEF AcceptanceTimeoutTick
<1>4. ASSUME NEW c \in Calls,
             \/ ResolveMerchantAcceptance(c) \/ ExpireOrder(c)
             \/ TryAlternative(c) \/ DropShop(c) \/ CancelPgTask(c)
             \/ RestockAfterCancel(c) \/ CancelListedOrder(c) \/ EndCancel(c)
             \/ MaybeOpenFunding(c) \/ OpenEscrow(c) \/ WriteEscrowRow(c)
             \/ FundingReady(c) \/ ApprovePayment(c)
             \/ Accept(c) \/ Reject(c) \/ NotificationLost(c)
      PROVE  acceptances' = acceptances
  BY <1>4 DEF ResolveMerchantAcceptance, ExpireOrder, TryAlternative, DropShop,
     CancelPgTask, RestockAfterCancel, CancelListedOrder, EndCancel,
     MaybeOpenFunding, OpenEscrow, WriteEscrowRow, FundingReady, ApprovePayment,
     Accept, Reject, NotificationLost, tables
<1>5. ASSUME \/ CancelTask \/ BridgeRestart \/ UNCHANGED vars
             \/ \E m \in Merchants : QuoteExpires(m)
      PROVE  acceptances' = acceptances
  BY <1>5 DEF CancelTask, BridgeRestart, QuoteExpires, vars, tables
<1> QED
  BY <1>1, <1>2, <1>3, <1>4, <1>5 DEF Next, Step

\* A request that is not at the write of its escrow row leaves the due rows alone.
LEMMA RowsDueStay ==
  ASSUME IInv, NEW c \in Calls, NEW f, Become(c, f), calls[c].at # "escrow"
  PROVE  RowsDue \subseteq RowsDue'
<1>1. \A d \in Calls : calls[d].at = "escrow" => calls'[d] = calls[d]
  BY DEF Become, IInv, TypeOK
<1> QED
  BY <1>1 DEF RowsDue

\* Orders that come to wait for funds nowhere keep their rows and their due rows.
LEMMA RowsKept ==
  ASSUME FundableHasRow, RowsDue \subseteq RowsDue', orphans \subseteq orphans',
         \A o \in InState({"awaiting_funding"})' :
            o \in InState({"awaiting_funding"}) /\ escrows'[o] = escrows[o]
  PROVE  FundableHasRow'
BY DEF FundableHasRow

\* An order that is set to another state does not come to wait for funds.
LEMMA SetKeepsRows ==
  ASSUME IInv, NEW o \in DOMAIN orders, NEW st \in OrderStates \ {"awaiting_funding"},
         SetOrderState(o, st)
  PROVE  InState({"awaiting_funding"})' \subseteq InState({"awaiting_funding"})
<1>1. \A p \in DOMAIN orders : orders[p] \in Orders
  BY TableFacts
<1>2. DOMAIN orders' = DOMAIN orders /\ orders'[o].state = st
  BY <1>1 DEF SetOrderState, Orders
<1>3. \A p \in DOMAIN orders : p # o => orders'[p] = orders[p]
  BY DEF SetOrderState
<1> QED
  BY <1>2, <1>3 DEF InState

LEMMA RowsStep ==
  ASSUME IInv, FundableHasRow, [Next]_vars
  PROVE  FundableHasRow'
<1>1. ASSUME NEW c \in Calls, OpenAcceptanceWindow(c)
      PROVE  FundableHasRow'
  <2>1. RowsDue \subseteq RowsDue' /\ orphans' = orphans
    <3>1. (\E f : Become(c, f)) /\ calls[c].at # "escrow" /\ orphans' = orphans
      BY <1>1 DEF OpenAcceptanceWindow, Return, world, cuts
    <3> QED
      BY <3>1, RowsDueStay
  <2>2. orders \in Seq(Orders) /\ escrows \in Seq(Nat) /\ Len(escrows) = Len(orders)
    BY DEF IInv, TypeOK
  <2>3. CASE UNCHANGED tables
    BY <2>1, <2>3, RowsKept DEF tables, InState
  <2>4. CASE \E order : /\ orders' = Append(orders, order) /\ order.state = "merchant_pending"
                        /\ escrows' = Append(escrows, 0)
    <3>1. PICK order : /\ orders' = Append(orders, order) /\ order.state = "merchant_pending"
                       /\ escrows' = Append(escrows, 0)
      BY <2>4
    <3>2. /\ DOMAIN orders' = 1 .. Len(orders) + 1 /\ DOMAIN orders = 1 .. Len(orders)
          /\ \A o \in DOMAIN orders : orders'[o] = orders[o] /\ escrows'[o] = escrows[o]
          /\ orders'[Len(orders) + 1] = order
      BY <2>2, <3>1
    <3>3. \A o \in DOMAIN orders' : o \in DOMAIN orders \/ o = Len(orders) + 1
      BY <2>2, <3>2
    <3>4. \A o \in InState({"awaiting_funding"})' :
             o \in InState({"awaiting_funding"}) /\ escrows'[o] = escrows[o]
      BY <3>1, <3>2, <3>3 DEF InState
    <3> QED
      BY <2>1, <3>4, RowsKept
  <2> QED
    BY <1>1, <2>3, <2>4 DEF OpenAcceptanceWindow
<1>2. ASSUME NEW c \in Calls, ResolveMerchantAcceptance(c) \/ ExpireOrder(c) \/ CancelListedOrder(c)
      PROVE  FundableHasRow'
  <2>1. (\E f : Become(c, f)) /\ calls[c].at # "escrow" /\ UNCHANGED <<escrows, orphans>>
    BY <1>2 DEF ResolveMerchantAcceptance, ExpireOrder, CancelListedOrder, world, cuts
  <2>2. \/ UNCHANGED orders
        \/ \E o \in DOMAIN orders : \E st \in OrderStates \ {"awaiting_funding"} : SetOrderState(o, st)
    <3>1. CASE ResolveMerchantAcceptance(c)
      BY <3>1, TableFacts DEF ResolveMerchantAcceptance, StateFor, OrderStates, IInv, FrameFits
    <3>2. CASE ExpireOrder(c)
      BY <3>2 DEF ExpireOrder, PendingOrderOf, InState, OrderStates
    <3>3. CASE CancelListedOrder(c)
      BY <3>3, TableFacts DEF CancelListedOrder, OrderStates, IInv, FrameFits
    <3> QED
      BY <1>2, <3>1, <3>2, <3>3
  <2>3. InState({"awaiting_funding"})' \subseteq InState({"awaiting_funding"})
    BY <2>2, SetKeepsRows DEF InState
  <2> QED
    BY <2>1, <2>3, RowsDueStay, RowsKept
<1>3. ASSUME NEW c \in Calls, OpenEscrow(c)
      PROVE  FundableHasRow'
  <2>1. PICK o \in calls[c].todo :
          /\ orders' = [orders EXCEPT ![o] = WithCode(@, orders[o].hash + 1)]
          /\ Become(c, [calls[c] EXCEPT !.at = "escrow", !.order = o,
                                        !.code = orders[o].hash + 1])
    BY <1>3 DEF OpenEscrow
  <2>2. calls[c] \in Frames /\ calls[c].at = "opening" /\ UNCHANGED <<escrows, orphans>>
        /\ calls \in [Calls -> Frames]
    BY <1>3 DEF OpenEscrow, IInv, TypeOK, world, cuts
  <2>3. RowsDue \subseteq RowsDue'
    BY <2>1, <2>2, RowsDueStay
  <2>4. o \in RowsDue'
    <3>1. calls'[c].at = "escrow" /\ calls'[c].order = o
      BY <2>1, <2>2 DEF Become, Frames
    <3> QED
      BY <3>1 DEF RowsDue
  <2>5. \A p \in InState({"awaiting_funding"})' : p # o => p \in InState({"awaiting_funding"})
    BY <2>1 DEF InState
  <2> QED
    BY <2>2, <2>3, <2>4, <2>5 DEF FundableHasRow
<1>4. ASSUME NEW c \in Calls, WriteEscrowRow(c)
      PROVE  FundableHasRow'
  <2> DEFINE o == calls[c].order
  <2>1. /\ calls[c].at = "escrow" /\ calls[c].code # 0 /\ o \in DOMAIN escrows
        /\ UNCHANGED <<orders, orphans>> /\ calls \in [Calls -> Frames]
    BY <1>4, TableFacts DEF WriteEscrowRow, IInv, TypeOK, FrameFits, world, cuts
  <2>2. escrows'[o] # 0 /\ \A p \in DOMAIN escrows : p # o => escrows'[p] = escrows[p]
    BY <1>4, <2>1 DEF WriteEscrowRow, EscrowRowExists
  <2>3. \A d \in Calls : d # c => calls'[d] = calls[d]
    BY <1>4, <2>1 DEF WriteEscrowRow, Throw, Become
  <2>4. \A p \in RowsDue : p = o \/ p \in RowsDue'
    BY <2>3 DEF RowsDue
  <2>5. \A p \in InState({"awaiting_funding"})' :
           p \in InState({"awaiting_funding"}) /\ p \in DOMAIN escrows
    BY <2>1, TableFacts DEF InState
  <2> HIDE DEF o
  <2> QED
    BY <2>1, <2>2, <2>4, <2>5 DEF FundableHasRow
<1>5. ASSUME NEW c \in Calls,
             \/ TryAlternative(c) \/ DropShop(c) \/ CancelPgTask(c)
             \/ RestockAfterCancel(c) \/ EndCancel(c) \/ MaybeOpenFunding(c)
             \/ FundingReady(c) \/ ResolveAcceptance(c) \/ AcceptanceTimeoutTick(c)
             \/ ApprovePayment(c) \/ Accept(c) \/ Reject(c) \/ NotificationLost(c)
      PROVE  FundableHasRow'
  <2>1. UNCHANGED <<orders, escrows, orphans>>
    BY <1>5 DEF TryAlternative, DropShop, CancelPgTask, RestockAfterCancel, EndCancel,
       MaybeOpenFunding, FundingReady, ResolveAcceptance, AcceptanceTimeoutTick,
       ApprovePayment, Accept, Reject, NotificationLost, tables, world, cuts
  <2>2. \E f : Become(c, f)
    <3>1. CASE TryAlternative(c) \/ Accept(c) \/ Reject(c)
      BY <3>1 DEF TryAlternative, Accept, Reject
    <3>2. CASE RestockAfterCancel(c) \/ AcceptanceTimeoutTick(c)
      BY <3>2 DEF RestockAfterCancel, AcceptanceTimeoutTick
    <3>3. CASE MaybeOpenFunding(c)
      BY <3>3 DEF MaybeOpenFunding, Return
    <3>4. CASE DropShop(c) \/ CancelPgTask(c) \/ ResolveAcceptance(c) \/ ApprovePayment(c)
      BY <3>4 DEF DropShop, CancelPgTask, ResolveAcceptance, ApprovePayment
    <3>5. CASE EndCancel(c) \/ FundingReady(c) \/ NotificationLost(c)
      BY <3>5 DEF EndCancel, FundingReady, NotificationLost, Return, Throw
    <3> QED
      BY <1>5, <3>1, <3>2, <3>3, <3>4, <3>5
  <2>3. calls[c].at # "escrow"
    <3>1. CASE AcceptanceTimeoutTick(c) \/ ApprovePayment(c) \/ Accept(c) \/ Reject(c)
      <4>1. calls[c] = Idle
        BY <3>1 DEF AcceptanceTimeoutTick, ApprovePayment, Accept, Reject
      <4> QED
        BY <4>1 DEF Idle
    <3>2. CASE TryAlternative(c) \/ DropShop(c) \/ CancelPgTask(c) \/ RestockAfterCancel(c)
      BY <3>2 DEF TryAlternative, DropShop, CancelPgTask, RestockAfterCancel
    <3>3. CASE \/ EndCancel(c) \/ MaybeOpenFunding(c) \/ FundingReady(c)
               \/ ResolveAcceptance(c) \/ NotificationLost(c)
      BY <3>3 DEF EndCancel, MaybeOpenFunding, FundingReady, ResolveAcceptance, NotificationLost
    <3> QED
      BY <1>5, <3>1, <3>2, <3>3
  <2> QED
    BY <2>1, <2>2, <2>3, RowsDueStay, RowsKept DEF InState
<1>6. CASE BridgeRestart
  <2>1. UNCHANGED <<orders, escrows>> /\ orphans' = orphans \cup RowsDue
    BY <1>6 DEF BridgeRestart, tables
  <2> QED
    BY <2>1 DEF FundableHasRow, InState
<1>7. CASE CancelTask \/ UNCHANGED vars \/ \E m \in Merchants : QuoteExpires(m)
  <2>1. UNCHANGED <<orders, escrows, orphans, calls>>
    BY <1>7 DEF CancelTask, QuoteExpires, vars, tables, world, cuts
  <2> QED
    BY <2>1, RowsKept DEF InState, RowsDue
<1> QED
  BY <1>1, <1>2, <1>3, <1>4, <1>5, <1>6, <1>7 DEF Next, Step

\* The first decision on an acceptance, or its expiry, is final: the condition
\* on the status in resolveAcceptance and in the timer's update is enough, with
\* any number of answers and timer runs racing on the row.
THEOREM DecisionsAreFinal == Spec => DecisionIsFinal
<1>1. IInv /\ [Next]_vars =>
        [\A a \in DOMAIN acceptances :
           acceptances[a] # "pending" => acceptances'[a] = acceptances[a]]_vars
  BY DecidedRowsStay
<1> QED
  BY <1>1, Invariance, PTL DEF Spec, DecisionIsFinal

\* However many requests interleave and whatever is lost or forgotten, an order that
\* waits for funds has its escrow row, or a handler that is about to write it, or lost
\* that handler to a restart: the handler that finds the row taken has only then been
\* overtaken, and throws (maybeOpenFunding, orchestrator.ts 794-823).
THEOREM FundableOrdersHaveRows == Spec => []FundableHasRow
<1>1. Init => FundableHasRow
  BY DEF Init, FundableHasRow, InState
<1>2. IInv /\ FundableHasRow /\ [Next]_vars => FundableHasRow'
  BY RowsStep
<1> QED
  BY <1>1, <1>2, Invariance, PTL DEF Spec

-----------------------------------------------------------------------------
(* One request at a time *)

OneAtATime == \A c, d \in Calls : c = d

\* No order that is still open supplies basket n, and n was not dropped.
Free(n) ==
    /\ n \notin dropped
    /\ \A o \in DOMAIN orders : orders[o].need = n => orders[o].state \notin Cancellable

\* An order has no escrow row before it waits for funds, and then the row's code,
\* once the row is written.
RowsRight ==
    \A o \in DOMAIN orders :
        /\ orders[o].state \in {"merchant_pending", "merchant_confirmed"} => escrows[o] = 0
        /\ orders[o].state = "awaiting_funding" =>
              \/ escrows[o] = orders[o].hash
              \/ escrows[o] = 0 /\ o \in RowsDue \cup orphans

\* What a request in flight has read is still so when it acts.
FrameRight(c) ==
    /\ calls[c].at = "window" =>
          \A i, j \in DOMAIN calls[c].shops :
             /\ Free(calls[c].shops[i].need)
             /\ calls[c].shops[i].need = calls[c].shops[j].need => i = j
    /\ calls[c].at \in {"resolve", "notify"} =>
          /\ calls[c].decision # "none"
          /\ orders[calls[c].order].state = "merchant_pending"
    /\ calls[c].at = "saga" =>
          /\ orders[calls[c].order].state \in {"merchant_rejected", "expired"}
          /\ Free(orders[calls[c].order].need)
    /\ calls[c].at = "opening" => calls[c].todo = InState({"merchant_confirmed"})
    /\ calls[c].at = "escrow" =>
          /\ orders[calls[c].order].state = "awaiting_funding"
          /\ orders[calls[c].order].hash = calls[c].code
          /\ escrows[calls[c].order] = 0
          /\ calls[c].todo = InState({"merchant_confirmed"}) \cup {calls[c].order}
    /\ calls[c].at \in {"cancel", "restocked"} =>
          /\ calls[c].todo = InState(Cancellable)
          /\ calls[c].todo \cap calls[c].back = InState(Restocked)
    /\ calls[c].at = "restocked" => calls[c].order \in InState(Restocked)

\* No request that could create or decide an order is in flight, or will be.
Past(stages) == InState({"merchant_pending"}) = {} /\ \A c \in Calls : calls[c].at \in stages

\* Funding opens after the last answer, and a window that has ended stays so.
PhaseRight ==
    /\ status = "awaiting_approval" =>
          orders = <<>> /\ dropped = {} /\ \A c \in Calls : calls[c] = Idle
    /\ (InState({"awaiting_funding"}) # {} \/ \E c \in Calls : calls[c].at \in {"opening", "escrow"}) =>
          Past({"idle", "expire", "opening", "escrow"})
    /\ status = "failed" =>
          /\ Past({"idle", "expire"}) /\ InState({"awaiting_funding"}) = {}
          /\ wallet => InState(Holding) = {}
    /\ status = "awaiting_funding" =>
          Past({"idle", "expire"}) /\ InState({"merchant_confirmed"}) = {}

SerialInv ==
    /\ IInv /\ RowsRight /\ NoDoubleSupply /\ PhaseRight
    /\ \A c \in Calls : FrameRight(c)
    /\ dropped \cap Essential = {}

\* Somebody sees to basket n.
SeenTo(n) ==
    \/ n \in dropped
    \/ \E o \in InState(Cancellable) : orders[o].need = n
    \/ \E c \in Calls :
          \/ calls[c].at = "window" /\ \E i \in DOMAIN calls[c].shops : calls[c].shops[i].need = n
          \/ calls[c].at = "saga" /\ orders[calls[c].order].need = n

\* A request is cancelling the task.
GivingUp == \E c \in Calls : calls[c].at \in {"cancel", "restocked"}

\* The task was given up and nothing of it is left.
GivenUp ==
    /\ status \in {"cancelled", "failed"}
    /\ InState(Cancellable) = {} /\ \A c \in Calls : calls[c].at \in {"idle", "expire"}

NothingForgotten ==
    \/ status = "awaiting_approval"
    \/ GivingUp
    \/ GivenUp
    \/ \A i \in DOMAIN OptionShops : SeenTo(OptionShops[i].need)

-----------------------------------------------------------------------------
(* What one step changes *)

\* An order changes its state and nothing else.
LEMMA StateMoves ==
  ASSUME IInv, NEW o \in DOMAIN orders, NEW st \in OrderStates, SetOrderState(o, st)
  PROVE  /\ DOMAIN orders' = DOMAIN orders
         /\ \A p \in DOMAIN orders :
               /\ orders'[p].merchant = orders[p].merchant
               /\ orders'[p].need = orders[p].need
               /\ orders'[p].hash = orders[p].hash
               /\ orders'[p].state = IF p = o THEN st ELSE orders[p].state
<1>1. \A p \in DOMAIN orders : orders[p] \in Orders
  BY TableFacts
<1>2. [orders[o] EXCEPT !.state = st] \in Orders
  BY <1>1 DEF Orders
<1>3. orders' = [orders EXCEPT ![o] = [orders[o] EXCEPT !.state = st]]
  BY DEF SetOrderState
<1>4. DOMAIN orders' = DOMAIN orders
  BY <1>3
<1> QED
  BY <1>1, <1>3, <1>4 DEF Orders

\* A frame that ends is idle or goes on with the timer's loop.
LEMMA ReturnLeaves ==
  ASSUME IInv, NEW c \in Calls, Return(c)
  PROVE  calls'[c].at \in {"idle", "expire"}
<1>1. calls \in [Calls -> Frames]
  BY DEF IInv, TypeOK
<1>2. Resume(c).at \in {"idle", "expire"}
  BY StageFits DEF Resume, Stages, Idle
<1> QED
  BY <1>1, <1>2 DEF Return, Become

LEMMA FrameFacts ==
  ASSUME IInv, NEW c \in Calls
  PROVE  /\ calls \in [Calls -> Frames] /\ calls[c] \in Frames
         /\ calls[c].at \in Stages
         /\ FrameFits(calls[c], Len(orders))
         /\ calls[c].at \in {"resolve", "notify", "saga", "escrow", "restocked"} =>
              calls[c].order \in DOMAIN orders
BY TableFacts DEF IInv, TypeOK, Frames, Stages, FrameFits

LEMMA QuietFrame ==
  ASSUME NEW c \in Calls, calls'[c].at \in {"idle", "expire", "funding"}
  PROVE  FrameRight(c)'
BY DEF FrameRight
-----------------------------------------------------------------------------
(* Every step keeps the serial invariant *)

Only(c) == OneAtATime /\ c \in Calls /\ SerialInv

LEMMA OnlyOne ==
  ASSUME NEW c, Only(c)
  PROVE  /\ Calls = {c} /\ IInv /\ FrameRight(c)
BY DEF Only, OneAtATime, SerialInv

LEMMA ApproveSerial ==
  ASSUME NEW c, Only(c), ApprovePayment(c)
  PROVE  SerialInv'
<1> DEFINE f == [Idle EXCEPT !.at = "window", !.shops = OptionShops]
<1>1. Calls = {c} /\ IInv /\ calls \in [Calls -> Frames]
  BY OnlyOne, FrameFacts
<1>2. orders = <<>> /\ dropped = {} /\ UNCHANGED <<orders, escrows, dropped>>
  BY DEF ApprovePayment, Only, SerialInv, PhaseRight, tables
<1>3. f.at = "window" /\ f.shops = OptionShops
  BY DEF Idle
<1>4. calls'[c] = f
  BY <1>1 DEF ApprovePayment, Become
<1> HIDE DEF f
<1>5. DOMAIN orders = {}
  BY <1>2
<1>6. IInv'
  BY <1>1, ApproveIInv
<1>7. FrameRight(c)'
  BY <1>2, <1>3, <1>4, <1>5, SagaAssumption DEF FrameRight, Free
<1>8. PhaseRight'
  BY <1>1, <1>2, <1>3, <1>4, <1>5 DEF ApprovePayment, PhaseRight, Past, InState
<1>9. RowsRight' /\ NoDoubleSupply' /\ dropped' \cap Essential = {}
  BY <1>2, <1>5 DEF RowsRight, NoDoubleSupply, InState
<1> QED
  BY <1>1, <1>6, <1>7, <1>8, <1>9 DEF SerialInv

\* A step that leaves orders, rows and the outcome alone and ends in a quiet frame.
LEMMA QuietStep ==
  ASSUME NEW c, Only(c), IInv', UNCHANGED <<orders, escrows, dropped, status, wallet, orphans>>,
         status # "awaiting_approval", calls[c].at # "escrow", calls'[c].at \in {"idle", "expire"}
  PROVE  SerialInv'
<1>1. Calls = {c}
  BY OnlyOne
<1>2. FrameRight(c)'
  BY QuietFrame, <1>1
<1>3. PhaseRight'
  BY <1>1 DEF Only, SerialInv, PhaseRight, Past, InState
<1>4. RowsRight'
  <2>1. RowsDue = {}
    BY <1>1 DEF RowsDue
  <2> QED
    BY <2>1 DEF Only, SerialInv, RowsRight
<1> QED
  BY <1>1, <1>2, <1>3, <1>4 DEF Only, SerialInv, NoDoubleSupply, InState

LEMMA NotificationLostSerial ==
  ASSUME NEW c, Only(c), NotificationLost(c)
  PROVE  SerialInv'
<1>1. Calls = {c} /\ IInv /\ calls \in [Calls -> Frames] /\ IInv'
  BY OnlyOne, FrameFacts, LostIInv
<1>2. calls'[c].at = "idle"
  BY <1>1 DEF NotificationLost, Throw, Become, Idle
<1>3. status # "awaiting_approval" /\ calls[c].at # "escrow"
  BY <1>1 DEF NotificationLost, Only, SerialInv, PhaseRight, Idle
<1> QED
  BY <1>1, <1>2, <1>3, QuietStep DEF NotificationLost, tables, outcome, cuts

LEMMA TickSerial ==
  ASSUME NEW c, Only(c), AcceptanceTimeoutTick(c)
  PROVE  SerialInv'
<1>1. Calls = {c} /\ IInv /\ calls \in [Calls -> Frames] /\ IInv'
  BY OnlyOne, FrameFacts, TickIInv
<1>2. PICK stale : Become(c, [Idle EXCEPT !.at = "expire", !.rows = stale])
  BY DEF AcceptanceTimeoutTick
<1>3. calls'[c].at = "expire"
  BY <1>1, <1>2 DEF Become, Idle
<1>4. status # "awaiting_approval"
  <2>1. DOMAIN acceptances # {}
    BY DEF AcceptanceTimeoutTick
  <2>2. orders # <<>>
    BY <1>1, <2>1, TableFacts
  <2> QED
    BY <2>2 DEF Only, SerialInv, PhaseRight
<1>5. calls[c].at # "escrow"
  BY DEF AcceptanceTimeoutTick, Idle
<1> QED
  BY <1>1, <1>3, <1>4, <1>5, QuietStep DEF AcceptanceTimeoutTick, outcome, world, cuts

\* An answer: an order that is pending is looked at, nothing is written yet.
LEMMA AnswerSerial ==
  ASSUME NEW c, Only(c), IInv', UNCHANGED <<orders, escrows, dropped, status, wallet>>,
         NEW o \in InState({"merchant_pending"}), calls'[c].order = o,
         calls'[c].at \in {"resolve", "notify"}, calls'[c].decision # "none"
  PROVE  SerialInv'
<1>1. Calls = {c}
  BY OnlyOne
<1>2. FrameRight(c)'
  BY <1>1 DEF FrameRight, InState
<1>3. PhaseRight'
  BY <1>1 DEF Only, SerialInv, PhaseRight, Past, InState
<1>4. InState({"awaiting_funding"}) = {}
  BY DEF Only, SerialInv, PhaseRight, Past
<1> QED
  BY <1>1, <1>2, <1>3, <1>4 DEF Only, SerialInv, RowsRight, NoDoubleSupply, InState

LEMMA AcceptSerial ==
  ASSUME NEW c, Only(c), Accept(c)
  PROVE  SerialInv'
<1>1. Calls = {c} /\ IInv /\ calls \in [Calls -> Frames] /\ IInv'
  BY OnlyOne, FrameFacts, AcceptIInv
<1>2. PICK a \in DOMAIN acceptances, o \in DOMAIN orders :
        /\ Answerable(a, o)
        /\ Become(c, [Idle EXCEPT
             !.at = "resolve", !.acceptance = a, !.order = o,
             !.decision = IF InStock(o) THEN "accepted" ELSE "rejected"])
  BY DEF Accept
<1>3. calls'[c].at = "resolve" /\ calls'[c].order = o /\ calls'[c].decision # "none"
  BY <1>1, <1>2 DEF Become, Idle
<1>4. o \in InState({"merchant_pending"})
  BY <1>2 DEF Answerable, PendingOrderOf
<1> QED
  BY <1>1, <1>3, <1>4, AnswerSerial DEF Accept, tables, outcome, world, cuts

LEMMA RejectSerial ==
  ASSUME NEW c, Only(c), Reject(c)
  PROVE  SerialInv'
<1>1. Calls = {c} /\ IInv /\ calls \in [Calls -> Frames] /\ IInv'
  BY OnlyOne, FrameFacts, RejectIInv
<1>2. PICK a \in DOMAIN acceptances, o \in DOMAIN orders :
        /\ Answerable(a, o)
        /\ Become(c, [Idle EXCEPT !.at = "resolve", !.acceptance = a,
                        !.order = o, !.decision = "rejected"])
  BY DEF Reject
<1>3. calls'[c].at = "resolve" /\ calls'[c].order = o /\ calls'[c].decision # "none"
  BY <1>1, <1>2 DEF Become, Idle
<1>4. o \in InState({"merchant_pending"})
  BY <1>2 DEF Answerable, PendingOrderOf
<1> QED
  BY <1>1, <1>3, <1>4, AnswerSerial DEF Reject, tables, outcome, world, cuts

LEMMA ResolveAcceptanceSerial ==
  ASSUME NEW c, Only(c), ResolveAcceptance(c)
  PROVE  SerialInv'
<1>1. Calls = {c} /\ IInv /\ calls[c] \in Frames /\ calls \in [Calls -> Frames] /\ IInv'
      /\ FrameRight(c) /\ calls[c].at = "resolve" /\ calls[c].order \in DOMAIN orders
  BY OnlyOne, FrameFacts, ResolveAcceptanceIInv DEF ResolveAcceptance
<1>2. /\ calls'[c].at = "notify" /\ calls'[c].order = calls[c].order
      /\ calls'[c].decision = calls[c].decision
  BY <1>1 DEF ResolveAcceptance, Become, Frames
<1>3. calls[c].order \in InState({"merchant_pending"}) /\ calls[c].decision # "none"
  BY <1>1 DEF FrameRight, InState
<1> QED
  BY <1>1, <1>2, <1>3, AnswerSerial DEF ResolveAcceptance, outcome, world, cuts

\* Who is still waited for keeps funding closed and the task alive.
LEMMA BusyIsOpen ==
  ASSUME NEW c, Only(c),
         \/ calls[c].at \in {"window", "resolve", "notify", "saga", "funding", "cancel", "restocked"}
         \/ InState({"merchant_pending"}) # {}
  PROVE  /\ status \notin {"awaiting_approval", "failed", "awaiting_funding"}
         /\ InState({"awaiting_funding"}) = {} /\ calls[c].at \notin {"opening", "escrow"}
<1>1. Calls = {c} /\ IInv /\ (orders # <<>> \/ calls[c].at # "idle")
  BY OnlyOne, TableFacts DEF InState
<1> QED
  BY <1>1, OnlyOne DEF Only, SerialInv, PhaseRight, Past, Idle

LEMMA OpenWindowSerial ==
  ASSUME NEW c, Only(c), OpenAcceptanceWindow(c)
  PROVE  SerialInv'
<1> DEFINE shops == calls[c].shops
           shop == Head(shops)
           rest == Tail(shops)
           order == [merchant |-> shop.merchant, need |-> shop.need,
                     state |-> "merchant_pending", hash |-> 0]
<1>1. Calls = {c} /\ IInv /\ calls[c] \in Frames /\ calls \in [Calls -> Frames] /\ IInv'
      /\ FrameRight(c) /\ calls[c].at = "window" /\ FrameFits(calls[c], Len(orders))
  BY OnlyOne, FrameFacts, OpenWindowIInv DEF OpenAcceptanceWindow
<1>2. shops \in Seq(Shops) /\ shops # <<>> /\ shop = shops[1] /\ 1 \in DOMAIN shops
  BY <1>1 DEF FrameFits, Frames
<1>3. rest \in Seq(Shops) /\ Len(rest) = Len(shops) - 1
      /\ \A i \in DOMAIN rest : rest[i] = shops[i + 1] /\ i + 1 \in DOMAIN shops
  BY <1>2, HeadTailProperties
<1>4. \A i, j \in DOMAIN shops : Free(shops[i].need) /\ (shops[i].need = shops[j].need => i = j)
  BY <1>1 DEF FrameRight
<1>5. /\ status \notin {"awaiting_approval", "failed", "awaiting_funding"}
      /\ InState({"awaiting_funding"}) = {}
  BY <1>1, BusyIsOpen
<1>6. UNCHANGED <<dropped, status, wallet>>
  BY DEF OpenAcceptanceWindow, outcome, world, cuts
<1>7. /\ calls'[c].at \in {"idle", "expire", "window"}
      /\ calls'[c].at = "window" => calls'[c].shops = rest
  <2>1. CASE Return(c)
    BY <1>1, <2>1, ReturnLeaves
  <2>2. CASE Become(c, [calls[c] EXCEPT !.shops = rest])
    BY <1>1, <2>2 DEF Become, Frames
  <2> QED
    BY <2>1, <2>2 DEF OpenAcceptanceWindow
<1>8. orders \in Seq(Orders) /\ escrows \in Seq(Nat) /\ Len(escrows) = Len(orders)
  BY <1>1 DEF IInv, TypeOK
<1>9. \/ UNCHANGED <<orders, escrows>>
      \/ orders' = Append(orders, order) /\ escrows' = Append(escrows, 0)
  BY DEF OpenAcceptanceWindow, tables
<1> HIDE DEF shops, shop, rest
<1>10. Free(shop.need) /\ \A i \in DOMAIN rest : /\ Free(rest[i].need) /\ rest[i].need # shop.need
                                                /\ \A j \in DOMAIN rest : rest[i].need = rest[j].need => i = j
  <2>1. \A i \in DOMAIN rest : i \in Nat /\ i # 0
    BY <1>3
  <2> QED
    BY <1>2, <1>3, <1>4, <2>1
<1>11. CASE UNCHANGED <<orders, escrows>>
  <2>1. FrameRight(c)'
    BY <1>6, <1>7, <1>10, <1>11 DEF FrameRight, Free
  <2>2. PhaseRight'
    BY <1>1, <1>5, <1>6, <1>7, <1>11 DEF PhaseRight, InState
  <2> QED
    BY <1>1, <1>5, <1>6, <1>11, <2>1, <2>2 DEF Only, SerialInv, RowsRight, NoDoubleSupply, InState
<1>12. CASE orders' = Append(orders, order) /\ escrows' = Append(escrows, 0)
  <2> DEFINE n == Len(orders) + 1
  <2>1. /\ DOMAIN orders' = 1 .. n /\ n \notin DOMAIN orders /\ DOMAIN orders = 1 .. Len(orders)
        /\ \A o \in DOMAIN orders : orders'[o] = orders[o] /\ escrows'[o] = escrows[o]
        /\ orders'[n] = order /\ escrows'[n] = 0 /\ n \in Nat
        /\ \A o \in DOMAIN orders' : o \in DOMAIN orders \/ o = n
    BY <1>8, <1>12
  <2>2. orders'[n].state = "merchant_pending" /\ orders'[n].need = shop.need
    BY <2>1
  <2> HIDE DEF n, order
  <2>3. FrameRight(c)'
    BY <1>6, <1>7, <1>10, <2>1, <2>2 DEF FrameRight, Free
  <2>4. PhaseRight'
    BY <1>1, <1>5, <1>6, <1>7, <2>1, <2>2 DEF PhaseRight, InState
  <2>5. RowsRight'
    BY <1>5, <2>1, <2>2 DEF Only, SerialInv, RowsRight, InState
  <2>6. NoDoubleSupply'
    <3> SUFFICES ASSUME NEW o \in InState(Cancellable)', NEW p \in InState(Cancellable)'
                 PROVE  /\ orders'[o].need \notin dropped'
                        /\ orders'[o].need = orders'[p].need => o = p
      BY DEF NoDoubleSupply
    <3>1. o \in DOMAIN orders' /\ p \in DOMAIN orders'
          /\ (o \in DOMAIN orders => o \in InState(Cancellable))
          /\ (p \in DOMAIN orders => p \in InState(Cancellable))
      BY <2>1 DEF InState
    <3>2. \A q \in InState(Cancellable) : orders[q].need # shop.need
      BY <1>10 DEF Free, InState
    <3> QED
      BY <1>6, <1>10, <2>1, <2>2, <3>1, <3>2 DEF Only, SerialInv, NoDoubleSupply, Free
  <2> QED
    BY <1>1, <1>6, <2>3, <2>4, <2>5, <2>6 DEF Only, SerialInv
<1> QED
  BY <1>9, <1>11, <1>12

\* One pending order is answered or expires.
LEMMA PendingMoves ==
  ASSUME NEW c, Only(c), NEW o \in InState({"merchant_pending"}),
         NEW st \in {"merchant_confirmed", "merchant_rejected", "expired"}, SetOrderState(o, st),
         UNCHANGED <<escrows, dropped, status, wallet>>, IInv',
         \/ st = "merchant_confirmed" /\ calls'[c].at = "funding"
         \/ /\ st # "merchant_confirmed" /\ calls'[c].at = "saga" /\ calls'[c].order = o
  PROVE  SerialInv'
<1>1. Calls = {c} /\ IInv /\ o \in DOMAIN orders /\ st \in OrderStates
      /\ orders[o].state = "merchant_pending"
  BY OnlyOne DEF InState, OrderStates
<1>2. /\ DOMAIN orders' = DOMAIN orders
      /\ \A p \in DOMAIN orders :
            /\ orders'[p].need = orders[p].need
            /\ orders'[p].hash = orders[p].hash
            /\ orders'[p].state = IF p = o THEN st ELSE orders[p].state
  BY <1>1, StateMoves
<1>3. /\ status \notin {"awaiting_approval", "failed", "awaiting_funding"}
      /\ InState({"awaiting_funding"}) = {}
  BY <1>1, BusyIsOpen
<1>4. o \in InState(Cancellable)
  BY <1>1 DEF InState, Cancellable
<1>5. RowsRight'
  BY <1>1, <1>2, <1>3 DEF Only, SerialInv, RowsRight, InState
<1>6. PhaseRight'
  BY <1>1, <1>2, <1>3 DEF PhaseRight, InState
<1>7. NoDoubleSupply'
  BY <1>1, <1>2, <1>4 DEF Only, SerialInv, NoDoubleSupply, InState, Cancellable
<1>8. FrameRight(c)'
  <2>1. orders[o].need \notin dropped
        /\ \A p \in DOMAIN orders : orders[p].need = orders[o].need /\ p # o =>
              orders[p].state \notin Cancellable
    BY <1>4 DEF Only, SerialInv, NoDoubleSupply, InState
  <2> QED
    BY <1>1, <1>2, <2>1 DEF FrameRight, Free, Cancellable
<1> QED
  BY <1>1, <1>5, <1>6, <1>7, <1>8 DEF Only, SerialInv

LEMMA ResolveMerchantSerial ==
  ASSUME NEW c, Only(c), ResolveMerchantAcceptance(c)
  PROVE  SerialInv'
<1>1. Calls = {c} /\ IInv /\ calls \in [Calls -> Frames] /\ IInv' /\ calls[c] \in Frames
      /\ FrameRight(c) /\ calls[c].at = "notify" /\ calls[c].order \in DOMAIN orders
  BY OnlyOne, FrameFacts, ResolveMerchantIInv DEF ResolveMerchantAcceptance
<1>2. calls[c].order \in InState({"merchant_pending"}) /\ calls[c].order \in Nat
  BY <1>1 DEF FrameRight, InState, Frames
<1>3. /\ Stage(c, "funding") \in Frames /\ Stage(c, "funding").at = "funding"
      /\ Stage(c, "saga") \in Frames /\ Stage(c, "saga").at = "saga"
  BY <1>1, StageFits DEF Stages
<1>4. SetOrderState(calls[c].order, StateFor(calls[c].decision))
      /\ UNCHANGED <<escrows, dropped, status, wallet>>
  BY DEF ResolveMerchantAcceptance, outcome, world, cuts
<1>5. CASE calls[c].decision = "accepted"
  BY <1>1, <1>2, <1>3, <1>4, <1>5, PendingMoves DEF ResolveMerchantAcceptance, Become, StateFor
<1>6. CASE calls[c].decision # "accepted"
  <2>1. calls'[c].at = "saga" /\ calls'[c].order = calls[c].order
    BY <1>1, <1>2, <1>3, <1>6 DEF ResolveMerchantAcceptance, Become, Frames
  <2> QED
    BY <1>1, <1>2, <1>4, <1>6, <2>1, PendingMoves DEF StateFor
<1> QED
  BY <1>5, <1>6

LEMMA ExpireOrderSerial ==
  ASSUME NEW c, Only(c), ExpireOrder(c)
  PROVE  SerialInv'
<1>1. Calls = {c} /\ IInv /\ calls \in [Calls -> Frames] /\ IInv' /\ calls[c] \in Frames
      /\ calls[c].at = "expire" /\ UNCHANGED <<escrows, dropped, status, wallet, orphans>>
  BY OnlyOne, FrameFacts, ExpireOrderIInv DEF ExpireOrder, outcome, world, cuts
<1>2. status # "awaiting_approval"
  BY <1>1 DEF Only, SerialInv, PhaseRight, Idle
<1>3. PICK row \in calls[c].rows :
        LET rest == calls[c].rows \ {row}
        IN  \/ /\ Become(c, IF rest = {} THEN Idle
                            ELSE [calls[c] EXCEPT !.rows = rest])
               /\ UNCHANGED orders
            \/ \E o \in PendingOrderOf(orders[row].merchant) :
                  /\ SetOrderState(o, "expired")
                  /\ Become(c, [calls[c] EXCEPT
                                  !.at = "saga", !.order = o, !.rows = rest])
  BY DEF ExpireOrder
<1> DEFINE rest == calls[c].rows \ {row}
<1>4. CASE Become(c, IF rest = {} THEN Idle ELSE [calls[c] EXCEPT !.rows = rest]) /\ UNCHANGED orders
  <2>1. calls'[c].at \in {"idle", "expire"}
    BY <1>1, <1>4 DEF Become, Idle, Frames
  <2> QED
    BY <1>1, <1>2, <1>4, <2>1, QuietStep
<1>5. ASSUME NEW o \in PendingOrderOf(orders[row].merchant), SetOrderState(o, "expired"),
             Become(c, [calls[c] EXCEPT !.at = "saga", !.order = o, !.rows = rest])
      PROVE  SerialInv'
  <2>1. calls'[c].at = "saga" /\ calls'[c].order = o
    BY <1>1, <1>5 DEF Become, Frames
  <2>2. o \in InState({"merchant_pending"})
    BY DEF PendingOrderOf
  <2> QED
    BY <1>1, <1>5, <2>1, <2>2, PendingMoves
<1> QED
  BY <1>3, <1>4, <1>5

LEMMA AlternativeSerial ==
  ASSUME NEW c, Only(c), TryAlternative(c)
  PROVE  SerialInv'
<1>1. Calls = {c} /\ IInv /\ calls \in [Calls -> Frames] /\ IInv' /\ FrameRight(c)
      /\ calls[c].at = "saga" /\ UNCHANGED <<orders, escrows, dropped, status, wallet>>
  BY OnlyOne, FrameFacts, AlternativeIInv DEF TryAlternative, tables, outcome, world, cuts
<1>2. PICK shop \in FindAlternativeShop(calls[c].order) :
        Become(c, [Stage(c, "window") EXCEPT !.shops = <<shop>>])
  BY DEF TryAlternative
<1>3. shop.need = orders[calls[c].order].need
  BY DEF FindAlternativeShop
<1>4. Stage(c, "window") \in Frames /\ Stage(c, "window").at = "window"
  BY <1>1, StageFits DEF Stages
<1>5. calls'[c].at = "window" /\ calls'[c].shops = <<shop>>
  BY <1>1, <1>2, <1>4 DEF Become, Frames
<1>6. Free(shop.need)
  BY <1>1, <1>3 DEF FrameRight
<1>7. FrameRight(c)'
  <2>1. \A i \in DOMAIN <<shop>> : i = 1
    OBVIOUS
  <2> QED
    BY <1>1, <1>5, <1>6, <2>1 DEF FrameRight, Free
<1>8. PhaseRight'
  BY <1>1, <1>5, BusyIsOpen DEF PhaseRight, InState
<1>9. InState({"awaiting_funding"}) = {}
  BY <1>1, BusyIsOpen
<1> QED
  BY <1>1, <1>7, <1>8, <1>9 DEF Only, SerialInv, RowsRight, NoDoubleSupply, InState

LEMMA DropSerial ==
  ASSUME NEW c, Only(c), DropShop(c)
  PROVE  SerialInv'
<1> DEFINE need == orders[calls[c].order].need
<1>1. Calls = {c} /\ IInv /\ calls \in [Calls -> Frames] /\ IInv' /\ FrameRight(c)
      /\ calls[c].at = "saga" /\ UNCHANGED <<orders, escrows, status, wallet>>
  BY OnlyOne, FrameFacts, DropIInv DEF DropShop, tables, world, cuts
<1>2. calls'[c].at = "funding" /\ need \notin Essential /\ dropped' = dropped \cup {need}
  BY <1>1, StageFits DEF DropShop, Stages, Become
<1>3. FrameRight(c)'
  BY <1>2, QuietFrame, <1>1
<1>4. PhaseRight'
  BY <1>1, <1>2, BusyIsOpen DEF PhaseRight, InState
<1>5. Free(need)
  BY <1>1 DEF FrameRight
<1>6. NoDoubleSupply'
  BY <1>1, <1>2, <1>5 DEF Only, SerialInv, NoDoubleSupply, InState, Free
<1>7. InState({"awaiting_funding"}) = {}
  BY <1>1, BusyIsOpen
<1> QED
  BY <1>1, <1>2, <1>3, <1>4, <1>6, <1>7 DEF Only, SerialInv, RowsRight, InState

\* Steps of a request that is cancelling the task: while it lasts nothing waits for
\* funds and the status is still open.
LEMMA CancelStep ==
  ASSUME NEW c, Only(c), IInv', calls[c].at \in {"saga", "cancel", "restocked"},
         calls'[c].at \in {"cancel", "restocked"}, FrameRight(c)',
         UNCHANGED <<escrows, dropped, status, wallet>>, DOMAIN orders' = DOMAIN orders,
         \A p \in DOMAIN orders :
            /\ orders'[p].need = orders[p].need
            /\ orders'[p].state \in {orders[p].state, "cancelled"}
  PROVE  SerialInv'
<1>1. Calls = {c}
  BY OnlyOne
<1>2. /\ status \notin {"awaiting_approval", "failed", "awaiting_funding"}
      /\ InState({"awaiting_funding"}) = {}
  BY <1>1, BusyIsOpen
<1>3. InState({"awaiting_funding"})' = {}
  BY <1>2 DEF InState
<1>4. PhaseRight'
  BY <1>1, <1>2, <1>3 DEF PhaseRight
<1>5. RowsRight'
  BY <1>3 DEF Only, SerialInv, RowsRight, InState
<1>6. NoDoubleSupply'
  <2>1. InState(Cancellable)' \subseteq InState(Cancellable)
    BY DEF InState, Cancellable
  <2> QED
    BY <2>1 DEF Only, SerialInv, NoDoubleSupply, InState
<1> QED
  BY <1>1, <1>4, <1>5, <1>6 DEF Only, SerialInv

LEMMA CancelPgSerial ==
  ASSUME NEW c, Only(c), CancelPgTask(c)
  PROVE  SerialInv'
<1>1. Calls = {c} /\ IInv /\ calls \in [Calls -> Frames] /\ IInv'
      /\ calls[c].at = "saga" /\ UNCHANGED <<orders, escrows, dropped, status, wallet>>
  BY OnlyOne, FrameFacts, CancelPgIInv DEF CancelPgTask, tables, outcome, world, cuts
<1>2. Stage(c, "cancel") \in Frames /\ Stage(c, "cancel").at = "cancel"
  BY <1>1, StageFits DEF Stages
<1>3. /\ calls'[c].at = "cancel" /\ calls'[c].todo = InState(Cancellable)
      /\ calls'[c].back = InState(Restocked)
  BY <1>1, <1>2 DEF CancelPgTask, Become, Frames
<1>4. FrameRight(c)'
  BY <1>1, <1>3 DEF FrameRight, InState, Cancellable, Restocked
<1> QED
  BY <1>1, <1>3, <1>4, CancelStep

LEMMA RestockSerial ==
  ASSUME NEW c, Only(c), RestockAfterCancel(c)
  PROVE  SerialInv'
<1>1. Calls = {c} /\ IInv /\ calls \in [Calls -> Frames] /\ IInv' /\ FrameRight(c)
      /\ calls[c] \in Frames /\ calls[c].at = "cancel"
      /\ UNCHANGED <<orders, escrows, dropped, status, wallet>>
  BY OnlyOne, FrameFacts, RestockIInv DEF RestockAfterCancel, tables, outcome, world, cuts
<1>2. PICK o \in calls[c].todo \cap calls[c].back :
        Become(c, [calls[c] EXCEPT !.at = "restocked", !.order = o])
  BY DEF RestockAfterCancel
<1>3. /\ calls'[c].at = "restocked" /\ calls'[c].order = o
      /\ calls'[c].todo = calls[c].todo /\ calls'[c].back = calls[c].back
  BY <1>1, <1>2 DEF Become, Frames
<1>4. FrameRight(c)'
  BY <1>1, <1>3 DEF FrameRight, InState
<1> QED
  BY <1>1, <1>3, <1>4, CancelStep

LEMMA CancelListedSerial ==
  ASSUME NEW c, Only(c), CancelListedOrder(c)
  PROVE  SerialInv'
<1>1. Calls = {c} /\ IInv /\ calls \in [Calls -> Frames] /\ IInv' /\ FrameRight(c)
      /\ calls[c] \in Frames /\ calls[c].at \in {"cancel", "restocked"}
      /\ UNCHANGED <<escrows, dropped, status, wallet>>
  BY OnlyOne, FrameFacts, CancelListedIInv DEF CancelListedOrder, outcome, world, cuts
<1>2. PICK o \in calls[c].todo :
        /\ SetOrderState(o, "cancelled")
        /\ Become(c, [calls[c] EXCEPT !.at = "cancel", !.order = 0, !.todo = @ \ {o}])
  BY DEF CancelListedOrder
<1>3. /\ calls[c].todo = InState(Cancellable)
      /\ calls[c].todo \cap calls[c].back = InState(Restocked)
  BY <1>1 DEF FrameRight
<1>4. o \in DOMAIN orders /\ "cancelled" \in OrderStates
  BY <1>3 DEF InState, OrderStates
<1>5. /\ DOMAIN orders' = DOMAIN orders
      /\ \A p \in DOMAIN orders :
            /\ orders'[p].need = orders[p].need
            /\ orders'[p].state = IF p = o THEN "cancelled" ELSE orders[p].state
  BY <1>1, <1>2, <1>4, StateMoves
<1>6. /\ calls'[c].at = "cancel" /\ calls'[c].todo = calls[c].todo \ {o}
      /\ calls'[c].back = calls[c].back
  BY <1>1, <1>2 DEF Become, Frames
<1>7. InState(Cancellable)' = InState(Cancellable) \ {o}
      /\ InState(Restocked)' = InState(Restocked) \ {o}
  BY <1>5 DEF InState, Cancellable, Restocked
<1>8. FrameRight(c)'
  BY <1>3, <1>6, <1>7 DEF FrameRight
<1> QED
  BY <1>1, <1>5, <1>6, <1>8, CancelStep

LEMMA EndCancelSerial ==
  ASSUME NEW c, Only(c), EndCancel(c)
  PROVE  SerialInv' /\ GivenUp'
<1>1. Calls = {c} /\ IInv /\ IInv' /\ FrameRight(c) /\ calls[c].at = "cancel" /\ calls[c].todo = {}
      /\ UNCHANGED <<orders, escrows, dropped, wallet>> /\ status' = "cancelled"
  BY OnlyOne, StatusIInv DEF EndCancel, tables, world, cuts
<1>2. calls'[c].at \in {"idle", "expire"}
  BY <1>1, ReturnLeaves DEF EndCancel
<1>3. InState(Cancellable) = {} /\ InState(Cancellable)' = {}
  BY <1>1 DEF FrameRight, InState
<1>4. InState({"awaiting_funding"})' = {}
  BY <1>3 DEF InState, Cancellable
<1>5. RowsRight'
  BY <1>1, <1>4 DEF Only, SerialInv, RowsRight, InState
<1>6. PhaseRight'
  BY <1>1, <1>2, <1>4 DEF PhaseRight
<1> QED
  BY <1>1, <1>2, <1>3, <1>5, <1>6, QuietFrame DEF Only, SerialInv, NoDoubleSupply, GivenUp

LEMMA MaybeOpenSerial ==
  ASSUME NEW c, Only(c), MaybeOpenFunding(c)
  PROVE  SerialInv'
<1>1. Calls = {c} /\ IInv /\ calls \in [Calls -> Frames] /\ IInv'
      /\ calls[c].at = "funding" /\ UNCHANGED <<orders, escrows, dropped, wallet, orphans>>
  BY OnlyOne, FrameFacts, MaybeOpenIInv DEF MaybeOpenFunding, tables, world, cuts
<1>2. /\ status \notin {"awaiting_approval", "failed", "awaiting_funding"}
      /\ InState({"awaiting_funding"}) = {}
  BY <1>1, BusyIsOpen
<1>3. CASE StillWaiting /\ Return(c) /\ UNCHANGED status
  BY <1>1, <1>2, <1>3, ReturnLeaves, QuietStep
<1>4. CASE ~StillWaiting /\ NothingToFund /\ status' = "failed" /\ Return(c)
  <2>1. calls'[c].at \in {"idle", "expire"}
    BY <1>1, <1>4, ReturnLeaves
  <2>2. InState({"merchant_pending"}) = {} /\ (wallet => InState({"merchant_confirmed"}) = {})
    BY <1>4 DEF StillWaiting, NothingToFund
  <2>3. PhaseRight'
    BY <1>1, <1>2, <1>4, <2>1, <2>2 DEF PhaseRight, Past, InState, Holding
  <2> QED
    BY <1>1, <1>2, <2>1, <2>3, QuietFrame DEF Only, SerialInv, RowsRight, NoDoubleSupply, InState
<1>5. CASE /\ ~StillWaiting /\ UNCHANGED status
           /\ Become(c, [Stage(c, "opening") EXCEPT !.todo = InState({"merchant_confirmed"})])
  <2>1. Stage(c, "opening") \in Frames /\ Stage(c, "opening").at = "opening"
    BY <1>1, StageFits DEF Stages
  <2>2. calls'[c].at = "opening" /\ calls'[c].todo = InState({"merchant_confirmed"})
    BY <1>1, <1>5, <2>1 DEF Become, Frames
  <2>3. InState({"merchant_confirmed"})' = InState({"merchant_confirmed"})
    BY <1>1 DEF InState
  <2>4. FrameRight(c)'
    BY <2>2, <2>3 DEF FrameRight
  <2>5. PhaseRight'
    BY <1>1, <1>2, <1>5, <2>2 DEF PhaseRight, Past, InState, StillWaiting
  <2> QED
    BY <1>1, <1>2, <2>4, <2>5 DEF Only, SerialInv, RowsRight, NoDoubleSupply, InState
<1> QED
  BY <1>3, <1>4, <1>5 DEF MaybeOpenFunding

LEMMA OpenEscrowSerial ==
  ASSUME NEW c, Only(c), OpenEscrow(c)
  PROVE  SerialInv'
<1>1. Calls = {c} /\ IInv /\ calls \in [Calls -> Frames] /\ calls[c] \in Frames /\ IInv'
      /\ FrameRight(c) /\ calls[c].at = "opening"
      /\ UNCHANGED <<escrows, dropped, status, wallet, orphans>>
  BY OnlyOne, FrameFacts, OpenEscrowIInv DEF OpenEscrow, outcome, world, cuts
<1>2. /\ calls[c].todo = InState({"merchant_confirmed"})
      /\ Past({"idle", "expire", "opening", "escrow"})
      /\ status \notin {"awaiting_approval", "failed", "awaiting_funding"}
  BY <1>1 DEF FrameRight, Only, SerialInv, PhaseRight, Past, Idle
<1>3. PICK o \in InState({"merchant_confirmed"}) :
        LET code == orders[o].hash + 1
        IN  /\ orders' = [orders EXCEPT ![o] = WithCode(@, code)]
            /\ Become(c, [calls[c] EXCEPT !.at = "escrow", !.order = o, !.code = code])
  BY <1>2 DEF OpenEscrow
<1> DEFINE code == orders[o].hash + 1
<1>4. o \in DOMAIN orders /\ orders[o].state = "merchant_confirmed" /\ escrows[o] = 0
      /\ DOMAIN escrows = DOMAIN orders /\ \A p \in DOMAIN orders : orders[p] \in Orders
  BY <1>1, TableFacts DEF InState, Only, SerialInv, RowsRight
<1>5. /\ DOMAIN orders' = DOMAIN orders
      /\ \A p \in DOMAIN orders :
            /\ orders'[p].need = orders[p].need
            /\ p # o => orders'[p] = orders[p]
      /\ orders'[o].state = "awaiting_funding" /\ orders'[o].hash = code
  <2>1. WithCode(orders[o], code).state = "awaiting_funding" /\ WithCode(orders[o], code).hash = code
        /\ WithCode(orders[o], code).need = orders[o].need
    BY <1>4 DEF WithCode, Orders
  <2> QED
    BY <1>3, <1>4, <2>1
<1>6. /\ calls'[c].at = "escrow" /\ calls'[c].order = o /\ calls'[c].code = code
      /\ calls'[c].todo = calls[c].todo
  BY <1>1, <1>3 DEF Become, Frames
<1> HIDE DEF code
<1>7. /\ InState({"merchant_confirmed"}) = InState({"merchant_confirmed"})' \cup {o}
      /\ InState({"merchant_pending"})' = {}
  BY <1>2, <1>4, <1>5 DEF InState, Past
<1>8. InState(Cancellable)' = InState(Cancellable)
  BY <1>4, <1>5 DEF InState, Cancellable
<1>9. RowsRight'
  <2>1. RowsDue = {} /\ o \in RowsDue'
    BY <1>1, <1>6 DEF RowsDue
  <2> QED
    BY <1>1, <1>4, <1>5, <2>1 DEF Only, SerialInv, RowsRight
<1>10. NoDoubleSupply'
  BY <1>1, <1>5, <1>8 DEF Only, SerialInv, NoDoubleSupply, InState
<1>11. PhaseRight'
  BY <1>1, <1>2, <1>6, <1>7 DEF PhaseRight, Past
<1>12. FrameRight(c)'
  BY <1>1, <1>2, <1>4, <1>5, <1>6, <1>7 DEF FrameRight
<1> QED
  BY <1>1, <1>9, <1>10, <1>11, <1>12 DEF Only, SerialInv

LEMMA WriteRowSerial ==
  ASSUME NEW c, Only(c), WriteEscrowRow(c)
  PROVE  SerialInv'
<1> DEFINE o == calls[c].order
<1>1. Calls = {c} /\ IInv /\ calls \in [Calls -> Frames] /\ calls[c] \in Frames /\ IInv'
      /\ FrameRight(c) /\ calls[c].at = "escrow" /\ o \in DOMAIN orders
      /\ UNCHANGED <<orders, dropped, status, wallet, orphans>>
  BY OnlyOne, FrameFacts, WriteRowIInv DEF WriteEscrowRow, outcome, world, cuts
<1>2. /\ orders[o].state = "awaiting_funding" /\ orders[o].hash = calls[c].code /\ escrows[o] = 0
      /\ calls[c].todo = InState({"merchant_confirmed"}) \cup {o}
  BY <1>1 DEF FrameRight
<1>3. /\ Past({"idle", "expire", "opening", "escrow"})
      /\ status \notin {"awaiting_approval", "failed", "awaiting_funding"}
  BY <1>1 DEF Only, SerialInv, PhaseRight, Past, Idle
<1>4. /\ escrows' = [escrows EXCEPT ![o] = calls[c].code]
      /\ Become(c, [calls[c] EXCEPT !.at = "opening", !.order = 0, !.code = 0, !.todo = @ \ {o}])
  BY <1>2 DEF WriteEscrowRow, EscrowRowExists
<1>5. calls'[c].at = "opening" /\ calls'[c].todo = calls[c].todo \ {o}
  BY <1>1, <1>4 DEF Become, Frames
<1>6. DOMAIN escrows = DOMAIN orders
  BY <1>1, TableFacts
<1>7. escrows'[o] = orders[o].hash /\ \A p \in DOMAIN orders : p # o => escrows'[p] = escrows[p]
  BY <1>1, <1>2, <1>4, <1>6
<1>8. RowsDue = {o}
  BY <1>1 DEF RowsDue
<1> HIDE DEF o
<1>9. RowsRight'
  BY <1>1, <1>2, <1>7, <1>8 DEF Only, SerialInv, RowsRight
<1>10. calls'[c].todo = InState({"merchant_confirmed"})'
  BY <1>1, <1>2, <1>5 DEF InState
<1>11. PhaseRight'
  BY <1>1, <1>3, <1>5 DEF PhaseRight, Past, InState
<1>12. FrameRight(c)'
  BY <1>5, <1>10 DEF FrameRight
<1> QED
  BY <1>1, <1>9, <1>11, <1>12 DEF Only, SerialInv, NoDoubleSupply, InState

LEMMA FundingReadySerial ==
  ASSUME NEW c, Only(c), FundingReady(c)
  PROVE  SerialInv'
<1>1. Calls = {c} /\ IInv /\ IInv' /\ FrameRight(c) /\ calls[c].at = "opening" /\ calls[c].todo = {}
      /\ UNCHANGED <<orders, escrows, dropped, wallet, orphans>> /\ status' = "awaiting_funding"
  BY OnlyOne, StatusIInv DEF FundingReady, tables, world, cuts
<1>2. InState({"merchant_confirmed"}) = {} /\ InState({"merchant_pending"}) = {}
  BY <1>1 DEF FrameRight, Only, SerialInv, PhaseRight, Past
<1>3. calls'[c].at \in {"idle", "expire"}
  BY <1>1, ReturnLeaves DEF FundingReady
<1>4. PhaseRight'
  BY <1>1, <1>2, <1>3 DEF PhaseRight, Past, InState
<1>5. RowsRight'
  <2>1. RowsDue = {}
    BY <1>1 DEF RowsDue
  <2> QED
    BY <1>1, <2>1 DEF Only, SerialInv, RowsRight
<1> QED
  BY <1>1, <1>3, <1>4, <1>5, QuietFrame DEF Only, SerialInv, NoDoubleSupply, InState

LEMMA OutsideSerial ==
  ASSUME OneAtATime, SerialInv,
         CancelTask \/ BridgeRestart \/ UNCHANGED vars \/ \E m \in Merchants : QuoteExpires(m)
  PROVE  SerialInv'
<1>1. IInv'
  BY CancelTaskIInv, RestartIInv, StutterIInv, QuoteExpiresIInv DEF SerialInv
<1>2. UNCHANGED <<orders, escrows, dropped, wallet>>
  BY DEF CancelTask, BridgeRestart, QuoteExpires, vars, tables, outcome, world, cuts
<1>3. status' = status \/ status' = "cancelled"
  BY DEF CancelTask, BridgeRestart, QuoteExpires, vars, outcome
<1>4. \A c \in Calls : calls'[c] = calls[c] \/ calls'[c] = Idle
  BY DEF CancelTask, BridgeRestart, QuoteExpires, vars
<1>5. \A c \in Calls : FrameRight(c)'
  BY <1>2, <1>4 DEF FrameRight, Free, Idle, InState, SerialInv
<1>6. PhaseRight'
  BY <1>2, <1>3, <1>4 DEF SerialInv, PhaseRight, Past, InState, Idle
<1>7. RowsRight'
  <2>1. RowsDue \cup orphans \subseteq RowsDue' \cup orphans'
    BY DEF CancelTask, BridgeRestart, QuoteExpires, vars, world, cuts, RowsDue
  <2> QED
    BY <1>2, <2>1 DEF SerialInv, RowsRight
<1> QED
  BY <1>1, <1>2, <1>5, <1>6, <1>7 DEF SerialInv, NoDoubleSupply, InState

LEMMA InitSerial == Init => SerialInv
<1> SUFFICES ASSUME Init PROVE SerialInv
  OBVIOUS
<1>1. DOMAIN orders = {}
  BY DEF Init
<1> QED
  BY <1>1, InitIInv DEF Init, SerialInv, RowsRight, NoDoubleSupply, PhaseRight, Past,
     FrameRight, InState, Idle

LEMMA SerialStep == OneAtATime /\ SerialInv /\ [Next]_vars => SerialInv'
<1> SUFFICES ASSUME OneAtATime, SerialInv, [Next]_vars PROVE SerialInv'
  OBVIOUS
<1>1. ASSUME NEW c \in Calls,
             \/ ApprovePayment(c) \/ Accept(c) \/ Reject(c)
             \/ AcceptanceTimeoutTick(c) \/ NotificationLost(c) \/ Step(c)
      PROVE  SerialInv'
  <2>1. Only(c)
    BY DEF Only
  <2> QED
    BY <1>1, <2>1, ApproveSerial, AcceptSerial, RejectSerial, TickSerial,
       NotificationLostSerial, OpenWindowSerial, ResolveAcceptanceSerial,
       ResolveMerchantSerial, ExpireOrderSerial, AlternativeSerial, DropSerial,
       CancelPgSerial, RestockSerial, CancelListedSerial, EndCancelSerial,
       MaybeOpenSerial, OpenEscrowSerial, WriteRowSerial, FundingReadySerial DEF Step
<1> QED
  BY <1>1, OutsideSerial DEF Next

-----------------------------------------------------------------------------
(* Codes and dead orders *)

\* With one request at a time an order that waits for funds carries the code of its
\* escrow row, whatever is lost and wherever the bridge restarts; the row is missing
\* only while it is about to be written, or when a restart fell between the order's
\* update and the row's insert (maybeOpenFunding, orchestrator.ts 794-823).
THEOREM CodesAgree == OneAtATime => (Spec => []HashesAgree)
<1> SUFFICES ASSUME OneAtATime PROVE Spec => []HashesAgree
  OBVIOUS
<1>1. SerialInv => HashesAgree
  BY DEF SerialInv, RowsRight, HashesAgree, InState
<1>2. SerialInv /\ [Next]_vars => SerialInv'
  BY SerialStep
<1> QED
  BY <1>1, <1>2, InitSerial, PTL DEF Spec

LEMMA DeadStay ==
  ASSUME OneAtATime, SerialInv, [Next]_vars, NEW o \in InState(Dead)
  PROVE  orders'[o] = orders[o]
<1>1. IInv /\ o \in DOMAIN orders /\ orders \in Seq(Orders)
      /\ orders[o].state \notin Cancellable
  BY DEF SerialInv, InState, Dead, Cancellable, IInv, TypeOK
<1>2. \A p : orders[p].state = "merchant_pending" => p # o
  BY <1>1 DEF Cancellable
<1>3. ASSUME NEW c \in Calls, Step(c)
      PROVE  orders'[o] = orders[o]
  <2>1. FrameRight(c) /\ calls[c] \in Frames
    BY <1>1, FrameFacts DEF SerialInv
  <2>2. CASE OpenAcceptanceWindow(c)
    <3>1. UNCHANGED orders \/ \E order : orders' = Append(orders, order)
      BY <2>2 DEF OpenAcceptanceWindow, tables
    <3> QED
      BY <1>1, <3>1
  <2>3. CASE ResolveMerchantAcceptance(c)
    <3>1. calls[c].order # o
      BY <1>2, <2>1, <2>3 DEF ResolveMerchantAcceptance, FrameRight
    <3> QED
      BY <2>3, <3>1 DEF ResolveMerchantAcceptance, SetOrderState
  <2>4. CASE ExpireOrder(c)
    <3>1. UNCHANGED orders \/ \E p \in InState({"merchant_pending"}) : SetOrderState(p, "expired")
      BY <2>4 DEF ExpireOrder, PendingOrderOf
    <3> QED
      BY <1>2, <3>1 DEF SetOrderState, InState
  <2>5. CASE CancelListedOrder(c)
    <3>1. PICK p \in calls[c].todo : SetOrderState(p, "cancelled")
      BY <2>5 DEF CancelListedOrder
    <3>2. p # o
      BY <1>1, <2>1, <2>5 DEF CancelListedOrder, FrameRight, InState
    <3> QED
      BY <3>1, <3>2 DEF SetOrderState
  <2>6. CASE OpenEscrow(c)
    <3>1. PICK p \in InState({"merchant_confirmed"}) :
            orders' = [orders EXCEPT ![p] = WithCode(@, orders[p].hash + 1)]
      BY <2>1, <2>6 DEF OpenEscrow, FrameRight
    <3>2. p # o
      BY <1>1, <3>1 DEF InState, Cancellable
    <3> QED
      BY <3>1, <3>2
  <2>7. CASE \/ ResolveAcceptance(c) \/ TryAlternative(c) \/ DropShop(c) \/ MaybeOpenFunding(c)
             \/ CancelPgTask(c) \/ RestockAfterCancel(c) \/ EndCancel(c)
             \/ WriteEscrowRow(c) \/ FundingReady(c)
    BY <2>7 DEF ResolveAcceptance, TryAlternative, DropShop, MaybeOpenFunding, CancelPgTask,
       RestockAfterCancel, EndCancel, WriteEscrowRow, FundingReady, tables
  <2> QED
    BY <1>3, <2>2, <2>3, <2>4, <2>5, <2>6, <2>7 DEF Step
<1>4. ASSUME NEW c \in Calls,
             \/ ApprovePayment(c) \/ Accept(c) \/ Reject(c)
             \/ AcceptanceTimeoutTick(c) \/ NotificationLost(c)
      PROVE  orders'[o] = orders[o]
  BY <1>4 DEF ApprovePayment, Accept, Reject, AcceptanceTimeoutTick, NotificationLost, tables
<1>5. ASSUME CancelTask \/ BridgeRestart \/ UNCHANGED vars \/ \E m \in Merchants : QuoteExpires(m)
      PROVE  orders'[o] = orders[o]
  BY <1>5 DEF CancelTask, BridgeRestart, QuoteExpires, vars, tables
<1> QED
  BY <1>3, <1>4, <1>5 DEF Next

\* With one request at a time a rejected, expired or cancelled order is never written
\* again (handlePgRejection, cancelPgTask, orchestrator.ts), whatever is lost and
\* wherever the bridge restarts.
THEOREM DeadOrdersAreFinal == OneAtATime => (Spec => DeadOrdersStayDead)
<1> SUFFICES ASSUME OneAtATime PROVE Spec => DeadOrdersStayDead
  OBVIOUS
<1>1. SerialInv /\ [Next]_vars => [\A o \in InState(Dead) : orders'[o] = orders[o]]_vars
  BY DeadStay
<1>2. SerialInv /\ [Next]_vars => SerialInv'
  BY SerialStep
<1> QED
  BY <1>1, <1>2, InitSerial, PTL DEF Spec, DeadOrdersStayDead

-----------------------------------------------------------------------------
(* Stock *)

LEMMA HolderFacts ==
  ASSUME IInv, NEW key
  PROVE  IsFiniteSet(Holders(key)) /\ Cardinality(Holders(key)) \in Nat
<1>1. Holders(key) \in SUBSET (1 .. Len(orders)) /\ IsFiniteSet(1 .. Len(orders))
  BY TableFacts, FS_Interval DEF Holders
<1> QED
  BY <1>1, FS_Subset, FS_CardinalityType

\* Nothing is taken, given back or handed over.
LEMMA StockStays ==
  ASSUME StockAccounted, UNCHANGED <<stock, surplus>>,
         \A key : /\ Holders(key)' = Holders(key) /\ InFlight(key)' = InFlight(key)
                  /\ Restocking(key)' = Restocking(key)
  PROVE  StockAccounted'
<1> SUFFICES ASSUME NEW key \in DOMAIN stock
             PROVE  stock[key] + Cardinality(Holders(key)') + Cardinality(InFlight(key)')
                       = StockAtStart[key] + Cardinality(Restocking(key)') + surplus[key]
  BY DEF StockAccounted
<1> QED
  BY DEF StockAccounted

\* What is in stock, held and on its way adds up to the same while nothing is restocked.
LEMMA StockMoves ==
  ASSUME IInv, StockAccounted, NEW c, Calls = {c}, UNCHANGED surplus,
         calls[c].at # "restocked", calls'[c].at # "restocked", DOMAIN stock' = DOMAIN stock,
         \A key \in DOMAIN stock :
            stock'[key] + Cardinality(Holders(key)') + Cardinality(InFlight(key)')
               = stock[key] + Cardinality(Holders(key)) + Cardinality(InFlight(key))
  PROVE  StockAccounted'
<1>1. \A key : Restocking(key) = {} /\ Restocking(key)' = {}
  BY DEF Restocking
<1> SUFFICES ASSUME NEW key \in DOMAIN stock
             PROVE  stock'[key] + Cardinality(Holders(key)') + Cardinality(InFlight(key)')
                       = StockAtStart[key] + Cardinality(Restocking(key)') + surplus[key]
  BY DEF StockAccounted
<1>2. Cardinality(Restocking(key)') = Cardinality(Restocking(key))
  BY <1>1
<1> QED
  BY <1>2 DEF StockAccounted

\* Orders that no accept is on its way for move between states alike.
LEMMA OrdersMove ==
  ASSUME IInv, NEW c, Calls = {c}, StockAccounted, UNCHANGED <<stock, surplus>>,
         calls[c].at # "restocked", calls'[c].at # "restocked",
         calls[c].at \notin {"resolve", "notify"} \/ calls[c].decision # "accepted",
         calls'[c].at \notin {"resolve", "notify"} \/ calls'[c].decision # "accepted",
         DOMAIN orders \subseteq DOMAIN orders',
         \A o \in DOMAIN orders' \ DOMAIN orders : orders'[o].state \notin Holding,
         \A o \in DOMAIN orders :
            /\ orders'[o].merchant = orders[o].merchant /\ orders'[o].need = orders[o].need
            /\ orders'[o].state \in Holding <=> orders[o].state \in Holding
  PROVE  StockAccounted'
<1>1. \A key : Holders(key)' = Holders(key)
  BY DEF Holders, InState, Line
<1>2. \A key : InFlight(key)' = InFlight(key)
  BY DEF InFlight
<1>3. \A key : Restocking(key)' = Restocking(key)
  BY DEF Restocking
<1> QED
  BY <1>1, <1>2, <1>3, StockStays

\* What the frame of a request that is no answer on its way becomes.
LEMMA FrameLeaves ==
  ASSUME NEW c, Only(c)
  PROVE  /\ TryAlternative(c) => calls'[c].at = "window"
         /\ DropShop(c) => calls'[c].at = "funding"
         /\ MaybeOpenFunding(c) => calls'[c].at \in {"idle", "expire", "opening"}
         /\ ExpireOrder(c) => calls'[c].at \in {"idle", "expire", "saga"}
         /\ OpenAcceptanceWindow(c) => calls'[c].at \in {"idle", "expire", "window"}
         /\ OpenEscrow(c) => calls'[c].at = "escrow"
         /\ WriteEscrowRow(c) => calls'[c].at \in {"idle", "opening"}
         /\ CancelPgTask(c) \/ CancelListedOrder(c) => calls'[c].at = "cancel"
         /\ EndCancel(c) \/ FundingReady(c) => calls'[c].at \in {"idle", "expire"}
         /\ ResolveMerchantAcceptance(c) => calls'[c].at \in {"saga", "funding"}
<1>1. Calls = {c} /\ IInv /\ calls \in [Calls -> Frames] /\ calls[c] \in Frames
  BY OnlyOne, FrameFacts
<1>2. \A f : Become(c, f) => calls'[c] = f
  BY <1>1 DEF Become
<1>3. \A at \in Stages : Stage(c, at) \in Frames /\ Stage(c, at).at = at
  BY <1>1, StageFits
<1>4. Return(c) => calls'[c].at \in {"idle", "expire"}
  BY <1>1, ReturnLeaves
<1>5. Throw(c) => calls'[c].at = "idle"
  BY <1>2 DEF Throw, Idle
<1>6. ASSUME TryAlternative(c) PROVE calls'[c].at = "window"
  <2>1. PICK list : Become(c, [Stage(c, "window") EXCEPT !.shops = list])
    BY <1>6 DEF TryAlternative
  <2>2. Stage(c, "window") \in Frames /\ Stage(c, "window").at = "window"
    BY <1>3 DEF Stages
  <2> QED
    BY <1>2, <2>1, <2>2 DEF Frames
<1>7. ASSUME DropShop(c) PROVE calls'[c].at = "funding"
  BY <1>2, <1>3, <1>7 DEF DropShop, Stages
<1>8. ASSUME MaybeOpenFunding(c) PROVE calls'[c].at \in {"idle", "expire", "opening"}
  <2>1. Return(c) \/ \E s : Become(c, [Stage(c, "opening") EXCEPT !.todo = s])
    BY <1>8 DEF MaybeOpenFunding
  <2>2. ASSUME NEW s, Become(c, [Stage(c, "opening") EXCEPT !.todo = s])
        PROVE  calls'[c].at = "opening"
    BY <1>2, <1>3, <2>2 DEF Stages, Frames
  <2> QED
    BY <1>4, <2>1, <2>2
<1>9. ASSUME ExpireOrder(c) PROVE calls'[c].at \in {"idle", "expire", "saga"}
  <2>1. /\ calls[c].at = "expire"
        /\ \E o, r : \/ Become(c, Idle)
                     \/ Become(c, [calls[c] EXCEPT !.rows = r])
                     \/ Become(c, [calls[c] EXCEPT !.at = "saga", !.order = o, !.rows = r])
    BY <1>9 DEF ExpireOrder
  <2>2. PICK o, r : \/ calls'[c] = Idle
                    \/ calls'[c] = [calls[c] EXCEPT !.rows = r]
                    \/ calls'[c] = [calls[c] EXCEPT !.at = "saga", !.order = o, !.rows = r]
    BY <1>2, <2>1
  <2>3. CASE calls'[c] = Idle
    BY <2>3 DEF Idle
  <2>4. CASE calls'[c] = [calls[c] EXCEPT !.rows = r]
    BY <1>1, <2>1, <2>4 DEF Frames
  <2>5. CASE calls'[c] = [calls[c] EXCEPT !.at = "saga", !.order = o, !.rows = r]
    BY <1>1, <2>5 DEF Frames
  <2> QED
    BY <2>2, <2>3, <2>4, <2>5
<1>10. ASSUME OpenAcceptanceWindow(c) PROVE calls'[c].at \in {"idle", "expire", "window"}
  <2>1. /\ calls[c].at = "window"
        /\ Return(c) \/ \E s : Become(c, [calls[c] EXCEPT !.shops = s])
    BY <1>10 DEF OpenAcceptanceWindow
  <2> QED
    BY <1>1, <1>2, <1>4, <2>1 DEF Frames
<1>11. ASSUME OpenEscrow(c) PROVE calls'[c].at = "escrow"
  <2>1. \E o, k : Become(c, [calls[c] EXCEPT !.at = "escrow", !.order = o, !.code = k])
    BY <1>11 DEF OpenEscrow
  <2> QED
    BY <1>1, <1>2, <2>1 DEF Frames
<1>12. ASSUME WriteEscrowRow(c) PROVE calls'[c].at \in {"idle", "opening"}
  <2>1. \/ Throw(c)
        \/ \E s : Become(c, [calls[c] EXCEPT !.at = "opening", !.order = 0, !.code = 0, !.todo = s])
    BY <1>12 DEF WriteEscrowRow
  <2> QED
    BY <1>1, <1>2, <1>5, <2>1 DEF Frames
<1>13. ASSUME CancelPgTask(c) PROVE calls'[c].at = "cancel"
  <2>1. \E s, b : Become(c, [Stage(c, "cancel") EXCEPT !.todo = s, !.back = b])
    BY <1>13 DEF CancelPgTask
  <2> QED
    BY <1>2, <1>3, <2>1 DEF Stages, Frames
<1>14. ASSUME CancelListedOrder(c) PROVE calls'[c].at = "cancel"
  <2>1. \E s : Become(c, [calls[c] EXCEPT !.at = "cancel", !.order = 0, !.todo = s])
    BY <1>14 DEF CancelListedOrder
  <2> QED
    BY <1>1, <1>2, <2>1 DEF Frames
<1>15. ASSUME EndCancel(c) \/ FundingReady(c) PROVE calls'[c].at \in {"idle", "expire"}
  BY <1>4, <1>15 DEF EndCancel, FundingReady
<1>16. ASSUME ResolveMerchantAcceptance(c) PROVE calls'[c].at \in {"saga", "funding"}
  <2>1. Become(c, Stage(c, "funding"))
        \/ \E o : Become(c, [Stage(c, "saga") EXCEPT !.order = o])
    BY <1>16 DEF ResolveMerchantAcceptance
  <2>2. /\ Stage(c, "saga") \in Frames /\ Stage(c, "saga").at = "saga"
        /\ Stage(c, "funding").at = "funding"
    BY <1>3 DEF Stages
  <2> QED
    BY <1>2, <2>1, <2>2 DEF Frames
<1> QED
  BY <1>6, <1>7, <1>8, <1>9, <1>10, <1>11, <1>12, <1>13, <1>14, <1>15, <1>16

\* The steps of one request.
Acts(c) ==
    \/ ApprovePayment(c) \/ Accept(c) \/ Reject(c)
    \/ AcceptanceTimeoutTick(c) \/ NotificationLost(c) \/ Step(c)

\* The place where a request stands tells what it can do.
LEMMA Turns ==
  ASSUME NEW c, Acts(c)
  PROVE  /\ calls[c].at = "window" => OpenAcceptanceWindow(c)
         /\ calls[c].at = "saga" => TryAlternative(c) \/ DropShop(c) \/ CancelPgTask(c)
         /\ calls[c].at \in {"cancel", "restocked"} =>
               RestockAfterCancel(c) \/ CancelListedOrder(c) \/ EndCancel(c)
         /\ calls[c].at \in {"idle", "expire"} =>
               ApprovePayment(c) \/ Accept(c) \/ Reject(c) \/ AcceptanceTimeoutTick(c) \/ ExpireOrder(c)
<1>1. ApprovePayment(c) \/ Accept(c) \/ Reject(c) \/ AcceptanceTimeoutTick(c) => calls[c].at = "idle"
  <2>1. ApprovePayment(c) \/ Accept(c) \/ Reject(c) \/ AcceptanceTimeoutTick(c) => calls[c] = Idle
    BY DEF ApprovePayment, Accept, Reject, AcceptanceTimeoutTick
  <2> QED
    BY <2>1 DEF Idle
<1>2. NotificationLost(c) \/ ResolveMerchantAcceptance(c) => calls[c].at = "notify"
  BY DEF NotificationLost, ResolveMerchantAcceptance
<1>3. /\ ResolveAcceptance(c) => calls[c].at = "resolve"
      /\ ExpireOrder(c) => calls[c].at = "expire"
      /\ MaybeOpenFunding(c) => calls[c].at = "funding"
      /\ OpenEscrow(c) \/ FundingReady(c) => calls[c].at = "opening"
      /\ WriteEscrowRow(c) => calls[c].at = "escrow"
      /\ RestockAfterCancel(c) \/ EndCancel(c) => calls[c].at = "cancel"
      /\ CancelListedOrder(c) => calls[c].at \in {"cancel", "restocked"}
  BY DEF ResolveAcceptance, ExpireOrder, MaybeOpenFunding, OpenEscrow, FundingReady,
     WriteEscrowRow, RestockAfterCancel, EndCancel, CancelListedOrder
<1>4. /\ OpenAcceptanceWindow(c) => calls[c].at = "window"
      /\ TryAlternative(c) \/ DropShop(c) \/ CancelPgTask(c) => calls[c].at = "saga"
  BY DEF OpenAcceptanceWindow, TryAlternative, DropShop, CancelPgTask
<1> QED
  BY <1>1, <1>2, <1>3, <1>4 DEF Acts, Step

LEMMA StepKeepsStock ==
  ASSUME NEW c, Only(c), StockAccounted, "offline" \notin FailureKinds, Acts(c)
  PROVE  StockAccounted'
<1>1. Calls = {c} /\ IInv /\ calls \in [Calls -> Frames] /\ calls[c] \in Frames /\ FrameRight(c)
      /\ orders \in Seq(Orders) /\ \A o \in DOMAIN orders : orders[o] \in Orders
  BY OnlyOne, FrameFacts, TableFacts DEF IInv, TypeOK
<1>2. /\ stock \in [Merchants \X Needs -> Nat] /\ StockAtStart \in [Merchants \X Needs -> Nat]
      /\ surplus \in [Merchants \X Needs -> Nat]
  BY <1>1, SagaAssumption DEF IInv, TypeOK
<1>3. Cardinality({}) = 0 /\ Cardinality({c}) = 1
  BY FS_EmptySet, FS_Singleton
<1>4. ~NotificationLost(c)
  BY DEF NotificationLost, Fail
<1>5. CASE ApprovePayment(c) \/ Reject(c) \/ AcceptanceTimeoutTick(c)
  <2>1. UNCHANGED <<orders, stock, surplus>> /\ calls[c] = Idle
    BY <1>5 DEF ApprovePayment, Reject, AcceptanceTimeoutTick, tables, outcome, world, cuts
  <2>2. \E a, o, s, r : \/ Become(c, [Idle EXCEPT !.at = "window", !.shops = s])
                        \/ Become(c, [Idle EXCEPT !.at = "expire", !.rows = r])
                        \/ Become(c, [Idle EXCEPT !.at = "resolve", !.acceptance = a,
                                         !.order = o, !.decision = "rejected"])
    BY <1>5 DEF ApprovePayment, Reject, AcceptanceTimeoutTick
  <2>3. /\ calls'[c].at \notin {"resolve", "notify"} \/ calls'[c].decision # "accepted"
        /\ calls'[c].at # "restocked"
    BY <1>1, <2>2 DEF Idle, Become
  <2>4. calls[c].at \notin {"resolve", "notify", "restocked"}
    BY <2>1 DEF Idle
  <2> QED
    BY <1>1, <2>1, <2>3, <2>4, OrdersMove
<1>6. CASE \/ TryAlternative(c) \/ DropShop(c) \/ MaybeOpenFunding(c) \/ CancelPgTask(c)
           \/ EndCancel(c) \/ WriteEscrowRow(c) \/ FundingReady(c)
  <2>1. UNCHANGED <<orders, stock, surplus>>
        /\ calls[c].at \in {"saga", "funding", "cancel", "escrow", "opening"}
    BY <1>6 DEF TryAlternative, DropShop, MaybeOpenFunding, CancelPgTask, EndCancel,
       WriteEscrowRow, FundingReady, tables, world, cuts
  <2>2. calls'[c].at \notin {"resolve", "notify", "restocked"}
    BY <1>6, FrameLeaves
  <2> QED
    BY <1>1, <2>1, <2>2, OrdersMove
<1>7. CASE OpenAcceptanceWindow(c)
  <2>1. UNCHANGED <<stock, surplus>> /\ calls[c].at = "window"
    BY <1>7 DEF OpenAcceptanceWindow, world, cuts
  <2>2. \/ UNCHANGED orders
        \/ \E order : orders' = Append(orders, order) /\ order.state = "merchant_pending"
    BY <1>7 DEF OpenAcceptanceWindow, tables
  <2>3. calls'[c].at \notin {"resolve", "notify", "restocked"}
    BY <1>7, FrameLeaves
  <2>4. CASE UNCHANGED orders
    BY <1>1, <2>1, <2>3, <2>4, OrdersMove
  <2>5. ASSUME NEW order, orders' = Append(orders, order), order.state = "merchant_pending"
        PROVE  StockAccounted'
    <3>1. /\ DOMAIN orders' = 1 .. Len(orders) + 1 /\ DOMAIN orders = 1 .. Len(orders)
          /\ \A o \in DOMAIN orders : orders'[o] = orders[o]
          /\ orders'[Len(orders) + 1] = order
      BY <1>1, <2>5
    <3>2. \A o \in DOMAIN orders' \ DOMAIN orders : orders'[o].state \notin Holding
      BY <2>5, <3>1 DEF Holding
    <3> QED
      BY <1>1, <2>1, <2>3, <3>1, <3>2, OrdersMove
  <2> QED
    BY <2>2, <2>4, <2>5
<1>8. CASE ResolveAcceptance(c)
  <2>1. UNCHANGED <<orders, stock, surplus>> /\ calls[c].at = "resolve" /\ calls'[c].at = "notify"
        /\ calls'[c].order = calls[c].order /\ calls'[c].decision = calls[c].decision
    BY <1>1, <1>8 DEF ResolveAcceptance, Become, Frames, world, cuts
  <2>2. \A key : /\ Holders(key)' = Holders(key) /\ InFlight(key)' = InFlight(key)
                 /\ Restocking(key)' = Restocking(key)
    BY <1>1, <2>1 DEF Holders, InFlight, Restocking, InState, Line
  <2> QED
    BY <2>1, <2>2, StockStays
<1>9. CASE ExpireOrder(c)
  <2>1. UNCHANGED <<stock, surplus>> /\ calls[c].at = "expire"
    BY <1>9 DEF ExpireOrder, world, cuts
  <2>2. calls'[c].at \notin {"resolve", "notify", "restocked"}
    BY <1>9, FrameLeaves
  <2>3. UNCHANGED orders \/ \E p \in InState({"merchant_pending"}) : SetOrderState(p, "expired")
    BY <1>9 DEF ExpireOrder, PendingOrderOf
  <2>4. ASSUME NEW p \in InState({"merchant_pending"}), SetOrderState(p, "expired")
        PROVE  StockAccounted'
    <3>1. p \in DOMAIN orders /\ orders[p].state = "merchant_pending" /\ "expired" \in OrderStates
      BY DEF InState, OrderStates
    <3> QED
      BY <1>1, <2>1, <2>2, <2>4, <3>1, StateMoves, OrdersMove DEF Holding
  <2> QED
    BY <1>1, <2>1, <2>2, <2>3, <2>4, OrdersMove
<1>10. CASE OpenEscrow(c)
  <2>1. UNCHANGED <<stock, surplus>> /\ calls[c].at = "opening"
    BY <1>10 DEF OpenEscrow, world, cuts
  <2>2. calls'[c].at \notin {"resolve", "notify", "restocked"}
    BY <1>10, FrameLeaves
  <2>3. PICK p \in InState({"merchant_confirmed"}) :
          orders' = [orders EXCEPT ![p] = WithCode(@, orders[p].hash + 1)]
    BY <1>1, <1>10 DEF OpenEscrow, FrameRight
  <2>4. p \in DOMAIN orders /\ orders[p].state = "merchant_confirmed" /\ orders[p] \in Orders
    BY <1>1 DEF InState
  <2>5. /\ orders'[p].merchant = orders[p].merchant /\ orders'[p].need = orders[p].need
        /\ orders'[p].state = "awaiting_funding" /\ DOMAIN orders' = DOMAIN orders
        /\ \A o \in DOMAIN orders : o # p => orders'[o] = orders[o]
    BY <2>3, <2>4 DEF WithCode, Orders
  <2> QED
    BY <1>1, <2>1, <2>2, <2>4, <2>5, OrdersMove DEF Holding
<1>11. CASE RestockAfterCancel(c)
  <2>1. PICK o \in calls[c].todo \cap calls[c].back :
          /\ stock' = [stock EXCEPT ![Line(o)] = @ + 1]
          /\ Become(c, [calls[c] EXCEPT !.at = "restocked", !.order = o])
    BY <1>11 DEF RestockAfterCancel
  <2>2. UNCHANGED <<orders, surplus>> /\ calls[c].at = "cancel"
    BY <1>11 DEF RestockAfterCancel, tables, world, cuts
  <2>3. calls'[c].at = "restocked" /\ calls'[c].order = o
    BY <1>1, <2>1 DEF Become, Frames
  <2>4. \A key : /\ Holders(key)' = Holders(key) /\ InFlight(key) = {} /\ InFlight(key)' = {}
                 /\ Restocking(key) = {}
                 /\ Restocking(key)' = IF key = Line(o) THEN {c} ELSE {}
    BY <1>1, <2>2, <2>3 DEF Holders, InFlight, Restocking, InState, Line
  <2> SUFFICES ASSUME NEW key \in DOMAIN stock'
               PROVE  stock'[key] + Cardinality(Holders(key)') + Cardinality(InFlight(key)')
                         = StockAtStart[key] + Cardinality(Restocking(key)') + surplus'[key]
    BY DEF StockAccounted
  <2>5. key \in DOMAIN stock
        /\ stock[key] + Cardinality(Holders(key)) + Cardinality(InFlight(key))
              = StockAtStart[key] + Cardinality(Restocking(key)) + surplus[key]
    BY <2>1 DEF StockAccounted
  <2>6. Cardinality(Holders(key)) \in Nat /\ stock[key] \in Nat /\ StockAtStart[key] \in Nat
        /\ surplus[key] \in Nat
    BY <1>1, <1>2, <2>5, HolderFacts
  <2>7. stock'[key] = IF key = Line(o) THEN stock[key] + 1 ELSE stock[key]
    BY <2>1, <2>5
  <2>8. /\ Cardinality(InFlight(key)) = 0 /\ Cardinality(InFlight(key)') = 0
        /\ Cardinality(Holders(key)') = Cardinality(Holders(key))
        /\ Cardinality(Restocking(key)) = 0 /\ surplus'[key] = surplus[key]
        /\ Cardinality(Restocking(key)') = IF key = Line(o) THEN 1 ELSE 0
    BY <1>3, <2>2, <2>4
  <2> QED
    BY <2>5, <2>6, <2>7, <2>8
<1>14. CASE CancelListedOrder(c)
  <2>1. PICK o \in calls[c].todo :
          /\ \/ calls[c].at = "cancel" /\ o \notin calls[c].back
             \/ calls[c].at = "restocked" /\ o = calls[c].order
          /\ SetOrderState(o, "cancelled")
    BY <1>14 DEF CancelListedOrder
  <2>2. UNCHANGED <<stock, surplus>> /\ calls'[c].at = "cancel"
    BY <1>14, FrameLeaves DEF CancelListedOrder, world, cuts
  <2>3. o \in DOMAIN orders /\ o \in InState(Cancellable)
        /\ (o \in InState(Holding) <=> o \in calls[c].back)
    BY <1>1, <2>1 DEF FrameRight, InState, Holding, Restocked
  <2>4. /\ DOMAIN orders' = DOMAIN orders
        /\ \A p \in DOMAIN orders :
              /\ orders'[p].merchant = orders[p].merchant
              /\ orders'[p].need = orders[p].need
              /\ orders'[p].state = IF p = o THEN "cancelled" ELSE orders[p].state
    BY <1>1, <2>1, <2>3, StateMoves DEF OrderStates
  <2>5. CASE calls[c].at = "cancel"
    <3>1. orders[o].state \notin Holding /\ "cancelled" \notin Holding
      BY <2>1, <2>3, <2>5 DEF InState, Holding
    <3> QED
      BY <1>1, <2>2, <2>4, <2>5, <3>1, OrdersMove
  <2>6. CASE calls[c].at = "restocked"
    <3>1. o = calls[c].order /\ o \in InState(Holding)
      BY <1>1, <2>1, <2>6 DEF FrameRight, Holding, Restocked
    <3>2. \A key : /\ InFlight(key) = {} /\ InFlight(key)' = {} /\ Restocking(key)' = {}
                   /\ Restocking(key) = IF key = Line(o) THEN {c} ELSE {}
      BY <1>1, <2>2, <2>6, <3>1 DEF InFlight, Restocking
    <3>3. \A key : /\ key = Line(o) => o \in Holders(key)
                   /\ Holders(key)' = IF key = Line(o) THEN Holders(key) \ {o} ELSE Holders(key)
      BY <2>3, <2>4, <3>1 DEF Holders, InState, Line, Holding
    <3> SUFFICES ASSUME NEW key \in DOMAIN stock
                 PROVE  stock[key] + Cardinality(Holders(key)') + Cardinality(InFlight(key)')
                           = StockAtStart[key] + Cardinality(Restocking(key)') + surplus[key]
      BY <2>2 DEF StockAccounted
    <3>4. stock[key] + Cardinality(Holders(key)) + Cardinality(InFlight(key))
             = StockAtStart[key] + Cardinality(Restocking(key)) + surplus[key]
      BY DEF StockAccounted
    <3>5. IsFiniteSet(Holders(key)) /\ Cardinality(Holders(key)) \in Nat /\ stock[key] \in Nat
          /\ StockAtStart[key] \in Nat /\ surplus[key] \in Nat
      BY <1>1, <1>2, HolderFacts
    <3>6. /\ Cardinality(InFlight(key)) = 0 /\ Cardinality(InFlight(key)') = 0
          /\ Cardinality(Restocking(key)') = 0
          /\ Cardinality(Restocking(key)) = IF key = Line(o) THEN 1 ELSE 0
      BY <1>3, <3>2
    <3>7. CASE key = Line(o)
      <4>1. Holders(key)' = Holders(key) \ {o} /\ o \in Holders(key)
        BY <3>3, <3>7
      <4>2. Cardinality(Holders(key)') = Cardinality(Holders(key)) - 1
        BY <3>5, <4>1, FS_RemoveElement
      <4> QED
        BY <3>4, <3>5, <3>6, <3>7, <4>2
    <3>8. CASE key # Line(o)
      <4>1. Holders(key)' = Holders(key)
        BY <3>3, <3>8
      <4>2. Cardinality(Holders(key)') = Cardinality(Holders(key))
        BY <4>1
      <4> QED
        BY <3>4, <3>5, <3>6, <3>8, <4>2
    <3> QED
      BY <3>7, <3>8
  <2> QED
    BY <2>1, <2>5, <2>6
<1>12. CASE Accept(c)
  <2>1. PICK o \in DOMAIN orders :
          /\ stock' = IF InStock(o) THEN [stock EXCEPT ![Line(o)] = @ - 1] ELSE stock
          /\ \E a : Become(c, [Idle EXCEPT
               !.at = "resolve", !.acceptance = a, !.order = o,
               !.decision = IF InStock(o) THEN "accepted" ELSE "rejected"])
    BY <1>12 DEF Accept
  <2>2. UNCHANGED <<orders, surplus>> /\ calls[c] = Idle
    BY <1>12 DEF Accept, tables, world, cuts
  <2>3. /\ calls'[c].at = "resolve" /\ calls'[c].order = o
        /\ calls'[c].decision = IF InStock(o) THEN "accepted" ELSE "rejected"
    BY <1>1, <2>1 DEF Become, Idle
  <2>4. CASE ~InStock(o)
    BY <1>1, <2>1, <2>2, <2>3, <2>4, OrdersMove DEF Idle
  <2>5. CASE InStock(o)
    <3>1. Line(o) \in Merchants \X Needs /\ DOMAIN stock = Merchants \X Needs
      BY <1>1, <1>2 DEF Line, Orders
    <3>2. stock' = [stock EXCEPT ![Line(o)] = stock[Line(o)] - 1]
      BY <2>1, <2>5
    <3>3. \A key : /\ Holders(key)' = Holders(key) /\ InFlight(key) = {}
                   /\ InFlight(key)' = IF key = Line(o) THEN {c} ELSE {}
      BY <1>1, <2>2, <2>3, <2>5 DEF Holders, InFlight, InState, Line, Idle
    <3>4. DOMAIN stock' = DOMAIN stock /\ calls[c].at # "restocked" /\ calls'[c].at # "restocked"
      BY <2>2, <2>3, <3>2 DEF Idle
    <3> SUFFICES ASSUME NEW key \in DOMAIN stock
                 PROVE  stock'[key] + Cardinality(Holders(key)') + Cardinality(InFlight(key)')
                           = stock[key] + Cardinality(Holders(key)) + Cardinality(InFlight(key))
      BY <1>1, <2>2, <3>4, StockMoves
    <3>5. Cardinality(Holders(key)) \in Nat /\ stock[key] \in Nat
      BY <1>1, <1>2, <3>4, HolderFacts
    <3>6. stock'[key] = IF key = Line(o) THEN stock[key] - 1 ELSE stock[key]
      BY <3>2, <3>4
    <3>7. /\ Cardinality(InFlight(key)) = 0 /\ Cardinality(Holders(key)') = Cardinality(Holders(key))
          /\ Cardinality(InFlight(key)') = IF key = Line(o) THEN 1 ELSE 0
      BY <1>3, <3>3
    <3> QED
      BY <3>4, <3>5, <3>6, <3>7
  <2> QED
    BY <2>4, <2>5
<1>13. CASE ResolveMerchantAcceptance(c)
  <2> DEFINE o == calls[c].order
  <2>1. /\ UNCHANGED <<stock, surplus>> /\ calls[c].at = "notify" /\ o \in DOMAIN orders
        /\ orders[o].state = "merchant_pending"
        /\ SetOrderState(o, StateFor(calls[c].decision))
    BY <1>1, <1>13, FrameFacts DEF ResolveMerchantAcceptance, FrameRight, world, cuts
  <2>2. calls'[c].at \in {"saga", "funding"}
    BY <1>13, FrameLeaves
  <2> HIDE DEF o
  <2>3. /\ DOMAIN orders' = DOMAIN orders
        /\ \A p \in DOMAIN orders :
              /\ orders'[p].merchant = orders[p].merchant
              /\ orders'[p].need = orders[p].need
              /\ orders'[p].state = IF p = o THEN StateFor(calls[c].decision) ELSE orders[p].state
    BY <1>1, <2>1, StateMoves DEF StateFor, OrderStates
  <2>4. CASE calls[c].decision # "accepted"
    BY <1>1, <2>1, <2>2, <2>3, <2>4, OrdersMove DEF StateFor, Holding
  <2>5. CASE calls[c].decision = "accepted"
    <3>1. \A key : /\ InFlight(key)' = {}
                   /\ InFlight(key) = IF key = Line(o) THEN {c} ELSE {}
      BY <1>1, <2>1, <2>2, <2>5 DEF InFlight, o
    <3>2. \A key : /\ Holders(key)' = IF key = Line(o) THEN Holders(key) \cup {o} ELSE Holders(key)
                   /\ o \notin Holders(key)
      BY <2>1, <2>3, <2>5 DEF Holders, InState, Line, StateFor, Holding
    <3>3. calls[c].at # "restocked" /\ calls'[c].at # "restocked"
      BY <2>1, <2>2
    <3> SUFFICES ASSUME NEW key \in DOMAIN stock
                 PROVE  stock'[key] + Cardinality(Holders(key)') + Cardinality(InFlight(key)')
                           = stock[key] + Cardinality(Holders(key)) + Cardinality(InFlight(key))
      BY <1>1, <2>1, <3>3, StockMoves
    <3>4. IsFiniteSet(Holders(key)) /\ Cardinality(Holders(key)) \in Nat /\ stock[key] \in Nat
      BY <1>1, <1>2, HolderFacts
    <3>5. Cardinality(Holders(key) \cup {o}) = Cardinality(Holders(key)) + 1
      BY <3>2, <3>4, FS_AddElement
    <3>6. /\ Cardinality(InFlight(key)') = 0
          /\ Cardinality(InFlight(key)) = IF key = Line(o) THEN 1 ELSE 0
      BY <1>3, <3>1
    <3>7. Cardinality(Holders(key)') = Cardinality(Holders(key)) + (IF key = Line(o) THEN 1 ELSE 0)
      <4>1. Holders(key)' = IF key = Line(o) THEN Holders(key) \cup {o} ELSE Holders(key)
        BY <3>2
      <4>2. CASE key = Line(o)
        <5>1. Holders(key)' = Holders(key) \cup {o}
          BY <4>1, <4>2
        <5>2. Cardinality(Holders(key)') = Cardinality(Holders(key)) + 1
          BY <3>5, <5>1
        <5> QED
          BY <4>2, <5>2
      <4>3. CASE key # Line(o)
        <5>1. Holders(key)' = Holders(key)
          BY <4>1, <4>3
        <5>2. Cardinality(Holders(key)') = Cardinality(Holders(key))
          BY <5>1
        <5> QED
          BY <3>4, <4>3, <5>2
      <4> QED
        BY <4>2, <4>3
    <3> QED
      BY <2>1, <3>4, <3>6, <3>7
  <2> QED
    BY <2>4, <2>5
<1> QED
  BY <1>4, <1>5, <1>6, <1>7, <1>8, <1>9, <1>10, <1>11, <1>12, <1>13, <1>14 DEF Acts, Step

LEMMA StockStep ==
  OneAtATime /\ "offline" \notin FailureKinds /\ SerialInv /\ StockAccounted /\ [Next]_vars
     => StockAccounted'
<1> SUFFICES ASSUME OneAtATime, "offline" \notin FailureKinds, SerialInv, StockAccounted, [Next]_vars
             PROVE  StockAccounted'
  OBVIOUS
<1>1. ASSUME NEW c \in Calls, Acts(c) PROVE StockAccounted'
  <2>1. Only(c)
    BY DEF Only
  <2> QED
    BY <1>1, <2>1, StepKeepsStock
<1>2. CASE CancelTask \/ UNCHANGED vars \/ \E m \in Merchants : QuoteExpires(m)
  <2>1. UNCHANGED <<orders, stock, surplus, calls>>
    BY <1>2 DEF CancelTask, QuoteExpires, vars, tables, world, cuts
  <2>2. \A key : /\ Holders(key)' = Holders(key) /\ InFlight(key)' = InFlight(key)
                 /\ Restocking(key)' = Restocking(key)
    BY <2>1 DEF Holders, InFlight, Restocking, InState, Line
  <2> QED
    BY <2>1, <2>2, StockStays
<1>3. CASE BridgeRestart
  <2>1. UNCHANGED <<orders, stock>>
        /\ surplus' = [key \in DOMAIN surplus |-> surplus[key] + Cardinality(Restocking(key))]
    BY <1>3 DEF BridgeRestart, tables
  <2>2. \A c \in Calls : \/ calls[c].at \in {"resolve", "notify"} /\ calls'[c] = calls[c]
                         \/ calls[c].at \notin {"resolve", "notify"} /\ calls'[c] = Idle
    BY <1>3 DEF BridgeRestart
  <2>3. \A key : /\ Holders(key)' = Holders(key) /\ InFlight(key)' = InFlight(key)
                 /\ Restocking(key)' = {}
    BY <2>1, <2>2 DEF Holders, InFlight, Restocking, InState, Line, Idle
  <2>4. IInv
    BY DEF SerialInv
  <2>5. /\ stock \in [Merchants \X Needs -> Nat] /\ StockAtStart \in [Merchants \X Needs -> Nat]
        /\ surplus \in [Merchants \X Needs -> Nat] /\ IsFiniteSet(Calls)
    BY <2>4, SagaAssumption DEF IInv, TypeOK
  <2> SUFFICES ASSUME NEW key \in DOMAIN stock
               PROVE  stock[key] + Cardinality(Holders(key)') + Cardinality(InFlight(key)')
                         = StockAtStart[key] + Cardinality(Restocking(key)') + surplus'[key]
    BY <2>1 DEF StockAccounted
  <2>6. stock[key] + Cardinality(Holders(key)) + Cardinality(InFlight(key))
           = StockAtStart[key] + Cardinality(Restocking(key)) + surplus[key]
    BY DEF StockAccounted
  <2>7. surplus'[key] = surplus[key] + Cardinality(Restocking(key)) /\ surplus[key] \in Nat
        /\ StockAtStart[key] \in Nat
    BY <2>1, <2>5
  <2>8. Cardinality(Restocking(key)') = 0
    BY <2>3, FS_EmptySet
  <2>9. Cardinality(Restocking(key)) \in Nat
    <3>1. Restocking(key) \in SUBSET Calls
      BY DEF Restocking
    <3> QED
      BY <2>5, <3>1, FS_Subset, FS_CardinalityType
  <2>10. stock[key] + Cardinality(Holders(key)') + Cardinality(InFlight(key)')
            = stock[key] + Cardinality(Holders(key)) + Cardinality(InFlight(key))
    BY <2>3
  <2> HIDE DEF StockAccounted
  <2> QED
    BY <2>6, <2>7, <2>8, <2>9, <2>10
<1> QED
  BY <1>1, <1>2, <1>3 DEF Next, Acts

\* With one request at a time and no message to the bridge lost, every unit a merchant
\* gave up is held by one order or by one answer on its way, and no basket is on order
\* twice or after it was dropped. Restarts are included, at the price the statement
\* names: a restart between a cancelled task's restock and its write of the order leaves
\* one unit both in stock and on order (commitStockForOrder, cancelPgTask,
\* handlePgRejection).
THEOREM BasketsAddUp ==
  OneAtATime /\ "offline" \notin FailureKinds => (Spec => []BasketsAreAccounted)
<1> SUFFICES ASSUME OneAtATime, "offline" \notin FailureKinds
             PROVE  Spec => []BasketsAreAccounted
  OBVIOUS
<1>1. Init => StockAccounted
  <2> SUFFICES ASSUME Init, NEW key \in DOMAIN stock
               PROVE  stock[key] + Cardinality(Holders(key)) + Cardinality(InFlight(key))
                         = StockAtStart[key] + Cardinality(Restocking(key)) + surplus[key]
    BY DEF StockAccounted
  <2>1. Holders(key) = {} /\ InFlight(key) = {} /\ Restocking(key) = {}
    BY DEF Init, Holders, InFlight, Restocking, InState, Idle
  <2>2. Cardinality({}) = 0 /\ stock[key] = StockAtStart[key] /\ StockAtStart[key] \in Nat
        /\ surplus[key] = 0
    BY FS_EmptySet, SagaAssumption DEF Init
  <2> QED
    BY <2>1, <2>2
<1>2. SerialInv /\ StockAccounted /\ [Next]_vars => SerialInv' /\ StockAccounted'
  BY SerialStep, StockStep
<1>3. SerialInv /\ StockAccounted => BasketsAreAccounted
  BY DEF SerialInv, IInv, BasketsAreAccounted
<1> QED
  BY <1>1, <1>2, <1>3, InitSerial, PTL DEF Spec

-----------------------------------------------------------------------------
(* Nothing is forgotten *)

\* Short of cancelling the task, a step sees to what was seen to before it.
LEMMA SeenStays ==
  ASSUME NEW c, Only(c), NEW n, SeenTo(n), Acts(c), Provisioned = Merchants,
         ~CancelPgTask(c), calls[c].at \notin {"cancel", "restocked"}
  PROVE  SeenTo(n)'
<1>1. Calls = {c} /\ IInv /\ calls \in [Calls -> Frames] /\ calls[c] \in Frames /\ FrameRight(c)
      /\ orders \in Seq(Orders) /\ \A o \in DOMAIN orders : orders[o] \in Orders
      /\ FrameFits(calls[c], Len(orders))
  BY OnlyOne, FrameFacts, TableFacts DEF IInv, TypeOK
<1>2. \A f : Become(c, f) => calls'[c] = f
  BY <1>1 DEF Become
<1>3. \A at \in Stages : Stage(c, at) \in Frames /\ Stage(c, at).at = at
  BY <1>1, StageFits
<1>9. ~RestockAfterCancel(c) /\ ~CancelListedOrder(c) /\ ~EndCancel(c)
  BY DEF RestockAfterCancel, CancelListedOrder, EndCancel
<1>4. CASE n \in dropped
  <2>1. dropped \subseteq dropped'
    BY <1>9 DEF Acts, Step, ApprovePayment, Accept, Reject, AcceptanceTimeoutTick, NotificationLost,
       OpenAcceptanceWindow, ResolveAcceptance, ResolveMerchantAcceptance, ExpireOrder,
       TryAlternative, DropShop, MaybeOpenFunding, OpenEscrow, WriteEscrowRow, FundingReady, outcome
  <2> QED
    BY <1>4, <2>1 DEF SeenTo
<1>5. ASSUME NEW o \in InState(Cancellable), orders[o].need = n
      PROVE  SeenTo(n)'
  <2>1. o \in DOMAIN orders /\ orders[o].state \in Cancellable
    BY DEF InState
  <2>2. CASE UNCHANGED orders
    BY <1>5, <2>1, <2>2 DEF SeenTo, InState
  <2>3. CASE OpenAcceptanceWindow(c)
    <3>1. UNCHANGED orders \/ \E order : orders' = Append(orders, order)
      BY <2>3 DEF OpenAcceptanceWindow, tables
    <3>2. o \in DOMAIN orders' /\ orders'[o] = orders[o]
      BY <1>1, <2>1, <3>1
    <3> QED
      BY <1>5, <2>1, <3>2 DEF SeenTo, InState
  <2>4. ASSUME NEW p \in InState({"merchant_pending"}),
               NEW st \in {"merchant_confirmed", "merchant_rejected", "expired"}, SetOrderState(p, st),
               st = "merchant_confirmed" \/ (calls'[c].at = "saga" /\ calls'[c].order = p)
        PROVE  SeenTo(n)'
    <3>1. /\ DOMAIN orders' = DOMAIN orders
          /\ \A q \in DOMAIN orders :
                /\ orders'[q].need = orders[q].need
                /\ orders'[q].state = IF q = p THEN st ELSE orders[q].state
      BY <1>1, <2>4, StateMoves DEF InState, OrderStates
    <3> QED
      BY <1>1, <1>5, <2>1, <2>4, <3>1 DEF SeenTo, InState, Cancellable
  <2>5. CASE ResolveMerchantAcceptance(c)
    <3>1. calls[c].order \in InState({"merchant_pending"}) /\ calls[c].order \in Nat
      BY <1>1, <2>5, FrameFacts DEF ResolveMerchantAcceptance, FrameRight, InState, Frames
    <3>2. SetOrderState(calls[c].order, StateFor(calls[c].decision))
      BY <2>5 DEF ResolveMerchantAcceptance
    <3>3. calls[c].decision # "accepted" => calls'[c].at = "saga" /\ calls'[c].order = calls[c].order
      <4>1. Stage(c, "saga") \in Frames /\ Stage(c, "saga").at = "saga"
        BY <1>3 DEF Stages
      <4> QED
        BY <1>2, <2>5, <3>1, <4>1 DEF ResolveMerchantAcceptance, Frames
    <3> QED
      BY <2>4, <3>1, <3>2, <3>3 DEF StateFor
  <2>6. CASE ExpireOrder(c)
    <3>1. \/ UNCHANGED orders
          \/ \E p \in InState({"merchant_pending"}) : \E r :
                SetOrderState(p, "expired")
                /\ Become(c, [calls[c] EXCEPT !.at = "saga", !.order = p, !.rows = r])
      BY <2>6 DEF ExpireOrder, PendingOrderOf
    <3>2. ASSUME NEW p \in InState({"merchant_pending"}), NEW r, SetOrderState(p, "expired"),
                 Become(c, [calls[c] EXCEPT !.at = "saga", !.order = p, !.rows = r])
          PROVE  SeenTo(n)'
      <4>1. calls'[c].at = "saga" /\ calls'[c].order = p
        BY <1>1, <1>2, <3>2 DEF Frames
      <4> QED
        BY <2>4, <3>2, <4>1
    <3> QED
      BY <2>2, <3>1, <3>2
  <2>7. CASE OpenEscrow(c)
    <3>1. PICK p \in InState({"merchant_confirmed"}) :
            orders' = [orders EXCEPT ![p] = WithCode(@, orders[p].hash + 1)]
      BY <1>1, <2>7 DEF OpenEscrow, FrameRight
    <3>2. o \in DOMAIN orders' /\ orders'[o].need = n /\ orders'[o].state \in Cancellable
      BY <1>1, <1>5, <2>1, <3>1 DEF InState, WithCode, Orders, Cancellable
    <3> QED
      BY <3>2 DEF SeenTo, InState
  <2>8. CASE \/ ApprovePayment(c) \/ Accept(c) \/ Reject(c)
             \/ AcceptanceTimeoutTick(c) \/ NotificationLost(c)
             \/ ResolveAcceptance(c) \/ TryAlternative(c) \/ DropShop(c) \/ MaybeOpenFunding(c)
             \/ WriteEscrowRow(c) \/ FundingReady(c)
    <3>1. UNCHANGED orders
      BY <2>8 DEF ApprovePayment, Accept, Reject, AcceptanceTimeoutTick, NotificationLost,
         ResolveAcceptance, TryAlternative, DropShop, MaybeOpenFunding, WriteEscrowRow,
         FundingReady, tables
    <3> QED
      BY <2>2, <3>1
  <2> QED
    BY <1>9, <2>3, <2>5, <2>6, <2>7, <2>8 DEF Acts, Step
<1>6. ASSUME calls[c].at = "window", NEW i \in DOMAIN calls[c].shops, calls[c].shops[i].need = n
      PROVE  SeenTo(n)'
  <2> DEFINE shops == calls[c].shops
             order == [merchant |-> Head(shops).merchant, need |-> Head(shops).need,
                       state |-> "merchant_pending", hash |-> 0]
  <2>1. OpenAcceptanceWindow(c)
    BY <1>6, Turns
  <2>2. shops \in Seq(Shops) /\ shops # <<>>
    BY <1>1, <1>6 DEF FrameFits, Frames
  <2>3. Head(shops) \in Shops /\ Head(shops) = shops[1]
    BY <2>2
  <2>4. orders' = Append(orders, order)
    BY <2>1, <2>3 DEF OpenAcceptanceWindow, Shops
  <2>5. /\ Len(orders) + 1 \in DOMAIN orders' /\ orders'[Len(orders) + 1] = order
    BY <1>1, <2>4
  <2>6. CASE i = 1
    <3>1. orders'[Len(orders) + 1].need = n /\ orders'[Len(orders) + 1].state = "merchant_pending"
      BY <1>6, <2>3, <2>5, <2>6
    <3> QED
      BY <2>5, <3>1 DEF SeenTo, InState, Cancellable
  <2>7. CASE i # 1
    <3>1. Tail(shops) # <<>> /\ i - 1 \in DOMAIN Tail(shops) /\ Tail(shops)[i - 1] = shops[i]
      <4> HIDE DEF shops
      <4>1. /\ Tail(shops) \in Seq(Shops) /\ Len(Tail(shops)) = Len(shops) - 1
            /\ \A j \in 1 .. Len(Tail(shops)) : Tail(shops)[j] = shops[j + 1]
        BY <2>2, HeadTailProperties
      <4>2. i \in 1 .. Len(shops) /\ Len(shops) \in Nat
        BY <1>6, <2>2 DEF shops
      <4>3. i - 1 \in 1 .. Len(Tail(shops)) /\ i = (i - 1) + 1
        BY <2>7, <4>1, <4>2
      <4>4. Tail(shops)[i - 1] = shops[i]
        BY <4>1, <4>3
      <4>5. Tail(shops) # <<>>
        BY <4>1, <4>3
      <4> QED
        BY <4>1, <4>3, <4>4, <4>5
    <3>2. calls'[c] = [calls[c] EXCEPT !.shops = Tail(shops)]
      BY <1>2, <2>1, <3>1 DEF OpenAcceptanceWindow
    <3>3. calls'[c].at = "window" /\ calls'[c].shops = Tail(shops)
      BY <1>1, <1>6, <3>2 DEF Frames
    <3> QED
      BY <1>1, <1>6, <3>1, <3>3 DEF SeenTo
  <2> QED
    BY <2>6, <2>7
<1>7. ASSUME calls[c].at = "saga", orders[calls[c].order].need = n
      PROVE  SeenTo(n)'
  <2>1. TryAlternative(c) \/ DropShop(c)
    BY <1>7, Turns
  <2>2. CASE TryAlternative(c)
    <3>1. PICK shop \in FindAlternativeShop(calls[c].order) :
            Become(c, [Stage(c, "window") EXCEPT !.shops = <<shop>>])
      BY <2>2 DEF TryAlternative
    <3>2. shop.need = n
      BY <1>7 DEF FindAlternativeShop
    <3>3. calls'[c].at = "window" /\ calls'[c].shops = <<shop>>
      <4>1. Stage(c, "window") \in Frames /\ Stage(c, "window").at = "window"
        BY <1>3 DEF Stages
      <4> QED
        BY <1>2, <3>1, <4>1 DEF Frames
    <3>4. 1 \in DOMAIN <<shop>> /\ <<shop>>[1] = shop
      OBVIOUS
    <3> QED
      BY <1>1, <3>2, <3>3, <3>4 DEF SeenTo
  <2>3. CASE DropShop(c)
    BY <1>7, <2>3 DEF DropShop, SeenTo
  <2> QED
    BY <2>1, <2>2, <2>3
<1> QED
  BY <1>1, <1>4, <1>5, <1>6, <1>7 DEF SeenTo

LEMMA GivenUpStays ==
  ASSUME NEW c, Only(c), GivenUp, Acts(c)
  PROVE  GivenUp'
<1>1. Calls = {c} /\ IInv /\ calls \in [Calls -> Frames] /\ calls[c].at \in {"idle", "expire"}
      /\ InState({"merchant_pending"}) = {}
  BY OnlyOne, FrameFacts DEF GivenUp, InState, Cancellable
<1>2. ~ApprovePayment(c) /\ ~Accept(c) /\ ~Reject(c)
  BY <1>1 DEF GivenUp, ApprovePayment, Accept, Reject, Answerable, PendingOrderOf
<1>3. CASE AcceptanceTimeoutTick(c)
  <2>1. PICK stale : Become(c, [Idle EXCEPT !.at = "expire", !.rows = stale])
    BY <1>3 DEF AcceptanceTimeoutTick
  <2>2. calls'[c].at = "expire"
    BY <1>1, <2>1 DEF Become, Idle
  <2>3. UNCHANGED <<orders, status>>
    BY <1>3 DEF AcceptanceTimeoutTick, outcome
  <2> QED
    BY <1>1, <2>2, <2>3 DEF GivenUp, InState
<1>4. CASE ExpireOrder(c)
  <2>1. UNCHANGED <<orders, status>> /\ \E r : Become(c, Idle) \/ Become(c, [calls[c] EXCEPT !.rows = r])
    BY <1>1, <1>4 DEF ExpireOrder, PendingOrderOf, outcome
  <2>2. calls'[c].at \in {"idle", "expire"}
    <3>1. calls[c] \in Frames
      BY <1>1
    <3> QED
      BY <1>1, <2>1, <3>1 DEF Become, Frames, Idle
  <2> QED
    BY <1>1, <2>1, <2>2 DEF GivenUp, InState
<1> QED
  BY <1>1, <1>2, <1>3, <1>4, Turns

\* A cancellation goes on until the task is given up.
LEMMA CancelEnds ==
  ASSUME NEW c, Only(c), Acts(c), calls[c].at \in {"cancel", "restocked"}
  PROVE  calls'[c].at \in {"cancel", "restocked"} \/ GivenUp'
<1>1. RestockAfterCancel(c) => calls'[c].at = "restocked"
  <2>1. calls \in [Calls -> Frames] /\ calls[c] \in Frames
    BY OnlyOne, FrameFacts
  <2>2. RestockAfterCancel(c) =>
           \E o : Become(c, [calls[c] EXCEPT !.at = "restocked", !.order = o])
    BY DEF RestockAfterCancel
  <2> QED
    BY <2>1, <2>2, OnlyOne DEF Become, Frames
<1> QED
  BY <1>1, Turns, FrameLeaves, EndCancelSerial

LEMMA ForgottenStep ==
  ASSUME OneAtATime, Provisioned = Merchants,
         SerialInv, NothingForgotten, [Next]_vars
  PROVE  NothingForgotten' \/ BridgeRestart
<1>1. ASSUME NEW c \in Calls, Acts(c) PROVE NothingForgotten'
  <2>1. Only(c)
    BY DEF Only
  <2>2. CASE CancelPgTask(c)
    BY <2>1, <2>2, FrameLeaves DEF NothingForgotten, GivingUp
  <2>6. CASE calls[c].at \in {"cancel", "restocked"}
    BY <1>1, <2>1, <2>6, CancelEnds DEF NothingForgotten, GivingUp
  <2>3. CASE GivenUp
    BY <1>1, <2>1, <2>3, GivenUpStays DEF NothingForgotten
  <2>4. CASE /\ ~CancelPgTask(c) /\ calls[c].at \notin {"cancel", "restocked"}
             /\ \A i \in DOMAIN OptionShops : SeenTo(OptionShops[i].need)
    <3>1. \A i \in DOMAIN OptionShops : SeenTo(OptionShops[i].need)'
      BY <1>1, <2>1, <2>4, SeenStays
    <3> QED
      BY <3>1 DEF NothingForgotten
  <2>5. CASE status = "awaiting_approval" /\ ~CancelPgTask(c)
    <3>1. calls[c] = Idle /\ orders = <<>> /\ calls \in [Calls -> Frames] /\ IInv
      BY <2>1, <2>5, OnlyOne, FrameFacts DEF Only, SerialInv, PhaseRight
    <3>2. CASE ApprovePayment(c)
      <4>1. calls'[c].at = "window" /\ calls'[c].shops = OptionShops
        BY <3>1, <3>2 DEF ApprovePayment, Become, Idle
      <4> QED
        BY <4>1 DEF NothingForgotten, SeenTo
    <3>3. CASE ~ApprovePayment(c)
      <4>1. calls[c].at = "idle" /\ DOMAIN orders = {} /\ DOMAIN acceptances = {}
        BY <3>1, TableFacts DEF Idle
      <4>2. ~Accept(c) /\ ~Reject(c) /\ ~AcceptanceTimeoutTick(c)
        BY <4>1 DEF Accept, Reject, AcceptanceTimeoutTick
      <4>3. ~ExpireOrder(c)
        BY <4>1 DEF ExpireOrder
      <4> QED
        BY <1>1, <3>3, <4>1, <4>2, <4>3, Turns
    <3> QED
      BY <3>2, <3>3
  <2> QED
    <3>1. GivingUp => calls[c].at \in {"cancel", "restocked"}
      BY <2>1, OnlyOne DEF GivingUp
    <3> QED
      BY <2>2, <2>3, <2>4, <2>5, <2>6, <3>1 DEF NothingForgotten
<1>2. CASE CancelTask
  <2>1. UNCHANGED <<orders, dropped, calls>> /\ status' = "cancelled"
    BY <1>2 DEF CancelTask, tables
  <2>2. CASE status = "awaiting_approval"
    BY <2>1, <2>2 DEF SerialInv, PhaseRight, NothingForgotten, GivenUp, InState, Idle
  <2>3. CASE GivenUp
    BY <2>1, <2>3 DEF NothingForgotten, GivenUp, InState
  <2>4. CASE \A i \in DOMAIN OptionShops : SeenTo(OptionShops[i].need)
    BY <2>1, <2>4 DEF NothingForgotten, SeenTo, InState
  <2> QED
    BY <2>1, <2>2, <2>3, <2>4 DEF NothingForgotten, GivingUp
<1>3. CASE UNCHANGED vars \/ \E m \in Merchants : QuoteExpires(m)
  <2>1. UNCHANGED <<orders, dropped, calls, status>>
    BY <1>3 DEF vars, QuoteExpires, tables, outcome
  <2> QED
    BY <2>1 DEF NothingForgotten, GivingUp, GivenUp, SeenTo, InState
<1> QED
  BY <1>1, <1>2, <1>3 DEF Next, Acts

\* No failure is ever taken back.
LEMMA FailuresStay ==
  ASSUME IInv, [Next]_vars
  PROVE  /\ failures \in Nat /\ failures' \in Nat /\ failures' >= failures
         /\ BridgeRestart => failures' > 0
<1>1. failures \in Nat
  BY SagaAssumption DEF IInv, TypeOK
<1>2. failures' = failures \/ failures' = failures + 1
  BY DEF Next, Step, vars, world, ApprovePayment, OpenAcceptanceWindow, ResolveMerchantAcceptance,
     NotificationLost, AcceptanceTimeoutTick, ExpireOrder, TryAlternative, DropShop, CancelPgTask,
     RestockAfterCancel, CancelListedOrder, EndCancel, MaybeOpenFunding, OpenEscrow, WriteEscrowRow,
     FundingReady, CancelTask, BridgeRestart, QuoteExpires, Accept, Reject, ResolveAcceptance, Fail
<1>3. BridgeRestart => failures' = failures + 1
  BY DEF BridgeRestart, Fail
<1> QED
  BY <1>1, <1>2, <1>3

\* With one request at a time and every merchant in Postgres, the window ends whole
\* unless a restart cut it short: when funding opens each basket is to be funded or was
\* dropped, and, restart or not, a failed task has nothing to fund; what it still holds,
\* in confirmed orders and their stock, it holds for want of a wallet
\* (openAcceptanceWindow, maybeOpenFunding, cancelPgTask).
THEOREM WindowsEndWhole ==
  OneAtATime /\ Provisioned = Merchants => (Spec => []WindowEndsWhole)
<1> SUFFICES ASSUME OneAtATime, Provisioned = Merchants
             PROVE  Spec => []WindowEndsWhole
  OBVIOUS
<1> DEFINE Remembered == failures = 0 => NothingForgotten
<1>1. Init => Remembered
  BY DEF Init, NothingForgotten
<1>2. SerialInv /\ Remembered /\ [Next]_vars => SerialInv' /\ Remembered'
  <2> SUFFICES ASSUME SerialInv, Remembered, [Next]_vars PROVE SerialInv' /\ Remembered'
    OBVIOUS
  <2>1. SerialInv' /\ IInv
    BY SerialStep DEF SerialInv
  <2>2. failures \in Nat /\ failures' \in Nat /\ failures' >= failures /\ (BridgeRestart => failures' > 0)
    BY <2>1, FailuresStay
  <2>3. CASE failures = 0
    <3>1. NothingForgotten
      BY <2>3
    <3>2. NothingForgotten' \/ BridgeRestart
      BY <3>1, ForgottenStep
    <3> QED
      BY <2>1, <2>2, <3>2
  <2>4. CASE failures # 0
    BY <2>1, <2>2, <2>4
  <2> QED
    BY <2>3, <2>4
<1>3. SerialInv /\ Remembered => WindowEndsWhole
  <2> SUFFICES ASSUME SerialInv, Remembered PROVE WindowEndsWhole
    OBVIOUS
  <2>1. FailedHoldsOnlyUnowned
    BY DEF SerialInv, PhaseRight, FailedHoldsOnlyUnowned
  <2>2. ASSUME status = "awaiting_funding", failures = 0
        PROVE  /\ \A i \in DOMAIN OptionShops :
                     \/ OptionShops[i].need \in (dropped \ Essential) \cup Skipped
                     \/ \E o \in InState({"awaiting_funding"}) : orders[o].need = OptionShops[i].need
               /\ InState({"merchant_pending", "merchant_confirmed"}) = {}
    <3>1. /\ InState({"merchant_pending"}) = {} /\ InState({"merchant_confirmed"}) = {}
          /\ \A c \in Calls : calls[c].at \in {"idle", "expire"}
      BY <2>2 DEF SerialInv, PhaseRight, Past
    <3>2. InState(Cancellable) = InState({"awaiting_funding"})
      BY <3>1 DEF InState, Cancellable
    <3>3. \A i \in DOMAIN OptionShops : SeenTo(OptionShops[i].need)
      BY <2>2, <3>1 DEF NothingForgotten, GivingUp, GivenUp
    <3>4. \A i \in DOMAIN OptionShops :
             \/ OptionShops[i].need \in dropped \ Essential
             \/ \E o \in InState({"awaiting_funding"}) : orders[o].need = OptionShops[i].need
      BY <3>1, <3>2, <3>3 DEF SeenTo, SerialInv
    <3> QED
      BY <3>1, <3>4 DEF InState
  <2> QED
    BY <2>1, <2>2 DEF WindowEndsWhole, FundingIsComplete
<1> QED
  BY <1>1, <1>2, <1>3, InitSerial, PTL DEF Spec

=============================================================================
