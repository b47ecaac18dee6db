--------------------------- MODULE OrderFlowProofs ---------------------------
(***************************************************************************)
(* OrderFlow, for any number of orders, rows, baskets and requests, and    *)
(* for any table of cancellable statuses.  What is proved here uses the    *)
(* locks of the payment transactions and the CHECKs of the stock rows; it  *)
(* does not need the batches to be fresh.                                  *)
(***************************************************************************)
EXTENDS OrderFlow, TLAPS

(***************************************************************************)
(* Types.                                                                  *)
(***************************************************************************)

\* A granted reservation leaves a row its CHECKs accept.
LEMMA ReserveType ==
    ASSUME stock \in [Rows -> InventoryRow], NEW b \in Baskets, Reserve(b)
    PROVE  stock' \in [Rows -> InventoryRow]
<1>1. ASSUME NEW r \in Rows
      PROVE  [stock[r] EXCEPT !.reserved = @ + b[r]] \in InventoryRow
  <2>1. stock[r] \in InventoryRow /\ b[r] \in Nat
    BY BasketType
  <2>. QED  BY <2>1 DEF InventoryRow
<1>. QED  BY <1>1 DEF Reserve

\* What ReleaseAll writes has its type: the transaction commits or nothing.
LEMMA ReleaseType ==
    ASSUME NEW S \in SUBSET Orders, released \in [Orders -> Nat], ReleaseAll(S)
    PROVE  /\ stock' \in [Rows -> InventoryRow]
           /\ released' \in [Orders -> Nat]
BY DEF ReleaseAll, Accepted

\* The orders a read brings back are orders.
LEMMA FoundAreOrders ==
    ASSUME NEW q \in Requests, ReadOrders(q) \/ RunCommand(q)
    PROVE  \E S \in SUBSET Orders : FindStale(q, S)
BY DEF ReadOrders, RunCommand, Scopes, Orders

LEMMA InitType == Init => TypeOK
<1>. SUFFICES ASSUME Init PROVE TypeOK
  OBVIOUS
<1>1. stock \in [Rows -> InventoryRow]
  BY BasketType DEF Init, InventoryRow
<1>. QED  BY <1>1 DEF Init, TypeOK, Status, NoPayment

\* Every action of an order keeps the types.
LEMMA OrderType ==
    ASSUME TypeOK, NEW o \in Orders, OrderStep(o)
    PROVE  TypeOK'
<1>. USE DEF TypeOK, orderVars, historyVars
<1>1. ASSUME NEW b \in Baskets, Checkout(o, b) PROVE TypeOK'
  <2>1. stock' \in [Rows -> InventoryRow]
    BY <1>1, ReserveType DEF Checkout
  <2>. QED  BY <1>1, <2>1, BasketType DEF Checkout, Status, Open
<1>2. CASE ReservationLapses(o)
  BY <1>2 DEF ReservationLapses
<1>3. CASE PayCheck(o)
  BY <1>3 DEF PayCheck
<1>4. CASE PayFindsStale(o)
  <2>1. stock' \in [Rows -> InventoryRow] /\ released' \in [Orders -> Nat]
    BY <1>4, ReleaseType DEF PayFindsStale
  <2>. QED  BY <1>4, <2>1 DEF PayFindsStale, Status
<1>5. CASE PayConfirm(o)
  <2>1. pays' \in [Orders -> [pending : Nat, successful : Nat, failed : Nat]]
    <3>1. pays[o].pending + 1 \in Nat
      OBVIOUS
    <3>2. [pays[o] EXCEPT !.pending = @ + 1]
            \in [pending : Nat, successful : Nat, failed : Nat]
      BY <3>1
    <3>. QED  BY <1>5, <3>2 DEF PayConfirm
  <2>. QED  BY <1>5, <2>1 DEF PayConfirm, Status, Open
<1>6. CASE PayRefused(o)
  BY <1>6 DEF PayRefused
<1>7. CASE Approve(o)
  <2>1. pays' \in [Orders -> [pending : Nat, successful : Nat, failed : Nat]]
    BY <1>7 DEF Approve, AwaitsReview
  <2>2. stock' \in [Rows -> InventoryRow] /\ consumed' \in [Orders -> Nat]
    BY <1>7 DEF Approve, Accepted
  <2>. QED  BY <1>7, <2>1, <2>2 DEF Approve, Status, Fulfilled
<1>8. CASE Reject(o)
  <2>1. pays' \in [Orders -> [pending : Nat, successful : Nat, failed : Nat]]
    BY <1>8 DEF Reject, AwaitsReview
  <2>2. stock' \in [Rows -> InventoryRow] /\ released' \in [Orders -> Nat]
    BY <1>8, ReleaseType DEF Reject
  <2>. QED  BY <1>8, <2>1, <2>2 DEF Reject, Status
<1>9. CASE Cancel(o)
  <2>1. stock' \in [Rows -> InventoryRow] /\ released' \in [Orders -> Nat]
    BY <1>9, ReleaseType DEF Cancel
  <2>. QED  BY <1>9, <2>1 DEF Cancel, Status
<1>10. CASE Advance(o)
  BY <1>10 DEF Advance
<1>. QED
  BY <1>1, <1>2, <1>3, <1>4, <1>5, <1>6, <1>7, <1>8, <1>9, <1>10 DEF OrderStep

\* Every action of a request keeps the types.
LEMMA RequestType ==
    ASSUME TypeOK, NEW q \in Requests, RequestStep(q)
    PROVE  TypeOK'
<1>. USE DEF TypeOK, orderVars, historyVars
<1>1. CASE ReadOrders(q) \/ RunCommand(q)
  <2>1. PICK S \in SUBSET Orders : FindStale(q, S)
    BY <1>1, FoundAreOrders
  <2>. QED  BY <2>1 DEF FindStale
<1>2. CASE ExpireBatch(q)
  <2>1. stock' \in [Rows -> InventoryRow] /\ released' \in [Orders -> Nat]
    BY <1>2, ReleaseType DEF ExpireBatch
  <2>2. status' \in [Orders -> Status]
    BY <1>2 DEF ExpireBatch, Status
  <2>. QED  BY <1>2, <2>1, <2>2 DEF ExpireBatch
<1>3. CASE ExpireRefused(q)
  BY <1>3 DEF ExpireRefused
<1>. QED  BY <1>1, <1>2, <1>3 DEF RequestStep

\* Types hold throughout.  For the stock rows this says that the CHECKs of
\* the inventory table turn every underflow of a counter into a rollback.
THEOREM Typed == Spec => []TypeOK
<1>1. TypeOK /\ [Next]_vars => TypeOK'
  <2>. SUFFICES ASSUME TypeOK, [Next]_vars PROVE TypeOK'
    OBVIOUS
  <2>1. CASE UNCHANGED vars
    BY <2>1 DEF TypeOK, vars, orderVars, historyVars
  <2>2. ASSUME NEW o \in Orders, OrderStep(o) PROVE TypeOK'
    BY <2>2, OrderType
  <2>3. ASSUME NEW q \in Requests, RequestStep(q) PROVE TypeOK'
    BY <2>3, RequestType
  <2>. QED  BY <2>1, <2>2, <2>3 DEF Next
<1>. QED  BY <1>1, InitType, PTL DEF Spec

(***************************************************************************)
(* Payments and sales.                                                     *)
(***************************************************************************)

Untouched(o) == released[o] = 0 /\ consumed[o] = 0

\* What makes the safety invariants inductive.  An order that may still be
\* paid is untouched and its payment rows are known exactly, because each of
\* its two open statuses is left under the order's lock; the batches, which
\* do not look again, only ever push an order out of the open statuses.
OrderInv(o) ==
    /\ status[o] \in {"none", "payment_pending"} =>
            Untouched(o) /\ pays[o] = NoPayment
    /\ status[o] = "payment_processing" =>
            Untouched(o) /\ pays[o] = [NoPayment EXCEPT !.pending = 1]
    /\ status[o] \in Fulfilled => pays[o].successful = 1
    /\ status[o] \in Final => released[o] + consumed[o] >= 1
    /\ pays[o].pending + pays[o].successful + pays[o].failed <= 1
    /\ consumed[o] = pays[o].successful

\* A batch names orders that exist.
BatchInv == \A q \in Requests : \A o \in batch[q] : status[o] # "none"

IInv == TypeOK /\ (\A o \in Orders : OrderInv(o)) /\ BatchInv

\* The status constants, for the steps that compare them.
LEMMA Kinds ==
    /\ Open = {"payment_pending", "payment_processing"}
    /\ Fulfilled = {"paid", "confirmed", "preparing", "packed", "shipped", "delivered"}
    /\ Final = {"payment_failed", "payment_expired", "cancelled"}
BY DEF Open, Fulfilled, Final

LEMMA InitInv == Init => IInv
<1>. SUFFICES ASSUME Init PROVE IInv
  OBVIOUS
<1>1. \A o \in Orders : OrderInv(o)
  BY Kinds DEF Init, OrderInv, Untouched, NoPayment
<1>. QED  BY <1>1, InitType DEF Init, IInv, BatchInv

\* No action touches an order it is not about, and none makes an order vanish.
LEMMA Frame ==
    ASSUME TypeOK, NEW o \in Orders, OrderStep(o)
    PROVE  /\ \A p \in Orders \ {o} : UNCHANGED <<status[p], pays[p], released[p], consumed[p]>>
           /\ UNCHANGED batch
           /\ status'[o] # "none" \/ status'[o] = status[o]
<1>. USE DEF TypeOK, orderVars, historyVars, ReleaseAll
<1>1. ASSUME NEW b \in Baskets, Checkout(o, b)
      PROVE  /\ \A p \in Orders \ {o} : UNCHANGED <<status[p], pays[p], released[p], consumed[p]>>
             /\ UNCHANGED batch
             /\ status'[o] # "none"
  BY <1>1 DEF Checkout
<1>2. CASE ReservationLapses(o) \/ PayCheck(o) \/ PayRefused(o)
  BY <1>2 DEF ReservationLapses, PayCheck, PayRefused
<1>3. CASE PayFindsStale(o)
  BY <1>3 DEF PayFindsStale
<1>4. CASE PayConfirm(o)
  BY <1>4 DEF PayConfirm
<1>5. CASE Approve(o)
  BY <1>5 DEF Approve
<1>6. CASE Reject(o)
  BY <1>6 DEF Reject
<1>7. CASE Cancel(o)
  BY <1>7 DEF Cancel
<1>8. CASE Advance(o)
  BY <1>8 DEF Advance, StatusActions
<1>. QED
  BY <1>1, <1>2, <1>3, <1>4, <1>5, <1>6, <1>7, <1>8 DEF OrderStep

\* The order an action is about keeps its invariant.
LEMMA OrderStepInv ==
    ASSUME TypeOK, NEW o \in Orders, OrderInv(o), OrderStep(o)
    PROVE  OrderInv(o)'
<1>. USE Kinds DEF TypeOK, orderVars, historyVars, OrderInv, Untouched, NoPayment
<1>1. ASSUME NEW b \in Baskets, Checkout(o, b) PROVE OrderInv(o)'
  BY <1>1 DEF Checkout
<1>2. CASE ReservationLapses(o) \/ PayCheck(o) \/ PayRefused(o)
  BY <1>2 DEF ReservationLapses, PayCheck, PayRefused
<1>3. CASE PayFindsStale(o)
  BY <1>3 DEF PayFindsStale, ReleaseAll
<1>4. CASE PayConfirm(o)
  <2>1. pays'[o] = [pending |-> 1, successful |-> 0, failed |-> 0]
    <3>1. pays[o] = [pending |-> 0, successful |-> 0, failed |-> 0]
      BY <1>4 DEF PayConfirm
    <3>. QED  BY <1>4, <3>1 DEF PayConfirm
  <2>. QED  BY <1>4, <2>1 DEF PayConfirm
<1>5. CASE Approve(o)
  <2>1. pays'[o] = [pending |-> 0, successful |-> 1, failed |-> 0]
    <3>1. pays[o] = [pending |-> 1, successful |-> 0, failed |-> 0]
      BY <1>5 DEF Approve, AwaitsReview
    <3>. QED  BY <1>5, <3>1 DEF Approve, AwaitsReview
  <2>2. consumed'[o] = 1 /\ status'[o] = "paid"
    BY <1>5 DEF Approve, AwaitsReview
  <2>. QED  BY <2>1, <2>2
<1>6. CASE Reject(o)
  <2>1. pays'[o] = [pending |-> 0, successful |-> 0, failed |-> 1]
    <3>1. pays[o] = [pending |-> 1, successful |-> 0, failed |-> 0]
      BY <1>6 DEF Reject, AwaitsReview
    <3>. QED  BY <1>6, <3>1 DEF Reject, AwaitsReview
  <2>2. consumed'[o] = 0 /\ released'[o] = 1 /\ status'[o] = "payment_failed"
    BY <1>6 DEF Reject, AwaitsReview, ReleaseAll
  <2>. QED  BY <2>1, <2>2
<1>7. CASE Cancel(o)
  BY <1>7 DEF Cancel, ReleaseAll
<1>8. CASE Advance(o)
  BY <1>8 DEF Advance, StatusActions
<1>. QED
  BY <1>1, <1>2, <1>3, <1>4, <1>5, <1>6, <1>7, <1>8 DEF OrderStep

LEMMA OrderStepKeeps ==
    ASSUME IInv, NEW o \in Orders, OrderStep(o)
    PROVE  IInv'
<1>1. TypeOK'
  BY OrderType DEF IInv
<1>2. ASSUME NEW p \in Orders PROVE OrderInv(p)'
  <2>1. CASE p = o
    BY <2>1, OrderStepInv DEF IInv
  <2>2. CASE p # o
    BY <2>2, Frame DEF IInv, OrderInv, Untouched
  <2>. QED  BY <2>1, <2>2
<1>3. BatchInv'
  BY Frame DEF IInv, TypeOK, BatchInv
<1>. QED  BY <1>1, <1>2, <1>3 DEF IInv

LEMMA RequestStepKeeps ==
    ASSUME IInv, NEW q \in Requests, RequestStep(q)
    PROVE  IInv'
<1>. USE DEF orderVars, historyVars
<1>1. TypeOK'
  BY RequestType DEF IInv
<1>2. CASE ReadOrders(q) \/ RunCommand(q)
  <2>1. PICK S \in SUBSET Orders : FindStale(q, S)
    BY <1>2, FoundAreOrders
  <2>2. \A p \in Orders : OrderInv(p)'
    BY <2>1 DEF FindStale, IInv, OrderInv, Untouched
  <2>3. BatchInv'
    BY <2>1 DEF FindStale, Stale, IInv, TypeOK, BatchInv
  <2>. QED  BY <1>1, <2>2, <2>3 DEF IInv
<1>3. CASE ExpireBatch(q)
  <2>1. ASSUME NEW p \in Orders PROVE OrderInv(p)'
    <3>1. CASE p \in batch[q]
      <4>1. status'[p] = "payment_expired" /\ UNCHANGED <<pays[p], consumed[p]>>
        BY <1>3, <3>1 DEF ExpireBatch, IInv, TypeOK
      <4>2. released'[p] = released[p] + 1
        BY <1>3, <3>1 DEF ExpireBatch, ReleaseAll
      <4>3. released[p] \in Nat /\ consumed[p] \in Nat
        BY DEF IInv, TypeOK
      <4>. QED  BY <4>1, <4>2, <4>3, Kinds DEF IInv, OrderInv
    <3>2. CASE p \notin batch[q]
      <4>1. UNCHANGED <<status[p], pays[p], released[p], consumed[p]>>
        BY <1>3, <3>2 DEF ExpireBatch, ReleaseAll
      <4>. QED  BY <4>1 DEF IInv, OrderInv, Untouched
    <3>. QED  BY <3>1, <3>2
  <2>2. BatchInv'
    BY <1>3 DEF ExpireBatch, IInv, TypeOK, BatchInv
  <2>. QED  BY <1>1, <2>1, <2>2 DEF IInv
<1>4. CASE ExpireRefused(q)
  <2>1. \A p \in Orders : OrderInv(p)'
    BY <1>4 DEF ExpireRefused, IInv, OrderInv, Untouched
  <2>2. BatchInv'
    BY <1>4 DEF ExpireRefused, IInv, TypeOK, BatchInv
  <2>. QED  BY <1>1, <2>1, <2>2 DEF IInv
<1>. QED  BY <1>2, <1>3, <1>4 DEF RequestStep

THEOREM Invariance == Spec => []IInv
<1>1. IInv /\ [Next]_vars => IInv'
  <2>. SUFFICES ASSUME IInv, [Next]_vars PROVE IInv'
    OBVIOUS
  <2>1. CASE UNCHANGED vars
    BY <2>1 DEF IInv, TypeOK, OrderInv, Untouched, BatchInv, vars, orderVars, historyVars
  <2>2. ASSUME NEW o \in Orders, OrderStep(o) PROVE IInv'
    BY <2>2, OrderStepKeeps
  <2>3. ASSUME NEW q \in Requests, RequestStep(q) PROVE IInv'
    BY <2>3, RequestStepKeeps
  <2>. QED  BY <2>1, <2>2, <2>3 DEF Next
<1>. QED  BY <1>1, InitInv, PTL DEF Spec

\* An order has at most one payment row, whatever calls of the payment
\* endpoint, cancellations and expiries interleave.
THEOREM OnePayment == Spec => []AtMostOnePayment
<1>1. IInv => AtMostOnePayment
  BY DEF IInv, OrderInv, AtMostOnePayment
<1>. QED  BY <1>1, Invariance, PTL

\* Stock is sold once per accepted payment, and never without one.
THEOREM SoldOncePaid == Spec => []PaidMeansSold
<1>1. IInv => PaidMeansSold
  BY DEF IInv, TypeOK, OrderInv, PaidMeansSold
<1>. QED  BY <1>1, Invariance, PTL

\* As long as an order may be paid, its hold has not been settled.
THEOREM HoldUntilSettled == Spec => []OpenOrdersHold
<1>1. IInv => OpenOrdersHold
  BY DEF IInv, OrderInv, Untouched, OpenOrdersHold, Open
<1>. QED  BY <1>1, Invariance, PTL

\* Fulfilment never runs ahead of an accepted payment.
THEOREM NoUnpaidFulfilment == Spec => []FulfilledIsPaid
<1>1. IInv => FulfilledIsPaid
  BY DEF IInv, OrderInv, FulfilledIsPaid
<1>. QED  BY <1>1, Invariance, PTL

(***************************************************************************)
(* Who settles a second time.                                              *)
(***************************************************************************)

\* The steps of an order settle it once, unless they cancel it after its sale,
\* and leave an order alone that is final.
LEMMA OrderSettles ==
    ASSUME IInv, NEW o \in Orders, OrderStep(o)
    PROVE  /\ Oversettled(o)' /\ ~Oversettled(o) => status[o] \in Fulfilled
           /\ status[o] \in Final => status'[o] = status[o]
<1>. USE Kinds DEF IInv, TypeOK, OrderInv, Untouched, Oversettled, orderVars, historyVars
<1>1. ASSUME NEW b \in Baskets, Checkout(o, b)
      PROVE  UNCHANGED <<released[o], consumed[o]>> /\ status[o] \notin Final
  BY <1>1 DEF Checkout
<1>2. CASE ReservationLapses(o) \/ PayCheck(o) \/ PayRefused(o)
  BY <1>2 DEF ReservationLapses, PayCheck, PayRefused
<1>3. CASE PayFindsStale(o)
  BY <1>3 DEF PayFindsStale, Stale, ReleaseAll
<1>4. CASE PayConfirm(o)
  BY <1>4 DEF PayConfirm
<1>5. CASE Approve(o)
  BY <1>5 DEF Approve, AwaitsReview
<1>6. CASE Reject(o)
  BY <1>6 DEF Reject, AwaitsReview, ReleaseAll
<1>7. CASE Cancel(o)
  <2>1. status[o] \in Open \union Fulfilled
    BY <1>7, CancelType DEF Cancel
  <2>. QED  BY <1>7, <2>1 DEF Cancel, ReleaseAll
<1>8. CASE Advance(o)
  BY <1>8 DEF Advance, StatusActions
<1>. QED
  BY <1>1, <1>2, <1>3, <1>4, <1>5, <1>6, <1>7, <1>8 DEF OrderStep

\* Of the requests only the batches settle, and only their own orders.
LEMMA RequestSettles ==
    ASSUME IInv, NEW q \in Requests, RequestStep(q), NEW o \in Orders
    PROVE  \/ UNCHANGED <<status[o], released[o], consumed[o]>>
           \/ /\ o \in batch[q] \ batch'[q]
              /\ released'[o] = released[o] + 1 /\ UNCHANGED consumed[o]
<1>. USE DEF IInv, TypeOK, orderVars, historyVars
<1>1. CASE ReadOrders(q) \/ RunCommand(q) \/ ExpireRefused(q)
  BY <1>1 DEF ReadOrders, RunCommand, FindStale, ExpireRefused
<1>2. CASE ExpireBatch(q)
  BY <1>2 DEF ExpireBatch, ReleaseAll
<1>. QED  BY <1>1, <1>2 DEF RequestStep

\* A reservation is settled a second time by an expiry that acts on rows read
\* earlier or by the cancellation of a sold order, and by nothing else.
THEOREM SettledAgainOnlySo == Spec => SettledOnce
<1>1. IInv /\ [Next]_vars =>
        [\A o \in Orders :
            Oversettled(o)' /\ ~Oversettled(o) =>
                (\E q \in Requests : o \in batch[q] \ batch'[q]) \/ status[o] \in Fulfilled]_vars
  <2>. SUFFICES ASSUME IInv, [Next]_vars, NEW o \in Orders, Oversettled(o)', ~Oversettled(o)
                PROVE  (\E q \in Requests : o \in batch[q] \ batch'[q]) \/ status[o] \in Fulfilled
    OBVIOUS
  <2>1. CASE UNCHANGED vars
    BY <2>1 DEF Oversettled, vars, historyVars
  <2>2. ASSUME NEW p \in Orders, OrderStep(p) PROVE p = o
    BY <2>2, Frame DEF IInv, Oversettled
  <2>3. ASSUME NEW q \in Requests, RequestStep(q) PROVE o \in batch[q] \ batch'[q]
    BY <2>3, RequestSettles DEF Oversettled
  <2>. QED  BY <2>1, <2>2, <2>3, OrderSettles DEF Next
<1>. QED  BY <1>1, Invariance, PTL DEF Spec, SettledOnce

\* What expired, failed or was cancelled never comes back to life, but for the
\* batch that expires it a second time.
THEOREM EndedOrdersStay == Spec => FinalStays
<1>1. IInv /\ [Next]_vars =>
        [\A o \in Orders : status[o] \in Final => status'[o] = status[o] \/ Oversettled(o)']_vars
  <2>. SUFFICES ASSUME IInv, [Next]_vars, NEW o \in Orders, status[o] \in Final
                PROVE  status'[o] = status[o] \/ Oversettled(o)'
    OBVIOUS
  <2>1. CASE UNCHANGED vars
    BY <2>1 DEF vars, orderVars
  <2>2. ASSUME NEW p \in Orders, OrderStep(p) PROVE status'[o] = status[o]
    BY <2>2, Frame, OrderSettles DEF IInv
  <2>3. ASSUME NEW q \in Requests, RequestStep(q) PROVE status'[o] = status[o] \/ Oversettled(o)'
    <3>1. released[o] \in Nat /\ consumed[o] \in Nat /\ released[o] + consumed[o] >= 1
      BY DEF IInv, TypeOK, OrderInv
    <3>. QED  BY <2>3, <3>1, RequestSettles DEF Oversettled
  <2>. QED  BY <2>1, <2>2, <2>3 DEF Next
<1>. QED  BY <1>1, Invariance, PTL DEF Spec, FinalStays

(***************************************************************************)
(* The flow implements StockHold.                                          *)
(***************************************************************************)

LEMMA InitHolds == Init => Hold!Init
BY DEF Init, hold, Hold!Init

\* hold is a function on Orders, so it changes as its values do.
LEMMA HoldPointwise ==
    ASSUME NEW o \in Orders, NEW x, hold'[o] = x,
           \A p \in Orders \ {o} : hold'[p] = hold[p]
    PROVE  /\ hold' = [hold EXCEPT ![o] = x]
           /\ hold' = [p \in Orders |-> IF p \in {o} THEN x ELSE hold[p]]
<1>1. /\ hold = [p \in Orders |-> hold[p]]
      /\ hold' = [p \in Orders |-> hold'[p]]
  BY DEF hold
<1>2. hold' = [hold EXCEPT ![o] = x]
  BY <1>1
<1>3. hold' = [p \in Orders |-> IF p \in {o} THEN x ELSE hold[p]]
  BY <1>1
<1>. QED  BY <1>2, <1>3

\* A step of order o leaves the holds of the others alone and moves its own
\* as StockHold allows.
LEMMA OrderHolds ==
    ASSUME IInv, NEW o \in Orders, OrderStep(o)
    PROVE  [Hold!Next]_hold
<1>. USE Kinds DEF IInv, TypeOK, OrderInv, Untouched, orderVars, historyVars
<1>1. \A p \in Orders \ {o} : hold'[p] = hold[p]
  BY Frame DEF hold
<1>2. ASSUME NEW b \in Baskets, Checkout(o, b) PROVE Hold!Take(o)
  <2>1. hold[o] = "none" /\ hold'[o] = "held"
    BY <1>2 DEF Checkout, hold
  <2>. QED  BY <1>1, <2>1, HoldPointwise DEF Hold!Take
<1>3. CASE ReservationLapses(o) \/ PayCheck(o) \/ PayRefused(o)
  BY <1>3 DEF ReservationLapses, PayCheck, PayRefused, hold
<1>4. ASSUME PayFindsStale(o) \/ Reject(o) PROVE Hold!GiveBack({o})
  <2>1. hold[o] = "held"
    BY <1>4 DEF PayFindsStale, Stale, Reject, AwaitsReview, hold
  <2>2. hold'[o] = "returned"
    BY <1>4 DEF PayFindsStale, Stale, Reject, AwaitsReview, ReleaseAll, hold
  <2>. QED  BY <1>1, <2>1, <2>2, HoldPointwise DEF Hold!GiveBack
<1>5. CASE PayConfirm(o)
  BY <1>5 DEF PayConfirm, hold
<1>6. ASSUME Approve(o) PROVE Hold!Sell(o)
  <2>1. hold[o] = "held"
    BY <1>6 DEF Approve, AwaitsReview, hold
  <2>2. hold'[o] = "sold"
    BY <1>6 DEF Approve, AwaitsReview, hold
  <2>. QED  BY <1>1, <2>1, <2>2, HoldPointwise DEF Hold!Sell
<1>7. CASE Cancel(o)
  <2>1. CASE consumed[o] > 0 \/ released[o] > 0
    BY <1>7, <2>1, CancelType DEF Cancel, ReleaseAll, hold
  <2>2. CASE consumed[o] = 0 /\ released[o] = 0
    <3>1. hold[o] = "held"
      BY <1>7, <2>2, CancelType DEF Cancel, hold
    <3>2. hold'[o] = "returned"
      BY <1>7, <2>2 DEF Cancel, ReleaseAll, hold
    <3>3. Hold!GiveBack({o})
      BY <1>1, <3>1, <3>2, HoldPointwise DEF Hold!GiveBack
    <3>. QED  BY <3>3 DEF Hold!Next
  <2>. QED  BY <2>1, <2>2
<1>8. CASE Advance(o)
  BY <1>8 DEF Advance, StatusActions, hold
<1>. QED
  BY <1>2, <1>3, <1>4, <1>5, <1>6, <1>7, <1>8 DEF OrderStep, Hold!Next

\* A batch gives back the holds its orders still have; the orders that were
\* sold or given back meanwhile keep what became of them.
LEMMA BatchHolds ==
    ASSUME IInv, NEW q \in Requests, ExpireBatch(q)
    PROVE  Hold!Next
<1>. DEFINE S == {o \in batch[q] : hold[o] = "held"}
<1>. USE DEF IInv, TypeOK, BatchInv, hold
<1>1. S \in SUBSET Orders
  OBVIOUS
<1>2. ASSUME NEW o \in Orders
      PROVE  hold'[o] = IF o \in S THEN "returned" ELSE hold[o]
  <2>1. UNCHANGED consumed[o]
    BY DEF ExpireBatch
  <2>2. CASE o \in batch[q]
    <3>1. /\ status[o] # "none" /\ status'[o] = "payment_expired"
          /\ released'[o] = released[o] + 1
      BY <2>2 DEF ExpireBatch, ReleaseAll
    <3>. QED  BY <2>1, <2>2, <3>1
  <2>3. CASE o \notin batch[q]
    <3>1. UNCHANGED <<status[o], released[o]>>
      BY <2>3 DEF ExpireBatch, ReleaseAll
    <3>. QED  BY <2>1, <2>3, <3>1
  <2>. QED  BY <2>2, <2>3
<1>3. hold' = [o \in Orders |-> IF o \in S THEN "returned" ELSE hold[o]]
  BY <1>2
<1>4. \A o \in S : hold[o] = "held"
  OBVIOUS
<1>. HIDE DEF S, hold
<1>5. Hold!GiveBack(S)
  BY <1>3, <1>4 DEF Hold!GiveBack
<1>. QED  BY <1>1, <1>5 DEF Hold!Next

LEMMA RequestHolds ==
    ASSUME IInv, NEW q \in Requests, RequestStep(q)
    PROVE  [Hold!Next]_hold
<1>1. CASE ReadOrders(q) \/ RunCommand(q) \/ ExpireRefused(q)
  <2>1. UNCHANGED <<status, released, consumed>>
    BY <1>1 DEF ReadOrders, RunCommand, FindStale, ExpireRefused, orderVars, historyVars
  <2>. QED  BY <2>1 DEF hold
<1>2. CASE ExpireBatch(q)
  BY <1>2, BatchHolds
<1>. QED  BY <1>1, <1>2 DEF RequestStep

\* Checkout, payment, review, cancellation and the unguarded expiry together
\* keep StockHold's promise: a hold is taken once and ends once, and stock
\* that went back is not sold under the same order.
THEOREM ImplementsStockHold == Spec => HoldSpec
<1>1. IInv /\ [Next]_vars => [Hold!Next]_hold
  <2>. SUFFICES ASSUME IInv, [Next]_vars PROVE [Hold!Next]_hold
    OBVIOUS
  <2>1. CASE UNCHANGED vars
    BY <2>1 DEF vars, orderVars, historyVars, hold
  <2>2. ASSUME NEW o \in Orders, OrderStep(o) PROVE [Hold!Next]_hold
    BY <2>2, OrderHolds
  <2>3. ASSUME NEW q \in Requests, RequestStep(q) PROVE [Hold!Next]_hold
    BY <2>3, RequestHolds
  <2>. QED  BY <2>1, <2>2, <2>3 DEF Next
<1>. QED  BY <1>1, InitHolds, Invariance, PTL DEF Spec, HoldSpec, Hold!Spec

=============================================================================
