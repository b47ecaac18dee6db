------------------------------ MODULE OrderFlow ------------------------------
(***************************************************************************)
(* The life of an order in the shop flow (domains/order) and in the        *)
(* marketplace flow (domains/marketplace), which inherits it: checkout     *)
(* reserves stock for thirty minutes, a customer submits a manual payment, *)
(* an admin reviews it, fulfilment or cancellation follows, and            *)
(* reservations that lapse are expired by whoever reads the order, by the  *)
(* payment endpoint or by the expire_orders command.                       *)
(*                                                                         *)
(* Every action is one database transaction.  The transactions that lock   *)
(* the order row and test it under the lock are single steps.  The lazy    *)
(* expiry is two steps, because expire_lazy, _expire_if_stale and          *)
(* expire_orders decide on rows they no longer hold: ReadOrders or         *)
(* RunCommand, then ExpireBatch.                                           *)
(***************************************************************************)
EXTENDS Integers, FiniteSets, Functions

CONSTANTS
    ShopOrders,     \* ids the shop flow may give its orders
    MarketOrders,   \* ids the marketplace flow may give its orders
    Rows,           \* inventory rows of normal (not serialized) stock
    Baskets,        \* what a cart may ask for: functions Rows -> Nat
    InitialStock,   \* units of each row received and put on sale
    Requests,       \* web workers and command runs that read orders
    CancelFrom      \* statuses order_status_action assigns "cancel" to

Orders == ShopOrders \union MarketOrders

ASSUME DistinctFlows == ShopOrders \intersect MarketOrders = {}
ASSUME BasketType ==
    /\ Baskets \subseteq [Rows -> Nat]
    /\ InitialStock \in [Rows -> Nat]

VARIABLES
    status,     \* order.status, "none" before the row exists
    deadline,   \* order.reservation_expires_at: "null", "ahead" or "passed"
    lines,      \* lines[o][r]: quantity of o's reservation rows on row r
    stock,      \* the inventory rows
    pays,       \* the payment rows of o, counted by their status
    cost,       \* the supply consumption rows of o: FIFO layers taken, given back
    cleared,    \* orders with a payment request past its expiry check
    batch,      \* batch[q]: the orders request q found stale and will expire
    released,   \* history: how often the reservation rows of o were released
    consumed    \* history: how often they were consumed

orderVars == <<status, deadline, lines, cost>>
historyVars == <<released, consumed>>
vars == <<orderVars, stock, pays, cleared, batch, historyVars>>

Open == {"payment_pending", "payment_processing"}

\* Mutant of StatusActions: an order can be confirmed before its review.
UnreviewedActions == {<<"payment_processing", "confirmed">>, <<"confirmed", "preparing">>}

\* What execute_action may do besides cancel: the seeded status actions.
\* Nothing enters return_reviewing, so the last three never happen.
StatusActions ==
    { <<"paid", "confirmed">>, <<"confirmed", "preparing">>,
      <<"preparing", "packed">>, <<"packed", "shipped">>,
      <<"shipped", "delivered">>, <<"return_reviewing", "return_approved">>,
      <<"return_reviewing", "return_rejected">>,
      <<"return_approved", "refund_processing">> }

Fulfilled == {"paid", "confirmed", "preparing", "packed", "shipped", "delivered"}

Status ==
    {"none", "payment_failed", "payment_expired", "cancelled"}
        \union Open \union Fulfilled
        \union {"return_reviewing", "return_approved", "return_rejected",
                "refund_processing"}

ASSUME CancelType == CancelFrom \subseteq Open \union Fulfilled

\* The columns of an inventory row and its CHECK constraints: the counters
\* are not negative and no more is on sale than is there.
InventoryRow ==
    { row \in [quantity : Nat, sellable : Nat, reserved : Nat] :
        row.sellable <= row.quantity }

\* PostgreSQL keeps a transaction only if every row it wrote passes.
Accepted(s) == s \in [Rows -> InventoryRow]

Available(r) == stock[r].sellable - stock[r].reserved

\* Mutant of Stale: the comparison with the clock is turned round.
NotYetStale(o) == status[o] = "payment_pending" /\ deadline[o] = "ahead"

Stale(o) == status[o] = "payment_pending" /\ deadline[o] = "passed"

NoPayment == [pending |-> 0, successful |-> 0, failed |-> 0]

\* What the reservation rows of the orders S add up to on row r.
Held(S, r) == SumFunction([o \in S |-> lines[o][r]])

-----------------------------------------------------------------------------
Init ==
    /\ status = [o \in Orders |-> "none"]
    /\ deadline = [o \in Orders |-> "null"]
    /\ lines = [o \in Orders |-> [r \in Rows |-> 0]]
    /\ stock = [r \in Rows |-> [quantity |-> InitialStock[r],
                                sellable |-> InitialStock[r], reserved |-> 0]]
    /\ pays = [o \in Orders |-> NoPayment]
    /\ cost = [o \in Orders |-> "none"]
    /\ cleared = {}
    /\ batch = [q \in Requests |-> {}]
    /\ released = [o \in Orders |-> 0]
    /\ consumed = [o \in Orders |-> 0]

-----------------------------------------------------------------------------
(* The stock operations of an order, on the rows its reservations name.    *)

\* reserve_variant_stock for each line of the basket b, under the row lock.
Reserve(b) ==
    /\ \A r \in Rows : b[r] <= Available(r)
    /\ stock' = [r \in Rows |-> [stock[r] EXCEPT !.reserved = @ + b[r]]]

\* The rows after release_reserved_stock for the orders S: reserved goes down
\* by what was once reserved, whatever is still held.
AfterRelease(S) ==
    [r \in Rows |-> [stock[r] EXCEPT !.reserved = @ - Held(S, r)]]

\* Mutant of AfterConsume: the units sold stay in quantity.
AfterConsumeKeepsQuantity(o) ==
    [r \in Rows |-> [quantity |-> stock[r].quantity,
                     sellable |-> stock[r].sellable - lines[o][r],
                     reserved |-> stock[r].reserved - lines[o][r]]]

\* The rows after consume_reserved_stock for o.
AfterConsume(o) ==
    [r \in Rows |-> [quantity |-> stock[r].quantity - lines[o][r],
                     sellable |-> stock[r].sellable - lines[o][r],
                     reserved |-> stock[r].reserved - lines[o][r]]]

\* Release the orders S or abort on a CHECK.
ReleaseAll(S) ==
    /\ Accepted(AfterRelease(S))
    /\ stock' = AfterRelease(S)
    /\ released' = [o \in Orders |-> IF o \in S THEN released[o] + 1 ELSE released[o]]

-----------------------------------------------------------------------------
(* The customer and the admin.                                             *)

\* checkout_from_cart: the order, its lines and their holds in one transaction.
Checkout(o, b) ==
    /\ status[o] = "none"
    /\ \E r \in Rows : b[r] > 0
    /\ Reserve(b)
    /\ status' = [status EXCEPT ![o] = "payment_pending"]
    /\ deadline' = [deadline EXCEPT ![o] = "ahead"]
    /\ lines' = [lines EXCEPT ![o] = b]
    /\ UNCHANGED <<pays, cost, cleared, batch, historyVars>>

\* The clock passes reservation_expires_at.
ReservationLapses(o) ==
    /\ deadline[o] = "ahead"
    /\ deadline' = [deadline EXCEPT ![o] = "passed"]
    /\ UNCHANGED <<status, lines, cost, stock, pays, cleared, batch, historyVars>>

\* confirm_manual_payment, first transaction: _expire_stale_order finds the
\* order still in time.  Only a pending order is worth following: the second
\* transaction refuses any other, and no order becomes pending again.
PayCheck(o) ==
    /\ status[o] = "payment_pending"
    /\ ~Stale(o)
    /\ cleared' = cleared \union {o}
    /\ UNCHANGED <<orderVars, stock, pays, batch, historyVars>>

\* Mutant of PayFindsStale: the new status is not saved.
PayFindsStaleUnsaved(o) ==
    /\ Stale(o)
    /\ ReleaseAll({o})
    /\ deadline' = [deadline EXCEPT ![o] = "null"]
    /\ UNCHANGED <<status, lines, cost, pays, cleared, batch, consumed>>

\* The same transaction on a stale order: it expires it under the lock.
PayFindsStale(o) ==
    /\ Stale(o)
    /\ ReleaseAll({o})
    /\ status' = [status EXCEPT ![o] = "payment_expired"]
    /\ deadline' = [deadline EXCEPT ![o] = "null"]
    /\ UNCHANGED <<lines, cost, pays, cleared, batch, consumed>>

\* Mutant of PayConfirm: trusts the check of the first transaction.
PayConfirmUnchecked(o) ==
    /\ o \in cleared
    /\ pays' = [pays EXCEPT ![o].pending = @ + 1]
    /\ status' = [status EXCEPT ![o] = "payment_processing"]
    /\ deadline' = [deadline EXCEPT ![o] = "null"]
    /\ cleared' \in {cleared, cleared \ {o}}
    /\ UNCHANGED <<lines, cost, stock, batch, historyVars>>

\* Second transaction: _confirm_manual_payment.  It does not look at the
\* deadline again.  Another request for o may be past its check as well.
PayConfirm(o) ==
    /\ o \in cleared
    /\ status[o] = "payment_pending"
    /\ pays' = [pays EXCEPT ![o].pending = @ + 1]
    /\ status' = [status EXCEPT ![o] = "payment_processing"]
    /\ deadline' = [deadline EXCEPT ![o] = "null"]
    /\ cleared' \in {cleared, cleared \ {o}}
    /\ UNCHANGED <<lines, cost, stock, batch, historyVars>>

\* The order left payment_pending in between: an error, or a repeat that is
\* answered with the paid order as it is.
PayRefused(o) ==
    /\ o \in cleared
    /\ status[o] # "payment_pending"
    /\ cleared' = cleared \ {o}
    /\ UNCHANGED <<orderVars, stock, pays, batch, historyVars>>

\* Mutant of AwaitsReview: tests the payment but not its order.
PaymentAwaitsReview(o) == pays[o].pending > 0

\* review_payment and its guard, tested with payment and order locked.
AwaitsReview(o) ==
    /\ pays[o].pending > 0
    /\ status[o] = "payment_processing"

\* Mutant of Approve: forgets consume_reservations.
ApproveWithoutSale(o) ==
    /\ AwaitsReview(o)
    /\ pays' = [pays EXCEPT ![o].pending = @ - 1, ![o].successful = @ + 1]
    /\ status' = [status EXCEPT ![o] = "paid"]
    /\ UNCHANGED <<deadline, lines, cost, stock, cleared, batch, historyVars>>

\* review_payment(approve=True): the hold becomes a sale and the supply layers
\* of the items are consumed.  consume_order_item refuses a second time.
Approve(o) ==
    /\ AwaitsReview(o)
    /\ cost[o] # "consumed"
    /\ Accepted(AfterConsume(o))
    /\ stock' = AfterConsume(o)
    /\ consumed' = [consumed EXCEPT ![o] = @ + 1]
    /\ cost' = [cost EXCEPT ![o] = "consumed"]
    /\ pays' = [pays EXCEPT ![o].pending = @ - 1, ![o].successful = @ + 1]
    /\ status' = [status EXCEPT ![o] = "paid"]
    /\ UNCHANGED <<deadline, lines, cleared, batch, released>>

\* review_payment(approve=False).
Reject(o) ==
    /\ AwaitsReview(o)
    /\ ReleaseAll({o})
    /\ pays' = [pays EXCEPT ![o].pending = @ - 1, ![o].failed = @ + 1]
    /\ status' = [status EXCEPT ![o] = "payment_failed"]
    /\ UNCHANGED <<deadline, lines, cost, cleared, batch, consumed>>

\* Mutant of Cancel: the reservations are not released.
CancelKeepsHold(o) ==
    /\ status[o] \in CancelFrom
    /\ status' = [status EXCEPT ![o] = "cancelled"]
    /\ deadline' = [deadline EXCEPT ![o] = "null"]
    /\ UNCHANGED <<lines, cost, stock, pays, cleared, batch, historyVars>>

\* execute_action("cancel"), by the customer or an admin: whatever the status,
\* it releases the reservation rows and gives consumed layers back.
Cancel(o) ==
    /\ status[o] \in CancelFrom
    /\ ReleaseAll({o})
    /\ cost' = [cost EXCEPT ![o] = IF @ = "consumed" THEN "reversed" ELSE @]
    /\ status' = [status EXCEPT ![o] = "cancelled"]
    /\ deadline' = [deadline EXCEPT ![o] = "null"]
    /\ UNCHANGED <<lines, pays, cleared, batch, consumed>>

\* execute_action for confirm, prepare, pack, ship, deliver and the returns.
Advance(o) ==
    /\ \E to \in Status : /\ <<status[o], to>> \in StatusActions
                          /\ status' = [status EXCEPT ![o] = to]
    /\ UNCHANGED <<deadline, lines, cost, stock, pays, cleared, batch, historyVars>>

-----------------------------------------------------------------------------
(* Lazy expiry and the command.                                            *)

\* What one read covers: get_order one order, list_orders a customer's orders
\* of one flow.
Scopes == {{o} : o \in Orders} \union {ShopOrders, MarketOrders}

\* Request q remembers the stale orders of S and lets their rows go.
FindStale(q, S) ==
    /\ batch[q] = {}
    /\ \E o \in S : Stale(o)
    /\ batch' = [batch EXCEPT ![q] = {o \in S : Stale(o)}]
    /\ UNCHANGED <<orderVars, stock, pays, cleared, historyVars>>

\* list_orders or get_order of a customer.
ReadOrders(q) == \E S \in Scopes : FindStale(q, S)

\* The expire_orders command, which knows the shop flow only.
RunCommand(q) == FindStale(q, ShopOrders)

\* Mutant of ExpireBatch: the rows are released but the orders not saved.
ExpireBatchUnsaved(q) ==
    /\ batch[q] # {}
    /\ ReleaseAll(batch[q])
    /\ batch' = [batch EXCEPT ![q] = {}]
    /\ UNCHANGED <<orderVars, pays, cleared, consumed>>

\* expire_orders on the rows read before: it neither locks them nor looks at
\* them again, and commits all of them or none.
ExpireBatch(q) ==
    /\ batch[q] # {}
    /\ ReleaseAll(batch[q])
    /\ status' = [o \in Orders |-> IF o \in batch[q] THEN "payment_expired" ELSE status[o]]
    /\ deadline' = [o \in Orders |-> IF o \in batch[q] THEN "null" ELSE deadline[o]]
    /\ batch' = [batch EXCEPT ![q] = {}]
    /\ UNCHANGED <<lines, cost, pays, cleared, consumed>>

\* A CHECK refuses one of the releases: the whole batch is rolled back.
ExpireRefused(q) ==
    /\ batch[q] # {}
    /\ ~Accepted(AfterRelease(batch[q]))
    /\ batch' = [batch EXCEPT ![q] = {}]
    /\ UNCHANGED <<orderVars, stock, pays, cleared, historyVars>>

-----------------------------------------------------------------------------
OrderStep(o) ==
    \/ \E b \in Baskets : Checkout(o, b)
    \/ ReservationLapses(o)
    \/ PayCheck(o) \/ PayFindsStale(o) \/ PayConfirm(o) \/ PayRefused(o)
    \/ Approve(o) \/ Reject(o) \/ Cancel(o) \/ Advance(o)

RequestStep(q) ==
    \/ ReadOrders(q) \/ RunCommand(q) \/ ExpireBatch(q) \/ ExpireRefused(q)

Next ==
    \/ \E o \in Orders : OrderStep(o)
    \/ \E q \in Requests : RequestStep(q)

Spec == Init /\ [][Next]_vars

\* The clock runs, a request that started ends, and the operator keeps running
\* the command.  Customers and admins owe nothing.
Fairness ==
    /\ \A o \in Orders : WF_vars(ReservationLapses(o))
    /\ \A q \in Requests :
        WF_vars(RunCommand(q)) /\ WF_vars(ExpireBatch(q) \/ ExpireRefused(q))

FairSpec == Spec /\ Fairness

-----------------------------------------------------------------------------
(* What the flow has to keep, whatever the orders of its transactions.     *)

\* Every column keeps its range; for stock this is what the CHECKs enforce.
TypeOK ==
    /\ status \in [Orders -> Status]
    /\ deadline \in [Orders -> {"null", "ahead", "passed"}]
    /\ lines \in [Orders -> [Rows -> Nat]]
    /\ stock \in [Rows -> InventoryRow]
    /\ pays \in [Orders -> [pending : Nat, successful : Nat, failed : Nat]]
    /\ cost \in [Orders -> {"none", "consumed", "reversed"}]
    /\ cleared \in SUBSET Orders
    /\ batch \in [Requests -> SUBSET Orders]
    /\ released \in [Orders -> Nat]
    /\ consumed \in [Orders -> Nat]

\* However often the payment endpoint is called for an order, and whatever
\* expires or cancels it between the two transactions of a call, it collects
\* one payment at most (_confirm_manual_payment).
AtMostOnePayment ==
    \A o \in Orders : pays[o].pending + pays[o].successful + pays[o].failed <= 1

\* An order's stock is sold exactly when a payment of it was accepted, and
\* only once (review_payment, consume_reservations).
PaidMeansSold ==
    \A o \in Orders : consumed[o] = pays[o].successful /\ consumed[o] <= 1

\* An order that may still be paid holds all it reserved: nobody released or
\* sold its rows, late batches of other requests included.
OpenOrdersHold ==
    \A o \in Orders : status[o] \in Open => released[o] = 0 /\ consumed[o] = 0

\* No order is confirmed, packed or delivered without an accepted payment.
FulfilledIsPaid ==
    \A o \in Orders : status[o] \in Fulfilled => pays[o].successful = 1

\* Goods leave a row by a sale and by nothing else: double releases and late
\* cancellations disturb `reserved`, never the count of units.
StockConserved ==
    \A r \in Rows :
        stock[r].quantity + Held({o \in Orders : consumed[o] > 0}, r) = InitialStock[r]

\* What an order's stock went through, for StockHold.
hold ==
    [o \in Orders |->
        IF status[o] = "none" THEN "none"
        ELSE IF consumed[o] > 0 THEN "sold"
        ELSE IF released[o] > 0 THEN "returned"
        ELSE "held"]

Hold == INSTANCE StockHold WITH Orders <- Orders, hold <- hold

\* The flow implements StockHold: a hold is taken once and ends once, and
\* stock that was given back is never sold under the same order.
HoldSpec == Hold!Spec

\* The reservation rows of an order were settled more than once: by an expiry
\* of rows read earlier, or by the cancellation of a sold order.
Oversettled(o) == released[o] + consumed[o] > 1

\* Only these two settle an order again: what a review, a payment, a rejection
\* or the cancellation of an open order settles, nobody settled before.
SettledOnce ==
    [][\A o \in Orders :
        Oversettled(o)' /\ ~Oversettled(o) =>
            (\E q \in Requests : o \in batch[q] \ batch'[q]) \/ status[o] \in Fulfilled]_vars

\* While none was settled twice, `reserved` is exactly what the reservation
\* rows of the open orders say: no unit is held for nobody, and nobody's hold
\* was given away, whatever overlaps.
LedgerExact ==
    (\A o \in Orders : ~Oversettled(o)) =>
        \A r \in Rows :
            stock[r].reserved = Held({o \in Orders : status[o] \in Open}, r)

Final == {"payment_failed", "payment_expired", "cancelled"}

\* An order that expired, failed or was cancelled stays that way, but for a
\* late batch that settles it again: no payment call, however long ago it
\* looked at the order, brings it back.
FinalStays ==
    [][\A o \in Orders :
        status[o] \in Final => status'[o] = status[o] \/ Oversettled(o)']_vars

\* docs/api/commerce/order.md: expire_orders "expires all stale
\* payment_pending orders and releases their stock", so no order of the shop
\* flow holds stock for a payment that never comes, unless some order was
\* settled twice: a row that lacks its hold then refuses every batch.
ShopOrdersDecided ==
    \A o \in ShopOrders : status[o] = "payment_pending" ~>
            status[o] # "payment_pending" \/ \E p \in Orders : Oversettled(p)

=============================================================================
