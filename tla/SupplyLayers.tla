---------------------------- MODULE SupplyLayers ----------------------------
(***************************************************************************)
(* What a sale cost: the purchase batches (supplies) of one variant in the *)
(* warehouse it is sold from, the layers an order item consumed when its   *)
(* payment was approved, and what a cancellation or a return gives back    *)
(* (inventory_supply_service.py, domains/order/return_flow.py).            *)
(*                                                                         *)
(* Every operation locks what it changes before it reads it, and is one    *)
(* step, except the sale of counted stock: its query chooses the layers    *)
(* with something left before it waits for their locks, so what others     *)
(* commit in between decides how much is left but not which and in what    *)
(* order.                                                                  *)
(*                                                                         *)
(* An order is one item of the variant.  What stands on the shelf is       *)
(* UnitStock's subject: vendors put any number of pieces there, with or    *)
(* without a supply, so an order may hold any.                               *)
(***************************************************************************)
EXTENDS Integers, FiniteSets, Sequences, Functions

CONSTANTS
    OrderIds,       \* order ids
    MaxLayer,       \* bound: supplies recorded
    MaxTime,        \* bound: moments a supply may be dated to
    MaxQuantity,    \* bound: the quantity of a supply and of an order
    MaxRequests     \* bound: return requests of all orders together

ASSUME LayerBounds ==
    /\ MaxLayer \in Nat /\ MaxRequests \in Nat
    /\ MaxTime \in Nat \ {0} /\ MaxQuantity \in Nat \ {0}

\* A database has finitely many orders: LayersBalance adds up over them.
ASSUME FiniteOrders == IsFiniteSet(OrderIds)

Layers == 1 .. MaxLayer     \* ids of InventorySupply, given in this order

VARIABLES
    supply,     \* supply[s]: the row of a supply, or how it is missing
    booked,     \* booked[o]: what o's item reserved, and what it sold
    orderStatus, \* orderStatus[o]: the order; "approving" while a review is open
    seen,       \* seen[o]: supplied_at of the layers that review's query chose
    taken,      \* taken[o][s]: quantity of the consumption row of o's item and s
    restored,   \* restored[o][s]: its reversed_quantity
    turn,       \* turn[o][s]: its place among the item's rows, 0 if there is none
    requests    \* requests[o]: the return requests of o, oldest first

costVars == <<taken, restored, turn>>
layersVars == <<supply, booked, orderStatus, seen, costVars, requests>>

NoPieces == [s \in Layers |-> 0]
Total(f) == SumFunction(f)

\* quantity, remaining_quantity and supplied_at; received_at is the state.
NoSupply(state) == [state |-> state, quantity |-> 0, remaining |-> 0, at |-> 0]
Supplied(state) == {s \in Layers : supply[s].state = state}

\* One row of counted stock, or one row per unit: those of each supply, and
\* those a vendor registered without one.
NoBooking == [amount |-> 0, units |-> NoPieces, loose |-> 0]
Quantity(o) == booked[o].amount + Total(booked[o].units) + booked[o].loose

Bookings ==
    { h \in [amount : 0 .. MaxQuantity, units : [Layers -> 0 .. MaxQuantity],
             loose : 0 .. MaxQuantity] :
        /\ h.amount = 0 \/ (h.units = NoPieces /\ h.loose = 0)
        /\ h.amount + Total(h.units) + h.loose \in 1 .. MaxQuantity
        /\ \A s \in Layers : h.units[s] > 0 => s \in Supplied("received") }

Costed(o) == \E s \in Layers : taken[o][s] > 0

Clip(n, low, high) == IF n < low THEN low ELSE IF n > high THEN high ELSE n

-----------------------------------------------------------------------------
LayersInit ==
    /\ supply = [s \in Layers |-> NoSupply("none")]
    /\ booked = [o \in OrderIds |-> NoBooking]
    /\ orderStatus = [o \in OrderIds |-> "none"]
    /\ seen = [o \in OrderIds |-> << >>]
    /\ taken = [o \in OrderIds |-> NoPieces]
    /\ restored = [o \in OrderIds |-> NoPieces]
    /\ turn = [o \in OrderIds |-> NoPieces]
    /\ requests = [o \in OrderIds |-> << >>]

-----------------------------------------------------------------------------
(* Supplies.                                                               *)

\* create_supply.
Create(s, q, t) ==
    /\ supply[s].state = "none"
    /\ \A r \in Layers : r < s => supply[r].state # "none"
    /\ supply' = [supply EXCEPT ![s] =
                    [state |-> "recorded", quantity |-> q, remaining |-> q, at |-> t]]
    /\ UNCHANGED <<booked, orderStatus, seen, costVars, requests>>

\* A supply that was received, or consumed from, keeps its quantity.
MayResize(s) ==
    supply[s].state = "recorded" /\ supply[s].remaining = supply[s].quantity

\* update_supply: its date may always be corrected.
Update(s, q, t) ==
    /\ <<q, t>> # <<supply[s].quantity, supply[s].at>>
    /\ supply[s].state \in {"recorded", "received"}
    /\ q # supply[s].quantity => MayResize(s)
    /\ supply' = [supply EXCEPT ![s] =
                    [state |-> @.state, quantity |-> q, at |-> t,
                     remaining |-> IF q = @.quantity THEN @.remaining ELSE q]]
    /\ UNCHANGED <<booked, orderStatus, seen, costVars, requests>>

\* delete_supply.
Delete(s) ==
    /\ MayResize(s)
    /\ supply' = [supply EXCEPT ![s] = NoSupply("deleted")]
    /\ UNCHANGED <<booked, orderStatus, seen, costVars, requests>>

\* receive_supply.  How many serial numbers come with it is not compared with
\* its quantity.
Receive(s) ==
    /\ supply[s].state = "recorded"
    /\ supply' = [supply EXCEPT ![s].state = "received"]
    /\ UNCHANGED <<booked, orderStatus, seen, costVars, requests>>

-----------------------------------------------------------------------------
(* The order and its sale.                                                 *)

\* Checkout and payment: o awaits review.
Place(o) ==
    /\ orderStatus[o] = "none"
    /\ \E h \in Bookings : booked' = [booked EXCEPT ![o] = h]
    /\ orderStatus' = [orderStatus EXCEPT ![o] = "placed"]
    /\ UNCHANGED <<supply, seen, costVars, requests>>

\* The consumption rows of o's item: f[s] of layer s, after those of before[s].
Consume(o, f, before) ==
    /\ taken' = [taken EXCEPT ![o] = f]
    /\ turn' = [turn EXCEPT ![o] =
                  [s \in Layers |->
                     IF f[s] = 0 THEN 0
                     ELSE 1 + Cardinality({r \in before[s] : f[r] > 0})]]
    /\ supply' = [s \in Layers |-> [supply[s] EXCEPT !.remaining = @ - f[s]]]

\* _consume_fifo, the query: layers with something left, by supplied_at.
BeginApprove(o) ==
    /\ orderStatus[o] = "placed" /\ booked[o].amount > 0
    /\ seen' = [seen EXCEPT ![o] =
                  [s \in {r \in Supplied("received") : supply[r].remaining > 0} |->
                     supply[s].at]]
    /\ orderStatus' = [orderStatus EXCEPT ![o] = "approving"]
    /\ UNCHANGED <<supply, booked, costVars, requests>>

\* Its order, "supplied_at" then "id": the layers before each one.
Older(o) ==
    [s \in Layers |->
        {r \in DOMAIN seen[o] : /\ s \in DOMAIN seen[o]
                                /\ \/ seen[o][r] < seen[o][s]
                                   \/ seen[o][r] = seen[o][s] /\ r < s}]

\* Of the layers the query chose, what is left now that they are locked.
Left(o) == [s \in Layers |-> IF s \in DOMAIN seen[o] THEN supply[s].remaining ELSE 0]

\* Mutant of Fifo: what older layers gave is not subtracted from the rest.
FifoForgetful(o) ==
    [s \in Layers |-> Clip(booked[o].amount, 0, Left(o)[s])]

\* What each layer gives: all it has, or what the older ones lack.
Fifo(o) ==
    [s \in Layers |->
        Clip(booked[o].amount - SumFunctionOnSet(Left(o), Older(o)[s]), 0, Left(o)[s])]

\* _consume_fifo with the layers locked.  Stock of a variant that never had a
\* received supply has no cost.
ApproveAmount(o) ==
    /\ orderStatus[o] = "approving"
    /\ \/ Supplied("received") = {}
       \/ Total(Left(o)) >= booked[o].amount
    /\ Consume(o, Fifo(o), Older(o))
    /\ orderStatus' = [orderStatus EXCEPT ![o] = "sold"]
    /\ seen' = [seen EXCEPT ![o] = << >>]
    /\ UNCHANGED <<booked, restored, requests>>

\* The layers do not cover the sale: the review is rolled back.
ApproveRefused(o) ==
    /\ orderStatus[o] = "approving"
    /\ Supplied("received") # {}
    /\ Total(Left(o)) < booked[o].amount
    /\ orderStatus' = [orderStatus EXCEPT ![o] = "placed"]
    /\ seen' = [seen EXCEPT ![o] = << >>]
    /\ UNCHANGED <<supply, booked, costVars, requests>>

\* _consume_new_serialized_layers: each unit is charged to its own supply, a
\* unit without one is skipped.
ApproveUnits(o) ==
    /\ orderStatus[o] = "placed" /\ booked[o].amount = 0
    /\ \A s \in Layers : booked[o].units[s] <= supply[s].remaining
    /\ Consume(o, booked[o].units, [s \in Layers |-> 1 .. s - 1])
    /\ orderStatus' = [orderStatus EXCEPT ![o] = "sold"]
    /\ UNCHANGED <<booked, seen, restored, requests>>

-----------------------------------------------------------------------------
(* Giving back.                                                            *)

\* What o's rows can still give back.
Reversible(o) == [s \in Layers |-> taken[o][s] - restored[o][s]]

\* n pieces from the latest rows.
GiveBack(o, n) ==
    LET left == Reversible(o)
        later(s) == {r \in Layers : turn[o][r] > turn[o][s]}
    IN  [s \in Layers |-> Clip(n - SumFunctionOnSet(left, later(s)), 0, left[s])]

\* Mutant of Reverse: the row remembers it, the layer does not get it.
ReverseRowOnly(o, n) ==
    /\ restored' = [restored EXCEPT ![o] = [s \in Layers |-> @[s] + GiveBack(o, n)[s]]]
    /\ UNCHANGED <<supply, taken, turn>>

\* reverse_order_item_consumption.
Reverse(o, n) ==
    /\ LET back == GiveBack(o, n)
       IN  /\ supply' = [s \in Layers |-> [supply[s] EXCEPT !.remaining = @ + back[s]]]
           /\ restored' = [restored EXCEPT ![o] = [s \in Layers |-> @[s] + back[s]]]
    /\ UNCHANGED <<taken, turn>>

\* release_reservations: what was sold stays with the item.
Release(o) ==
    booked' = [booked EXCEPT ![o] = IF orderStatus[o] = "placed" THEN NoBooking ELSE @]

\* cancel, or a payment that is rejected before there is a cost: everything o
\* consumed is given back.
CancelSale(o) ==
    /\ orderStatus[o] \in {"placed", "sold"}
    /\ Reverse(o, Total(Reversible(o)))
    /\ Release(o)
    /\ orderStatus' = [orderStatus EXCEPT ![o] = "ended"]
    /\ UNCHANGED <<seen, requests>>

\* expire_orders of an order read while its payment was pending: by now it may
\* be sold, delivered or cancelled.  No layer is given back.
ExpireSale(o) ==
    /\ orderStatus[o] \in {"placed", "sold", "delivered", "ended"}
    /\ Release(o)
    /\ orderStatus' = [orderStatus EXCEPT ![o] = "expired"]
    /\ UNCHANGED <<supply, seen, costVars, requests>>

-----------------------------------------------------------------------------
(* Returns.                                                                *)

Deliver(o) ==
    /\ orderStatus[o] = "sold"
    /\ orderStatus' = [orderStatus EXCEPT ![o] = "delivered"]
    /\ UNCHANGED <<supply, booked, seen, costVars, requests>>

Active == {"requested", "approved", "received"}

\* Mutant of CountedStatuses: what has been completed can be asked for again.
CountedActive == Active

CountedStatuses == Active \union {"completed"}

\* Total quantity of o's requests with a status in S.
Claimed(o, S) ==
    Total([i \in DOMAIN requests[o] |->
             IF requests[o][i].status \in S THEN requests[o][i].quantity ELSE 0])

\* is_eligible.  That the window of three days closes is left out: it keeps
\* requests away, and they may stay away at any time.
Eligible(o) ==
    /\ orderStatus[o] = "delivered"
    /\ \A i \in DOMAIN requests[o] : requests[o][i].status \notin Active

\* create: n pieces, with the order locked.
RequestReturn(o, n) ==
    /\ Eligible(o)
    /\ n <= Quantity(o) - Claimed(o, CountedStatuses)
    /\ Total([p \in OrderIds |-> Len(requests[p])]) < MaxRequests
    /\ requests' = [requests EXCEPT ![o] = Append(@, [status |-> "requested", quantity |-> n])]
    /\ UNCHANGED <<supply, booked, orderStatus, seen, costVars>>

\* ACTION_TRANSITIONS but for complete.
Transitions ==
    {<<"requested", "approved">>, <<"requested", "rejected">>, <<"approved", "received">>}

\* execute_admin_action.
Decide(o, i) ==
    /\ \E t \in Transitions :
         /\ requests[o][i].status = t[1]
         /\ requests' = [requests EXCEPT ![o][i].status = t[2]]
    /\ UNCHANGED <<supply, booked, orderStatus, seen, costVars>>

\* execute_admin_action("complete"): the pieces' layers are given back, all of
\* them or, with an error, nothing happens.
Complete(o, i) ==
    /\ requests[o][i].status = "received"
    /\ requests' = [requests EXCEPT ![o][i].status = "completed"]
    /\ IF Costed(o)
       THEN /\ requests[o][i].quantity <= Total(Reversible(o))
            /\ Reverse(o, requests[o][i].quantity)
       ELSE UNCHANGED <<supply, costVars>>
    /\ UNCHANGED <<booked, orderStatus, seen>>

-----------------------------------------------------------------------------
SupplyStep(s) ==
    \/ \E q \in 1 .. MaxQuantity, t \in 1 .. MaxTime : Create(s, q, t) \/ Update(s, q, t)
    \/ Delete(s) \/ Receive(s)

SaleStep(o) ==
    \/ Place(o) \/ BeginApprove(o) \/ ApproveAmount(o) \/ ApproveRefused(o)
    \/ ApproveUnits(o) \/ CancelSale(o) \/ ExpireSale(o) \/ Deliver(o)
    \/ \E n \in 1 .. MaxQuantity : RequestReturn(o, n)
    \/ \E i \in DOMAIN requests[o] : Decide(o, i) \/ Complete(o, i)

LayersNext == (\E s \in Layers : SupplyStep(s)) \/ (\E o \in OrderIds : SaleStep(o))

LayersSpec == LayersInit /\ [][LayersNext]_layersVars

-----------------------------------------------------------------------------
(* Properties.                                                             *)

\* Columns and CHECK constraints: a layer never has less than nothing left nor
\* more than it was bought with, a row never gives back more than it took.
LayersTypeOK ==
    /\ \A s \in Layers :
         /\ supply[s].state \in {"none", "recorded", "received", "deleted"}
         /\ supply[s].remaining \in 0 .. supply[s].quantity
         /\ supply[s].state \in {"recorded", "received"} =>
              supply[s].quantity \in 1 .. MaxQuantity /\ supply[s].at \in 1 .. MaxTime
    /\ \A o \in OrderIds :
         /\ orderStatus[o] \in
              {"none", "placed", "approving", "sold", "delivered", "ended", "expired"}
         /\ booked[o].amount \in Nat /\ booked[o].loose \in Nat
         /\ booked[o].units \in [Layers -> Nat]
         /\ DOMAIN seen[o] \subseteq Layers
         /\ taken[o] \in [Layers -> Nat] /\ turn[o] \in [Layers -> 0 .. MaxLayer]
         /\ \A s \in Layers : restored[o][s] \in 0 .. taken[o][s]

\* Every piece of a supply is still there or in the cost of exactly one sale
\* that stands: no order of sales, cancellations, returns and edits loses a
\* layer or sells it twice.
LayersBalance ==
    \A s \in Layers :
        supply[s].quantity =
            supply[s].remaining + Total([o \in OrderIds |-> Reversible(o)[s]])

\* The cost of an order is that of what it sold, and what it got back: a sale
\* of counted stock has all of its cost or none, one of units that of the units
\* with a supply, always from supplies received; a cancelled order has no
\* cost left, a delivered one lacks what its completed returns brought back,
\* one that a late batch expired keeps the cost it had by then, less its
\* returns; and the latest rows are emptied before the earlier ones.
CostFollowsOrder ==
    \A o \in OrderIds :
        /\ orderStatus[o] \in {"none", "placed", "approving"} => ~Costed(o)
        /\ Costed(o) =>
             IF booked[o].amount > 0 THEN Total(taken[o]) = booked[o].amount
                                   ELSE taken[o] = booked[o].units
        /\ \A s \in Layers : taken[o][s] > 0 => s \in Supplied("received")
        /\ orderStatus[o] = "ended" => restored[o] = taken[o]
        /\ orderStatus[o] \in {"sold", "delivered"} /\ Costed(o) =>
             Total(restored[o]) = Claimed(o, {"completed"})
        /\ orderStatus[o] = "expired" /\ Costed(o) =>
             \/ Total(restored[o]) = Claimed(o, {"completed"})
             \/ restored[o] = taken[o] /\ requests[o] = << >>
        /\ \A r, s \in Layers :
             turn[o][r] < turn[o][s] /\ restored[o][r] > 0 => restored[o][s] = taken[o][s]

\* "no more returned than was sold", and one open request per order, however
\* requests, decisions and completions follow one another.
ReturnedWithinSold ==
    \A o \in OrderIds :
        /\ Claimed(o, {"requested", "approved", "received", "completed"}) <= Quantity(o)
        /\ Cardinality({i \in DOMAIN requests[o] :
              requests[o][i].status \in {"requested", "approved", "received"}}) <= 1

=============================================================================
