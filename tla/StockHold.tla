------------------------------ MODULE StockHold ------------------------------
(***************************************************************************)
(* What the order flow promises about the stock of an order, independent   *)
(* of payments, deadlines and requests: checkout takes a hold once, and    *)
(* the hold ends once, by going back to the shelf or by being sold.  Stock *)
(* that went back is never sold under the same order.                      *)
(***************************************************************************)
CONSTANT Orders         \* the order ids a checkout may create

VARIABLE hold           \* hold[o]: "none", "held", "returned" or "sold"

Init == hold = [o \in Orders |-> "none"]

\* A checkout reserves the whole basket of o.
Take(o) ==
    /\ hold[o] = "none"
    /\ hold' = [hold EXCEPT ![o] = "held"]

\* One transaction may give back the holds of several orders.
GiveBack(S) ==
    /\ \A o \in S : hold[o] = "held"
    /\ hold' = [o \in Orders |-> IF o \in S THEN "returned" ELSE hold[o]]

\* An approved payment turns the hold of o into a sale.
Sell(o) ==
    /\ hold[o] = "held"
    /\ hold' = [hold EXCEPT ![o] = "sold"]

Next ==
    \/ \E o \in Orders : Take(o) \/ Sell(o)
    \/ \E S \in SUBSET Orders : GiveBack(S)

Spec == Init /\ [][Next]_hold

=============================================================================
