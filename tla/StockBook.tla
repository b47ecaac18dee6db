------------------------------ MODULE StockBook ------------------------------
(***************************************************************************)
(* What the checkouts promise about the stock rows, whatever locks they    *)
(* take and in whatever order: an order reserves all its lines in one      *)
(* step, out of what nobody else has reserved, or none of them; and a      *)
(* cancelled order gives all of it back in one step.                       *)
(***************************************************************************)
EXTENDS Integers

CONSTANTS
    Orders,             \* the orders checkouts may create
    Rows,               \* rows of stock
    Sellable            \* Sellable[r]: the pieces of row r that may be sold

VARIABLES
    reserved,           \* reserved[r]: pieces of row r promised to orders
    held                \* held[o][r]: pieces of row r promised to order o

vars == <<reserved, held>>

Nothing == [r \in Rows |-> 0]

Init ==
    /\ reserved = Nothing
    /\ held = [o \in Orders |-> Nothing]

\* Order o takes some pieces of some rows.
Place(o) ==
    /\ held[o] = Nothing
    /\ held'[o] \in [Rows -> Nat]
    /\ \A r \in Rows : held'[o][r] > 0 => reserved[r] + held'[o][r] <= Sellable[r]
    /\ reserved' = [r \in Rows |-> reserved[r] + held'[o][r]]
    /\ held' = [held EXCEPT ![o] = held'[o]]

\* Order o gives back everything it holds.
GiveBack(o) ==
    /\ reserved' = [r \in Rows |-> reserved[r] - held[o][r]]
    /\ held' = [held EXCEPT ![o] = Nothing]

Next == \E o \in Orders : Place(o) \/ GiveBack(o)

Spec == Init /\ [][Next]_vars

=============================================================================
