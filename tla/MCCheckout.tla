----------------------------- MODULE MCCheckout -----------------------------
EXTENDS Checkout, TLC

CONSTANTS shop, market, v1, v2, q1, q2

\* Rows 1 and 4 are two warehouses of seller 1 with the same variant.
OneRowTwice == <<v1, v2, v1, v1>>
TheSellers == <<1, 1, 2, 1>>
Few == <<1, 2, 1, 1>>

\* A second checkout of the shop's basket, or one of the market's.
TheAsks == (q1 :> {<<shop, Nobody>>}) @@ (q2 :> {<<shop, Nobody>>, <<market, 1>>})

OneOffer == {<<v1, 1>>}

BothWays ==
    (shop :> {[id |-> 1, variant |-> v1, quantity |-> 1, offer |-> Nobody],
              [id |-> 2, variant |-> v2, quantity |-> 1, offer |-> Nobody]})
    @@
    (market :> {[id |-> 3, variant |-> v2, quantity |-> 1, offer |-> 1]})

=============================================================================
