----------------------------- MODULE MCOrderFlow -----------------------------
(* Finite values for OrderFlow.                                            *)
EXTENDS OrderFlow, TLC

CONSTANTS s1, s2, m1, q1, q2, r1, r2

\* Orders compete for the two units of one row.
OneRow == {[r \in {r1} |-> n] : n \in {1, 2}}
TwoUnits == [r \in {r1} |-> 2]

\* Two rows: a basket that spans both, so that a transaction can fail on the
\* second row, and one that no other basket leaves room for.
TwoRows == {[r \in {r1, r2} |-> 1], [r \in {r1, r2} |-> IF r = r1 THEN 2 ELSE 0]}
TwoOfEach == [r \in {r1, r2} |-> 2]

\* The shop orders are interchangeable, and so are the requests.
Alike == Permutations({s1, s2}) \union Permutations({q1, q2})

\* order_status_action as core/management/seeders/order.py fills it.
SeededCancel == {"payment_pending", "confirmed", "preparing", "packed"}

=============================================================================
