---------------------------- MODULE MCUnitStock ----------------------------
(* Finite instances of UnitStock for TLC. *)
EXTENDS UnitStock, TLC

CONSTANTS o1, o2, o3

MCOrders == {o1, o2, o3}

\* A late batch may come for one order, which is of two pieces.
MCOverdue == {o1}
MCDemand == [o \in MCOrders |-> IF o = o1 THEN {2} ELSE {1}]

\* The other orders are interchangeable, units are not: they are reserved by id.
Symmetry == Permutations(MCOrders \ MCOverdue)

=============================================================================
