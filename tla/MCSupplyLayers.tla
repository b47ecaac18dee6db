--------------------------- MODULE MCSupplyLayers ---------------------------
(* Finite instances of SupplyLayers for TLC. *)
EXTENDS SupplyLayers, TLC

\* OrderIds are interchangeable; supplies are consumed in the order of their ids.
Symmetry == Permutations(OrderIds)

=============================================================================
