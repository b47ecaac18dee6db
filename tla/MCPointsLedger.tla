--------------------------- MODULE MCPointsLedger ---------------------------
(* Two requests over one activity and one reference. *)
EXTENDS PointsLedger, TLC

CONSTANTS q1, q2

Alike == Permutations(Writers)

=============================================================================
