------------------------------ MODULE MCValidation ------------------------------
(* Quantities and prices at every boundary of the rules; times around a     *)
(* maximum age of two days and a skew of one.                               *)
EXTENDS Validation

BoundaryQuantities == {0, 1, 3, 4}
BoundaryPrices     == {-1, 0, 1, 3, 4}
Days               == 0 .. 3
=============================================================================
