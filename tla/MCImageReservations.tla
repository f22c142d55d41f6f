------------------------- MODULE MCImageReservations -------------------------
(* Small instances of ImageReservations. *)
EXTENDS ImageReservations, TLC

CONSTANTS g1, g2, g3
MCQuantity == 1 :> 1 @@ 2 :> 2
CallSymmetry == Permutations(Calls)

=============================================================================
