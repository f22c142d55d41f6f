---------------------------- MODULE MCPackPayments ----------------------------
(* One letter pack, whose session may be of another amount or an earlier version's. *)
EXTENDS PackPayments

CONSTANT p1

=============================================================================
