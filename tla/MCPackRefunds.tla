---------------------------- MODULE MCPackRefunds ----------------------------
(* Small instances of PackRefunds: one pack, and commands issued one after another. *)
EXTENDS PackRefunds

CONSTANTS c1, c2, w1, w2

=============================================================================
