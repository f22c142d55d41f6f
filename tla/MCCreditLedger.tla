----------------------------- MODULE MCCreditLedger -----------------------------
(* Up to two packs, two sends and two disputes of one account. *)
EXTENDS CreditLedger

CONSTANTS a, b, p1, d1, d2

AllOfOnePack == [d \in Disputes |-> p1]

=============================================================================
