------------------------------ MODULE MCPayAndSend ------------------------------
(* Two concurrent checkouts of one draft, from the card or from the confirmation page, *)
(* which return the customer to different addresses.                                   *)
EXTENDS PayAndSend

CONSTANTS c1, c2, cardReturn, pageReturn

=============================================================================
