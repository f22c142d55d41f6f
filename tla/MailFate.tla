------------------------------ MODULE MailFate ------------------------------
(***************************************************************************)
(* What the mail service promises of each letter a customer sends: it is   *)
(* owed to the customer until it is mailed, or until the service's debt is *)
(* cleared (what paid for it goes back, or is taken out of the service's   *)
(* hands).  Never both, and neither is ever undone.                        *)
(***************************************************************************)
CONSTANT Letters

VARIABLE fate

Init == fate = [l \in Letters |-> "unsent"]

Becomes(l, from, to) == fate[l] = from /\ fate' = [fate EXCEPT ![l] = to]

Accept(l) == Becomes(l, "unsent", "owed")
Mail(l)   == Becomes(l, "owed", "mailed")
Clear(l)  == Becomes(l, "owed", "cleared")

Next == \E l \in Letters : Accept(l) \/ Mail(l) \/ Clear(l)

Spec == Init /\ [][Next]_fate

=============================================================================
