----------------------------- MODULE GiftChain -----------------------------
(***************************************************************************)
(* What the gift programme promises of each free letter it grants: it      *)
(* starts a path, never a tree.  At any moment one gift letter is held by  *)
(* somebody, or one letter of the chain is on its way to pass the chain    *)
(* on, or the chain is over; and each passing-on costs one of its budget.  *)
(***************************************************************************)
EXTENDS Naturals

CONSTANT Grants

VARIABLE chain

Chain == [at : {"none", "held", "mailed", "over"}, left : Nat, budget : Nat, letters : Nat]

Init == chain = [r \in Grants |-> [at |-> "none", left |-> 0, budget |-> 0, letters |-> 0]]

Grant(c, d) ==
    /\ c.at = "none" /\ d.at = "held"
    /\ d.left = d.budget /\ d.letters = 0

Mail(c, d) ==
    /\ c.at = "held" /\ d.at = "mailed"
    /\ d.left = c.left /\ d.budget = c.budget /\ d.letters = c.letters + 1

\* whoever the letter reached holds a gift letter with one less budget
Redeem(c, d) ==
    /\ c.at = "mailed" /\ d.at = "held" /\ c.left > 0
    /\ d.left = c.left - 1 /\ d.budget = c.budget /\ d.letters = c.letters

\* the letter was not mailed, and its sender holds the gift letter again
GiveBack(c, d) ==
    /\ c.at = "mailed" /\ d.at = "held" /\ c.letters > 0
    /\ d.left = c.left /\ d.budget = c.budget /\ d.letters = c.letters - 1

\* nobody can send or pass it on any more
End(c, d) ==
    /\ c.at \in {"held", "mailed"} /\ d.at = "over" /\ d.left = 0
    /\ d.budget = c.budget /\ d.letters = c.letters

Step(c, d) == Grant(c, d) \/ Mail(c, d) \/ Redeem(c, d) \/ GiveBack(c, d) \/ End(c, d)

Steps(c, d) ==
    \/ c = d
    \/ /\ d \in [Grants -> Chain]
       /\ \A r \in Grants : d[r] = c[r] \/ Step(c[r], d[r])
Next == Steps(chain, chain')

Spec == Init /\ [][Next]_chain

\* What a grant can cost: its own letter, and one more for each of its budget.
CostBound == \A r \in Grants : chain[r].letters <= chain[r].budget + 1

=============================================================================
