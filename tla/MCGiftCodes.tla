---------------------------- MODULE MCGiftCodes ----------------------------
(* Small instances of GiftCodes. *)
EXTENDS GiftCodes, TLC

CONSTANTS a1, a2, a3, a4, p1, o1, k1, r1, r2
MCMailbox == a1 :> p1 @@ a2 :> None @@ a3 :> p1 @@ a4 :> None
Symmetry == Permutations(Requests) \cup Permutations({a2, a4})
MCInvites == {<<a3, k1>>}
MCBuyer == o1 :> a1
MCCap == k1 :> 2
MCSeedBudget == k1 :> 0

=============================================================================
