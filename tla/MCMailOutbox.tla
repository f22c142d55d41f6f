---------------------------- MODULE MCMailOutbox ----------------------------
(* Small instances of MailOutbox: every letter belongs to one account, and   *)
(* every prepaid letter draws on one pack.                                   *)
EXTENDS MailOutbox

CONSTANTS l1, l2, p1, a1, w1, w2, w3

AllPack == [l \in Letters |-> p1]
AllOwner == [l \in Letters |-> a1]
AllPackOwner == [p \in Packs |-> a1]

=============================================================================
