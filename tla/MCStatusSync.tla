------------------------------ MODULE MCStatusSync ------------------------------
(* Two letters, two concurrent runs of the sync. *)
EXTENDS StatusSync

CONSTANTS l1, l2, s1, s2

=============================================================================
