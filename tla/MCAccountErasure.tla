-------------------------- MODULE MCAccountErasure --------------------------
(* The instance TLC explores: a draft and a pack, two disputes, a run that dies. *)
EXTENDS AccountErasure
CONSTANTS a, p, x, y
=============================================================================
