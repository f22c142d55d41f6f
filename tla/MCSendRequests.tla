--------------------------- MODULE MCSendRequests ---------------------------
(* Small instances of SendRequests: of three drafts of one account two print *)
(* the same mail, two share a mail date, and one is another account's.       *)
EXTENDS SendRequests, TLC

CONSTANTS a1, a2, d1, d2, d3, d4, r1, r2
MCOwner == d1 :> a1 @@ d2 :> a1 @@ d3 :> a1 @@ d4 :> a2
MCMail == d1 :> "same" @@ d2 :> "same" @@ d3 :> "other" @@ d4 :> "same"
MCMailOn == d1 :> "monday" @@ d2 :> None @@ d3 :> None @@ d4 :> "monday"

RequestSymmetry == Permutations(Requests)

=============================================================================
