--------------------------- MODULE ImageReservations ---------------------------
(***************************************************************************)
(* Image generations of one account.  A call reserves one generation of an *)
(* entitlement, marks the reservation dispatched, asks the provider for    *)
(* the image with nothing locked, and records what came of it.  A call may *)
(* die at any point: the hourly maintenance gives back what was never      *)
(* dispatched, and sets what was aside for an operator.                    *)
(***************************************************************************)
EXTENDS Integers, FiniteSets

CONSTANTS
    Calls,          \* calls of generate_image_for_mail; a call makes one reservation
    Entitlements,   \* grants the account may get, in the order they expire
    Bought,         \* those of an order, which a refund revokes
    Quantity,       \* generations of each
    Ceiling         \* LETTER_IRL_IMAGE_DAILY_CEILING

ASSUME ImageAssumption ==
    /\ Entitlements \subseteq Nat \ {0} /\ Bought \subseteq Entitlements
    /\ Quantity \in [Entitlements -> Nat \ {0}]
    /\ Ceiling \in Nat

VARIABLES
    ent,       \* image_entitlements: status and consumed_quantity
    past,      \* the entitlements whose expires_at has passed
    used,      \* users.image_generations_used
    res,       \* image_generation_reservations: status and entitlement_id, by call
    lapsed,    \* the reservations whose lease has passed
    call,      \* how far each call is
    made,      \* the provider: the calls it made, and bills, an image for
    decided    \* the operator's decision on a call's reservation, if any

rows == <<ent, used, res, lapsed>>
vars == <<ent, past, used, res, lapsed, call, made, decided>>

EntStatus == {"none", "active", "depleted", "expired", "revoked"}
ResStatus == {"none", "reserved", "dispatched", "consumed", "released", "ambiguous"}
CallState == {"idle", "allowed", "reserved", "sending", "made", "refused", "unclear",
              "undispatched", "delivered", "ended"}

Nothing == 0

Init ==
    /\ ent = [e \in Entitlements |-> [status |-> "none", consumed |-> 0]]
    /\ past = {} /\ used = 0 /\ lapsed = {}
    /\ res = [g \in Calls |-> [status |-> "none", of |-> Nothing]]
    /\ call = [g \in Calls |-> "idle"]
    /\ made = {} /\ decided = [g \in Calls |-> "none"]

Goto(g, pc) == call' = [call EXCEPT ![g] = pc]
SetStatus(g, s) == res' = [res EXCEPT ![g].status = s]

-----------------------------------------------------------------------------
(* Entitlements. *)

\* grantImageEntitlementWithClient, for whatever source: a source grants once.
Grant(e) ==
    /\ ent[e].status = "none"
    /\ ent' = [ent EXCEPT ![e].status = "active"]
    /\ UNCHANGED <<past, used, res, lapsed, call, made, decided>>

\* processRefundEvent: the grant's order is refunded.
Revoke(e) ==
    /\ e \in Bought /\ ent[e].status \notin {"none", "revoked"}
    /\ ent' = [ent EXCEPT ![e].status = "revoked"]
    /\ UNCHANGED <<past, used, res, lapsed, call, made, decided>>

Expires(e) ==
    /\ e \notin past /\ past' = past \cup {e}
    /\ UNCHANGED <<rows, call, made, decided>>

Swept == [e \in Entitlements |->
            IF ent[e].status = "active" /\ e \in past THEN [ent[e] EXCEPT !.status = "expired"] ELSE ent[e]]

Usable == {e \in Entitlements : ent[e].status = "active" /\ e \notin past /\ ent[e].consumed < Quantity[e]}

\* What a release of n generations makes of an entitlement.
GivenBack(e, n) ==
    [status   |-> IF n > 0 /\ ent[e].status = "depleted"
                  THEN (IF e \in past THEN "expired" ELSE "active") ELSE ent[e].status,
     consumed |-> ent[e].consumed - n]

-----------------------------------------------------------------------------
(* releaseReservationWithClient, for the reservations of S at once *)

Release(S) ==
    /\ \A g \in S : ent[res[g].of].consumed > 0 /\ used > 0
    /\ ent' = [e \in Entitlements |-> GivenBack(e, Cardinality({g \in S : res[g].of = e}))]
    /\ used' = used - Cardinality(S)

-----------------------------------------------------------------------------
(* The call. *)

\* countGenerationsToday
Today == Cardinality({g \in Calls : res[g].status \notin {"none", "released"}})

\* The ceiling is asked with nothing locked; a query that fails lets the call through.
CheckCeiling(g, answered) ==
    /\ call[g] = "idle"
    /\ Goto(g, IF answered /\ Today >= Ceiling THEN "ended" ELSE "allowed")
    /\ UNCHANGED <<rows, past, made, decided>>

\* reserveGeneration.  Its answer may be lost.
ReserveGeneration(g, heard) ==
    /\ call[g] = "allowed"
    /\ \/ Usable = {} /\ ent' = Swept /\ Goto(g, "ended") /\ UNCHANGED <<used, res>>
       \/ \E e \in Usable :
             /\ \A f \in Usable : e <= f
             /\ ent' = [Swept EXCEPT ![e] =
                          [status   |-> IF ent[e].consumed + 1 >= Quantity[e] THEN "depleted" ELSE "active",
                           consumed |-> ent[e].consumed + 1]]
             /\ used' = used + 1
             /\ res' = [res EXCEPT ![g] = [status |-> "reserved", of |-> e]]
             /\ Goto(g, IF heard THEN "reserved" ELSE "ended")
    /\ UNCHANGED <<past, lapsed, made, decided>>

MarkDispatchedAnyMutant(g, heard) ==
    /\ call[g] = "reserved"
    /\ SetStatus(g, "dispatched")
    /\ lapsed' = lapsed \ {g}
    /\ Goto(g, IF heard THEN "sending" ELSE "undispatched")
    /\ UNCHANGED <<ent, past, used, made, decided>>

\* markGenerationDispatched, which comes right before the provider is asked; its answer may be lost.
MarkDispatched(g, heard) ==
    /\ call[g] = "reserved"
    /\ IF res[g].status = "reserved" /\ g \notin lapsed
       THEN /\ SetStatus(g, "dispatched")
            /\ lapsed' = lapsed \ {g}
            /\ Goto(g, IF heard THEN "sending" ELSE "undispatched")
       ELSE Goto(g, "undispatched") /\ UNCHANGED <<res, lapsed>>
    /\ UNCHANGED <<ent, past, used, made, decided>>

\* What the provider does, and what the call learns of it.
ProviderAnswers(g, makes, learns) ==
    /\ call[g] = "sending"
    /\ <<makes, learns>> \in {<<TRUE, "made">>, <<TRUE, "unclear">>, <<FALSE, "unclear">>, <<FALSE, "refused">>}
    /\ made' = IF makes THEN made \cup {g} ELSE made
    /\ Goto(g, learns)
    /\ UNCHANGED <<rows, past, decided>>

\* commitGenerationReservation, then the preview and the store of the image.
CommitGeneration(g) ==
    /\ call[g] = "made"
    /\ IF res[g].status \in {"dispatched", "ambiguous"}
       THEN SetStatus(g, "consumed") /\ lapsed' = lapsed \ {g} /\ Goto(g, "delivered")
       ELSE Goto(g, IF res[g].status = "consumed" THEN "delivered" ELSE "unclear") /\ UNCHANGED <<res, lapsed>>
    /\ UNCHANGED <<ent, past, used, made, decided>>

\* The commit or what follows it fails: it may have been recorded.
CommitFails(g, recorded) ==
    /\ call[g] = "made"
    /\ IF recorded /\ res[g].status \in {"dispatched", "ambiguous"}
       THEN SetStatus(g, "consumed") /\ lapsed' = lapsed \ {g} ELSE UNCHANGED <<res, lapsed>>
    /\ Goto(g, "unclear")
    /\ UNCHANGED <<ent, past, used, made, decided>>

\* preserveAmbiguousGeneration
PreserveAmbiguous(g) ==
    /\ call[g] = "unclear"
    /\ IF res[g].status = "dispatched"
       THEN SetStatus(g, "ambiguous") /\ lapsed' = lapsed \ {g} ELSE UNCHANGED <<res, lapsed>>
    /\ Goto(g, "ended")
    /\ UNCHANGED <<ent, past, used, made, decided>>

\* releaseReservedGeneration
ReleaseReserved(g) ==
    /\ call[g] \in {"undispatched", "refused"}
    /\ IF res[g].status \in {"reserved", "dispatched"}
       THEN Release({g}) /\ SetStatus(g, "released") /\ lapsed' = lapsed \ {g} ELSE UNCHANGED rows
    /\ Goto(g, "ended")
    /\ UNCHANGED <<past, made, decided>>

\* The process dies, or its last write fails: what the database says stays as it is.
Dies(g) ==
    /\ call[g] \notin {"idle", "delivered", "ended"}
    /\ Goto(g, "ended")
    /\ UNCHANGED <<rows, past, made, decided>>

-----------------------------------------------------------------------------
(* Maintenance and the operator. *)

LeaseLapses(g) ==
    /\ res[g].status \in {"reserved", "dispatched"} /\ g \notin lapsed
    /\ lapsed' = lapsed \cup {g}
    /\ UNCHANGED <<ent, past, used, res, call, made, decided>>

Stale(s) == {g \in lapsed : res[g].status = s}

ReconcileForgetsDispatchedMutant ==
    /\ lapsed # {}
    /\ Release(Stale("reserved"))
    /\ res' = [g \in Calls |->
                 IF g \in Stale("reserved") THEN [res[g] EXCEPT !.status = "released"] ELSE res[g]]
    /\ lapsed' = {}
    /\ UNCHANGED <<past, call, made, decided>>

ReconcileReleasesMutant ==
    LET S == Stale("reserved") \cup Stale("dispatched") IN
    /\ S # {} /\ Release(S)
    /\ res' = [g \in Calls |-> IF g \in S THEN [res[g] EXCEPT !.status = "released"] ELSE res[g]]
    /\ lapsed' = {}
    /\ UNCHANGED <<past, call, made, decided>>

\* reconcileGenerationReservations
Reconcile ==
    /\ lapsed # {}
    /\ Release(Stale("reserved"))
    /\ res' = [g \in Calls |->
                 IF g \in Stale("reserved") THEN [res[g] EXCEPT !.status = "released"]
                 ELSE IF g \in Stale("dispatched") THEN [res[g] EXCEPT !.status = "ambiguous"] ELSE res[g]]
    /\ lapsed' = {}
    /\ UNCHANGED <<past, call, made, decided>>

ResolveAnyMutant(g, decision) ==
    /\ res[g].status \in {"ambiguous", "consumed"}
    /\ IF decision = "consume"
       THEN SetStatus(g, "consumed") /\ UNCHANGED <<ent, used>>
       ELSE Release({g}) /\ SetStatus(g, "released")
    /\ decided' = [decided EXCEPT ![g] = decision]
    /\ UNCHANGED <<past, lapsed, call, made>>

\* resolveAmbiguousGenerationReservation; a repeated key is answered from the audit trail.
Resolve(g, decision) ==
    /\ res[g].status = "ambiguous"
    /\ IF decision = "consume"
       THEN SetStatus(g, "consumed") /\ UNCHANGED <<ent, used>>
       ELSE Release({g}) /\ SetStatus(g, "released")
    /\ decided' = [decided EXCEPT ![g] = decision]
    /\ UNCHANGED <<past, lapsed, call, made>>

-----------------------------------------------------------------------------
CallStep(g) ==
    \/ \E heard \in BOOLEAN : CheckCeiling(g, heard) \/ ReserveGeneration(g, heard) \/ MarkDispatched(g, heard)
    \/ \E makes \in BOOLEAN, learns \in CallState : ProviderAnswers(g, makes, learns)
    \/ CommitGeneration(g) \/ \E recorded \in BOOLEAN : CommitFails(g, recorded)
    \/ PreserveAmbiguous(g) \/ ReleaseReserved(g) \/ Dies(g)

Next ==
    \/ \E g \in Calls : CallStep(g) \/ LeaseLapses(g) \/ \E d \in {"consume", "release"} : Resolve(g, d)
    \/ \E e \in Entitlements : Grant(e) \/ Revoke(e) \/ Expires(e)
    \/ Reconcile

Spec == Init /\ [][Next]_vars

\* Maintenance runs every hour, and leases are an hour at most.  Nothing makes a call finish,
\* and nobody makes the operator decide.
FairSpec == Spec /\ WF_vars(Reconcile) /\ \A g \in Calls : WF_vars(LeaseLapses(g))

-----------------------------------------------------------------------------
(* Properties. *)

\* Types: the rows, with the CHECK constraints of the two tables.
TypeOK ==
    /\ ent \in [Entitlements -> [status : EntStatus, consumed : Nat]]
    /\ \A e \in Entitlements : ent[e].consumed <= Quantity[e]
    /\ past \subseteq Entitlements /\ used \in Nat
    /\ res \in [Calls -> [status : ResStatus, of : Entitlements \cup {Nothing}]]
    /\ lapsed \subseteq Calls /\ made \subseteq Calls
    /\ call \in [Calls -> CallState]
    /\ decided \in [Calls -> {"none", "consume", "release"}]

Held(e) == {g \in Calls : res[g].of = e /\ res[g].status \notin {"none", "released"}}

\* Both counters say what the reservations say: no release is counted twice, or lost, however
\* the call's own release, the maintenance and the operator fall together.
CountersAgree ==
    /\ \A e \in Entitlements : ent[e].consumed = Cardinality(Held(e))
    /\ used = Cardinality({g \in Calls : res[g].status \notin {"none", "released"}})

BooksAgree == TypeOK /\ CountersAgree

\* What the provider bills is given back by nobody but an operator: not by the call, and not
\* by a maintenance run that took it for one that never began.
NeverFree == \A g \in made : res[g].status = "released" => decided[g] = "release"

\* An image is handed over only for a generation that is, and stays, counted.
DeliveredIsCounted == \A g \in Calls : call[g] = "delivered" => res[g].status = "consumed"

\* Neither the provider's bill nor the customer's image is ever for nothing.
MadeIsCounted == NeverFree /\ DeliveredIsCounted

\* The counters tell of every image made, and of no other reservation.
ImagesAreCounted == BooksAgree /\ MadeIsCounted

\* A reservation ends once: an operator's decision, a late success and the maintenance never
\* undo one another.
EndsOnce ==
    [][\A g \in Calls : res[g].status \in {"consumed", "released"} => res'[g] = res[g]]_vars

\* A reservation a dead call left does not hold its generation without anyone being shown it.
ReservationEnds ==
    \A g \in Calls : res[g].status \in {"reserved", "dispatched"}
                        ~> res[g].status \in {"consumed", "released", "ambiguous"}

=============================================================================
