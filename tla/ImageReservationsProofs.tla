------------------------ MODULE ImageReservationsProofs ------------------------
(***************************************************************************)
(* What the provider bills is given back by nobody but an operator, an     *)
(* image is handed over only for a generation that is counted, and a       *)
(* reservation ends once: for any number of calls and entitlements.        *)
(*                                                                         *)
(* The argument follows one reservation: nothing is asked of the provider  *)
(* before the reservation is dispatched, and from there only the operator  *)
(* leads to "released" once the provider has made the image.  The two      *)
(* counters are, as counts of sets, the reservations that hold a           *)
(* generation: a step moves one reservation and its counters with it.      *)
(***************************************************************************)
EXTENDS ImageReservations, FiniteSetTheorems, TLAPS

\* The part of the types the argument needs.
CallTypes ==
    /\ res \in [Calls -> [status : ResStatus, of : Entitlements \cup {Nothing}]]
    /\ call \in [Calls -> CallState]
    /\ decided \in [Calls -> {"none", "consume", "release"}]
    /\ made \subseteq Calls

\* Dispatched, or ended, but not given back except by the operator.
Accounted(g) ==
    \/ res[g].status \in {"dispatched", "ambiguous", "consumed"}
    \/ res[g].status = "released" /\ decided[g] = "release"

CallInv(g) ==
    /\ call[g] \in {"idle", "allowed"} => res[g].status = "none"
    /\ call[g] = "sending" => Accounted(g)
    /\ g \in made => Accounted(g) /\ call[g] \in {"made", "unclear", "delivered", "ended"}
    /\ call[g] = "delivered" => res[g].status = "consumed"

IInv == CallTypes /\ \A g \in Calls : CallInv(g)

USE DEF ResStatus, CallState

LEMMA InitInv == Init => IInv
BY DEF Init, IInv, CallTypes, CallInv, Accounted

-----------------------------------------------------------------------------
(* Steps of one call *)

LEMMA CheckStep ==
    ASSUME IInv, NEW g \in Calls, NEW heard \in BOOLEAN, CheckCeiling(g, heard)
    PROVE  IInv'
BY DEF IInv, CallTypes, CallInv, Accounted, CheckCeiling, Goto, rows

LEMMA ReserveStep ==
    ASSUME IInv, NEW g \in Calls, NEW heard \in BOOLEAN, ReserveGeneration(g, heard)
    PROVE  IInv'
<1>1. CASE Usable = {}
  BY <1>1 DEF IInv, CallTypes, CallInv, Accounted, ReserveGeneration, Goto
<1>2. CASE Usable # {}
  <2>1. PICK e \in Entitlements : res' = [res EXCEPT ![g] = [status |-> "reserved", of |-> e]]
    BY <1>2 DEF ReserveGeneration, Usable
  <2>2. /\ call[g] = "allowed" /\ UNCHANGED <<made, decided>>
        /\ call' = [call EXCEPT ![g] = IF heard THEN "reserved" ELSE "ended"]
    BY <1>2 DEF ReserveGeneration, Goto
  <2>3. CallTypes'
    BY <2>1, <2>2 DEF IInv, CallTypes
  <2>4. ASSUME NEW h \in Calls PROVE CallInv(h)'
    <3>1. CASE h = g
      BY <2>1, <2>2, <3>1 DEF IInv, CallTypes, CallInv, Accounted
    <3>2. CASE h # g
      BY <2>1, <2>2, <3>2 DEF IInv, CallTypes, CallInv, Accounted
    <3> QED BY <3>1, <3>2
  <2> QED BY <2>3, <2>4 DEF IInv
<1> QED BY <1>1, <1>2

LEMMA DispatchStep ==
    ASSUME IInv, NEW g \in Calls, NEW heard \in BOOLEAN, MarkDispatched(g, heard)
    PROVE  IInv'
<1>1. CASE res[g].status = "reserved" /\ g \notin lapsed
  BY <1>1 DEF IInv, CallTypes, CallInv, Accounted, MarkDispatched, Goto, SetStatus
<1>2. CASE ~(res[g].status = "reserved" /\ g \notin lapsed)
  BY <1>2 DEF IInv, CallTypes, CallInv, Accounted, MarkDispatched, Goto
<1> QED BY <1>1, <1>2

LEMMA ProviderStep ==
    ASSUME IInv, NEW g \in Calls, NEW makes \in BOOLEAN, NEW learns \in CallState,
           ProviderAnswers(g, makes, learns)
    PROVE  IInv'
BY DEF IInv, CallTypes, CallInv, Accounted, ProviderAnswers, Goto, rows

LEMMA CommitStep ==
    ASSUME IInv, NEW g \in Calls,
           CommitGeneration(g) \/ \E recorded \in BOOLEAN : CommitFails(g, recorded)
    PROVE  IInv'
<1>1. ASSUME CommitGeneration(g) PROVE IInv'
  <2>1. CASE res[g].status \in {"dispatched", "ambiguous"}
    <3>1. /\ res' = [res EXCEPT ![g].status = "consumed"] /\ call' = [call EXCEPT ![g] = "delivered"]
          /\ UNCHANGED <<made, decided>>
      BY <1>1, <2>1 DEF CommitGeneration, Goto, SetStatus
    <3>2. CallTypes'
      BY <3>1 DEF IInv, CallTypes
    <3>3. ASSUME NEW h \in Calls PROVE CallInv(h)'
      BY <2>1, <3>1 DEF IInv, CallTypes, CallInv, Accounted
    <3> QED BY <3>2, <3>3 DEF IInv
  <2>2. CASE res[g].status \notin {"dispatched", "ambiguous"}
    <3>1. /\ call' = [call EXCEPT ![g] = IF res[g].status = "consumed" THEN "delivered" ELSE "unclear"]
          /\ call[g] = "made" /\ UNCHANGED <<res, made, decided>>
      BY <1>1, <2>2 DEF CommitGeneration, Goto
    <3>2. CallTypes'
      BY <3>1 DEF IInv, CallTypes
    <3>3. ASSUME NEW h \in Calls PROVE CallInv(h)'
      BY <3>1 DEF IInv, CallTypes, CallInv, Accounted
    <3> QED BY <3>2, <3>3 DEF IInv
  <2> QED BY <2>1, <2>2
<1>2. ASSUME NEW recorded \in BOOLEAN, CommitFails(g, recorded) PROVE IInv'
  BY <1>2 DEF IInv, CallTypes, CallInv, Accounted, CommitFails, Goto, SetStatus
<1> QED BY <1>1, <1>2

LEMMA EndStep ==
    ASSUME IInv, NEW g \in Calls, PreserveAmbiguous(g) \/ ReleaseReserved(g) \/ Dies(g)
    PROVE  IInv'
<1>1. ASSUME PreserveAmbiguous(g) PROVE IInv'
  BY <1>1 DEF IInv, CallTypes, CallInv, Accounted, PreserveAmbiguous, Goto, SetStatus
<1>2. ASSUME ReleaseReserved(g) PROVE IInv'
  BY <1>2 DEF IInv, CallTypes, CallInv, Accounted, ReleaseReserved, Goto, SetStatus, rows
<1>3. ASSUME Dies(g) PROVE IInv'
  BY <1>3 DEF IInv, CallTypes, CallInv, Accounted, Dies, Goto, rows
<1> QED BY <1>1, <1>2, <1>3

LEMMA CallStepInv ==
    ASSUME IInv, NEW g \in Calls, CallStep(g)
    PROVE  IInv'
BY CheckStep, ReserveStep, DispatchStep, ProviderStep, CommitStep, EndStep DEF CallStep

-----------------------------------------------------------------------------
(* Steps of others *)

LEMMA ResolveStep ==
    ASSUME IInv, NEW g \in Calls, NEW d \in {"consume", "release"}, Resolve(g, d)
    PROVE  IInv'
BY DEF IInv, CallTypes, CallInv, Accounted, Resolve, SetStatus

LEMMA ReconcileStep ==
    ASSUME IInv, Reconcile
    PROVE  IInv'
<1>1. \A g \in Calls :
        res'[g] = IF g \in Stale("reserved") THEN [res[g] EXCEPT !.status = "released"]
                  ELSE IF g \in Stale("dispatched") THEN [res[g] EXCEPT !.status = "ambiguous"] ELSE res[g]
  BY DEF Reconcile
<1>2. CallTypes'
  BY <1>1 DEF IInv, CallTypes, Reconcile
<1>3. ASSUME NEW g \in Calls PROVE CallInv(g)'
  BY <1>1, <1>3 DEF IInv, CallTypes, CallInv, Accounted, Reconcile, Stale
<1> QED BY <1>2, <1>3 DEF IInv

LEMMA EntitlementStep ==
    ASSUME IInv, NEW e \in Entitlements, Grant(e) \/ Revoke(e) \/ Expires(e)
    PROVE  IInv'
BY DEF IInv, CallTypes, CallInv, Accounted, Grant, Revoke, Expires, rows

LEMMA NextInv == IInv /\ [Next]_vars => IInv'
<1> SUFFICES ASSUME IInv, [Next]_vars PROVE IInv'
  OBVIOUS
<1>1. ASSUME NEW g \in Calls, LeaseLapses(g) PROVE IInv'
  BY <1>1 DEF IInv, CallTypes, CallInv, Accounted, LeaseLapses
<1>2. CASE UNCHANGED vars
  BY <1>2 DEF IInv, CallTypes, CallInv, Accounted, vars
<1> QED BY <1>1, <1>2, CallStepInv, ResolveStep, ReconcileStep, EntitlementStep DEF Next

\* The inductive invariant holds of every reachable state.
THEOREM Invariance == Spec => []IInv
BY InitInv, NextInv, PTL DEF Spec

-----------------------------------------------------------------------------

\* A billed generation is given back by an operator, or by nobody (releaseReservationWithClient
\* under its four callers).
THEOREM BilledIsNotReleased == Spec => []NeverFree
<1>1. IInv => NeverFree
  BY DEF IInv, CallTypes, CallInv, Accounted, NeverFree
<1> QED BY <1>1, Invariance, PTL

\* The tool hands an image over only once commitGenerationReservation has counted it.
THEOREM HandedOverIsCounted == Spec => []DeliveredIsCounted
<1>1. IInv => DeliveredIsCounted
  BY DEF IInv, CallInv, DeliveredIsCounted
<1> QED BY <1>1, Invariance, PTL

\* Both together: what was made is counted, until an operator gives it back.
LEMMA MadeImagesAreCounted == Spec => []MadeIsCounted
<1>1. NeverFree /\ DeliveredIsCounted => MadeIsCounted
  BY DEF MadeIsCounted
<1> QED BY <1>1, BilledIsNotReleased, HandedOverIsCounted, PTL

Ended(g) == res[g].status \in {"consumed", "released"}

LEMMA CallLeavesEnded ==
    ASSUME IInv, NEW g \in Calls, NEW h \in Calls, Ended(h), CallStep(g)
    PROVE  res'[h] = res[h]
<1>1. ASSUME NEW heard \in BOOLEAN, CheckCeiling(g, heard) \/ MarkDispatched(g, heard)
      PROVE  res'[h] = res[h]
  BY <1>1 DEF IInv, CallTypes, Ended, CheckCeiling, MarkDispatched, SetStatus, rows
<1>2. ASSUME NEW heard \in BOOLEAN, ReserveGeneration(g, heard) PROVE res'[h] = res[h]
  <2>1. res[g].status = "none"
    BY <1>2 DEF IInv, CallInv, ReserveGeneration
  <2>2. res' = res \/ \E e \in Usable : res' = [res EXCEPT ![g] = [status |-> "reserved", of |-> e]]
    BY <1>2 DEF ReserveGeneration
  <2> QED BY <2>1, <2>2 DEF IInv, CallTypes, Ended
<1>3. ASSUME NEW makes \in BOOLEAN, NEW learns \in CallState, ProviderAnswers(g, makes, learns)
      PROVE  res'[h] = res[h]
  BY <1>3 DEF ProviderAnswers, rows
<1>4. ASSUME CommitGeneration(g) PROVE res'[h] = res[h]
  BY <1>4 DEF IInv, CallTypes, Ended, CommitGeneration, SetStatus
<1>5. ASSUME NEW recorded \in BOOLEAN, CommitFails(g, recorded) PROVE res'[h] = res[h]
  BY <1>5 DEF IInv, CallTypes, Ended, CommitFails, SetStatus
<1>6. ASSUME PreserveAmbiguous(g) \/ ReleaseReserved(g) \/ Dies(g) PROVE res'[h] = res[h]
  BY <1>6 DEF IInv, CallTypes, Ended, PreserveAmbiguous, ReleaseReserved, Dies, SetStatus, rows
<1> QED BY <1>1, <1>2, <1>3, <1>4, <1>5, <1>6 DEF CallStep

LEMMA OthersLeaveEnded ==
    ASSUME IInv, NEW h \in Calls, Ended(h),
           \/ Reconcile
           \/ \E g \in Calls : LeaseLapses(g) \/ \E d \in {"consume", "release"} : Resolve(g, d)
           \/ \E e \in Entitlements : Grant(e) \/ Revoke(e) \/ Expires(e)
    PROVE  res'[h] = res[h]
<1>1. ASSUME Reconcile PROVE res'[h] = res[h]
  BY <1>1 DEF IInv, CallTypes, Ended, Reconcile, Stale
<1>2. ASSUME NEW g \in Calls, NEW d \in {"consume", "release"}, Resolve(g, d) PROVE res'[h] = res[h]
  BY <1>2 DEF IInv, CallTypes, Ended, Resolve, SetStatus
<1>3. ASSUME NEW g \in Calls, LeaseLapses(g) PROVE res'[h] = res[h]
  BY <1>3 DEF LeaseLapses
<1>4. ASSUME NEW e \in Entitlements, Grant(e) \/ Revoke(e) \/ Expires(e) PROVE res'[h] = res[h]
  BY <1>4 DEF Grant, Revoke, Expires, rows
<1> QED BY <1>1, <1>2, <1>3, <1>4

\* An operator, a late success, a late failure and the maintenance never undo one another
\* (each UPDATE's status list, under the row's lock).
THEOREM ReservationEndsOnce == Spec => EndsOnce
<1>1. ASSUME IInv, [Next]_vars
      PROVE  [\A g \in Calls : res[g].status \in {"consumed", "released"} => res'[g] = res[g]]_vars
  BY <1>1, CallLeavesEnded, OthersLeaveEnded DEF Next, vars, Ended
<1> QED BY <1>1, Invariance, PTL DEF Spec, EndsOnce

-----------------------------------------------------------------------------
(* The counters.  A generation is held by a reservation that has neither  *)
(* failed to begin nor been given back; both counters are the number of   *)
(* the reservations that hold one.                                        *)

Holds(g) == res[g].status \notin {"none", "released"}
HeldByAny == {g \in Calls : Holds(g)}

BookInv ==
    /\ TypeOK
    /\ IsFiniteSet(HeldByAny)
    /\ \A g \in HeldByAny : res[g].of \in Entitlements
    /\ CountersAgree

LEMMA HeldIsFinite ==
    ASSUME BookInv, NEW e \in Entitlements
    PROVE  /\ Held(e) \subseteq HeldByAny /\ IsFiniteSet(Held(e))
           /\ Cardinality(Held(e)) = ent[e].consumed
<1>1. Held(e) \subseteq HeldByAny
  BY DEF Held, HeldByAny, Holds
<1>2. Cardinality(Held(e)) = ent[e].consumed
  BY DEF BookInv, CountersAgree
<1> QED BY <1>1, <1>2, FS_Subset DEF BookInv

LEMMA HeldByAnyIsUsed == ASSUME BookInv PROVE Cardinality(HeldByAny) = used
BY DEF BookInv, CountersAgree, HeldByAny, Holds

\* What leaves every reservation with its entitlement, held or not as it was, and the two
\* counters alone, leaves the books in order.
LEMMA NothingHeldAnew ==
    ASSUME BookInv, TypeOK', used' = used,
           \A e \in Entitlements : ent'[e].consumed = ent[e].consumed,
           \A g \in Calls : res'[g].of = res[g].of /\ (Holds(g)' <=> Holds(g))
    PROVE  BookInv'
<1>1. HeldByAny' = HeldByAny
  BY DEF HeldByAny
<1>2. ASSUME NEW e \in Entitlements PROVE Held(e)' = Held(e)
  BY DEF Held, Holds
<1>3. \A g \in HeldByAny : res'[g].of \in Entitlements
  BY DEF BookInv, HeldByAny
<1>4. ASSUME NEW e \in Entitlements PROVE ent'[e].consumed = Cardinality(Held(e)')
  BY <1>2, <1>4 DEF BookInv, CountersAgree
<1>5. used' = Cardinality(HeldByAny')
  BY <1>1, HeldByAnyIsUsed
<1>6. CountersAgree'
  BY <1>4, <1>5 DEF CountersAgree, HeldByAny, Holds
<1> QED BY <1>1, <1>3, <1>6 DEF BookInv

\* A reservation of one generation.
LEMMA OneHeldAnew ==
    ASSUME BookInv, TypeOK', NEW g \in Calls, NEW e \in Entitlements, ~Holds(g),
           res' = [res EXCEPT ![g] = [status |-> "reserved", of |-> e]],
           used' = used + 1,
           \A f \in Entitlements :
              ent'[f].consumed = IF f = e THEN ent[f].consumed + 1 ELSE ent[f].consumed
    PROVE  BookInv'
<1>0. res \in [Calls -> [status : ResStatus, of : Entitlements \cup {Nothing}]]
  BY DEF BookInv, TypeOK
<1>1. HeldByAny' = HeldByAny \cup {g} /\ g \notin HeldByAny
  BY <1>0 DEF HeldByAny, Holds
<1>2. IsFiniteSet(HeldByAny') /\ Cardinality(HeldByAny') = Cardinality(HeldByAny) + 1
  BY <1>1, FS_AddElement DEF BookInv
<1>3. \A h \in HeldByAny' : res'[h].of \in Entitlements
  BY <1>0, <1>1 DEF BookInv, HeldByAny
<1>4. ASSUME NEW f \in Entitlements PROVE ent'[f].consumed = Cardinality(Held(f)')
  <2>1. CASE f = e
    <3>1. Held(f)' = Held(f) \cup {g} /\ g \notin Held(f)
      BY <1>0, <2>1 DEF Held, Holds
    <3> QED BY <3>1, <2>1, HeldIsFinite, FS_AddElement
  <2>2. CASE f # e
    <3>1. Held(f)' = Held(f)
      BY <1>0, <2>2 DEF Held, Holds
    <3> QED BY <3>1, <2>2, HeldIsFinite
  <2> QED BY <2>1, <2>2
<1>5. used' = Cardinality(HeldByAny')
  BY <1>2, HeldByAnyIsUsed
<1>6. CountersAgree'
  BY <1>4, <1>5 DEF CountersAgree, HeldByAny, Holds
<1> QED BY <1>2, <1>3, <1>6 DEF BookInv

\* releaseReservationWithClient for the reservations of S: each gives its own generation back, once.
LEMMA SomeGivenBack ==
    ASSUME BookInv, NEW S \in SUBSET HeldByAny, Release(S),
           \A g \in Calls : res'[g].of = res[g].of /\ (Holds(g)' <=> Holds(g) /\ g \notin S),
           res' \in [Calls -> [status : ResStatus, of : Entitlements \cup {Nothing}]],
           lapsed' \subseteq Calls, call' \in [Calls -> CallState],
           decided' \in [Calls -> {"none", "consume", "release"}], UNCHANGED <<past, made>>
    PROVE  BookInv'
<1> DEFINE Part(e) == {g \in S : res[g].of = e}
<1>0. TypeOK
  BY DEF BookInv
<1>1. IsFiniteSet(HeldByAny) /\ IsFiniteSet(S)
  BY FS_Subset DEF BookInv
<1>2. HeldByAny' = HeldByAny \ S
  BY DEF HeldByAny
<1>3. IsFiniteSet(HeldByAny') /\ Cardinality(HeldByAny') = Cardinality(HeldByAny) - Cardinality(S)
  <2>1. HeldByAny \cap S = S
    OBVIOUS
  <2>2. /\ IsFiniteSet(HeldByAny \ S)
        /\ Cardinality(HeldByAny \ S) = Cardinality(HeldByAny) - Cardinality(HeldByAny \cap S)
    BY <1>1, FS_Difference
  <2> QED BY <1>2, <2>1, <2>2
<1>4. used' = Cardinality(HeldByAny')
  BY <1>3, HeldByAnyIsUsed DEF Release
<1>5. used' \in Nat
  BY <1>3, <1>4, FS_CardinalityType
<1>6. ASSUME NEW e \in Entitlements
      PROVE  /\ ent'[e].consumed = Cardinality(Held(e)')
             /\ ent'[e] \in [status : EntStatus, consumed : Nat]
             /\ ent'[e].consumed <= Quantity[e]
  <2>1. Part(e) \subseteq Held(e) /\ IsFiniteSet(Held(e))
    BY HeldIsFinite DEF Held, HeldByAny, Holds
  <2>2. Held(e)' = Held(e) \ Part(e)
    BY DEF Held, Holds
  <2>3. Held(e) \cap Part(e) = Part(e)
    BY <2>1
  <2>4. /\ IsFiniteSet(Held(e)') /\ IsFiniteSet(Part(e))
        /\ Cardinality(Held(e)') = Cardinality(Held(e)) - Cardinality(Part(e))
    <3>1. IsFiniteSet(Held(e) \ Part(e))
          /\ Cardinality(Held(e) \ Part(e)) = Cardinality(Held(e)) - Cardinality(Held(e) \cap Part(e))
      BY <2>1, FS_Difference
    <3>2. IsFiniteSet(Part(e))
      BY <2>1, FS_Subset
    <3> QED BY <2>2, <2>3, <3>1, <3>2
  <2>5. ent'[e] = GivenBack(e, Cardinality(Part(e)))
    BY DEF Release
  <2>6. ent'[e].consumed = Cardinality(Held(e)')
    BY <2>4, <2>5, HeldIsFinite DEF GivenBack
  <2>7. Cardinality(Held(e)') \in Nat /\ Cardinality(Part(e)) \in Nat
    BY <2>4, FS_CardinalityType
  <2>8. ent'[e].status \in EntStatus
    BY <1>0, <2>5 DEF GivenBack, TypeOK, EntStatus
  <2>9. ent'[e] = [status |-> ent'[e].status, consumed |-> ent'[e].consumed]
    BY <2>5 DEF GivenBack
  <2>10. ent[e].consumed \in Nat /\ ent[e].consumed <= Quantity[e] /\ Quantity[e] \in Nat
    BY <1>0, ImageAssumption DEF TypeOK
  <2>11. ent'[e].consumed = ent[e].consumed - Cardinality(Part(e))
    BY <2>5 DEF GivenBack
  <2> QED BY <2>6, <2>7, <2>8, <2>9, <2>10, <2>11
<1>7. TypeOK'
  <2>1. ent' \in [Entitlements -> [status : EntStatus, consumed : Nat]]
    BY <1>6 DEF Release
  <2> QED BY <1>0, <1>5, <1>6, <2>1 DEF TypeOK
<1>8. CountersAgree'
  BY <1>4, <1>6 DEF CountersAgree, HeldByAny, Holds
<1>9. \A g \in HeldByAny' : res'[g].of \in Entitlements
  BY <1>2 DEF BookInv, HeldByAny
<1> QED BY <1>3, <1>7, <1>8, <1>9 DEF BookInv

LEMMA NotHeldByIdle ==
    ASSUME IInv, NEW g \in Calls, call[g] \in {"idle", "allowed"}
    PROVE  ~Holds(g)
BY DEF IInv, CallInv, Holds

LEMMA ReserveKeepsBooks ==
    ASSUME IInv, BookInv, NEW g \in Calls, NEW heard \in BOOLEAN, ReserveGeneration(g, heard)
    PROVE  BookInv'
<1>0. TypeOK /\ call[g] = "allowed"
  BY DEF BookInv, ReserveGeneration
<1>1. CASE Usable = {}
  <2>1. /\ ent' = Swept /\ UNCHANGED <<used, res, past, lapsed, made, decided>>
        /\ call' = [call EXCEPT ![g] = "ended"]
    BY <1>1 DEF ReserveGeneration, Goto
  <2>2. TypeOK' /\ \A e \in Entitlements : ent'[e].consumed = ent[e].consumed
    BY <1>0, <2>1 DEF TypeOK, Swept, EntStatus
  <2> QED BY <2>1, <2>2, NothingHeldAnew DEF Holds
<1>2. CASE Usable # {}
  <2>1. PICK e \in Usable :
          /\ ent' = [Swept EXCEPT ![e] =
                       [status   |-> IF ent[e].consumed + 1 >= Quantity[e] THEN "depleted" ELSE "active",
                        consumed |-> ent[e].consumed + 1]]
          /\ used' = used + 1
          /\ res' = [res EXCEPT ![g] = [status |-> "reserved", of |-> e]]
          /\ call' = [call EXCEPT ![g] = IF heard THEN "reserved" ELSE "ended"]
    BY <1>2 DEF ReserveGeneration, Goto
  <2>2. /\ e \in Entitlements /\ ent[e].consumed < Quantity[e] /\ Quantity[e] \in Nat
        /\ UNCHANGED <<past, lapsed, made, decided>>
    BY ImageAssumption DEF Usable, ReserveGeneration
  <2>3. Swept \in [Entitlements -> [status : EntStatus, consumed : Nat]]
        /\ \A f \in Entitlements : Swept[f].consumed = ent[f].consumed
    BY <1>0 DEF TypeOK, Swept, EntStatus
  <2>4. ent[e].consumed + 1 \in Nat
    BY <1>0, <2>2 DEF TypeOK
  <2>5. ent' \in [Entitlements -> [status : EntStatus, consumed : Nat]]
    BY <2>1, <2>2, <2>3, <2>4 DEF EntStatus
  <2>6. \A f \in Entitlements :
          ent'[f].consumed = IF f = e THEN ent[f].consumed + 1 ELSE ent[f].consumed
    BY <2>1, <2>2, <2>3
  <2>7. \A f \in Entitlements : ent'[f].consumed <= Quantity[f]
    BY <1>0, <2>2, <2>6, ImageAssumption DEF TypeOK
  <2>8. TypeOK'
    BY <1>0, <2>1, <2>2, <2>5, <2>7 DEF TypeOK
  <2> QED BY <1>0, <2>1, <2>2, <2>6, <2>8, NotHeldByIdle, OneHeldAnew
<1> QED BY <1>1, <1>2

\* One reservation, given back by its call or by an operator.
LEMMA OneGivenBack ==
    ASSUME BookInv, NEW g \in Calls, Holds(g), Release({g}), SetStatus(g, "released"),
           lapsed' \subseteq Calls, call' \in [Calls -> CallState],
           decided' \in [Calls -> {"none", "consume", "release"}], UNCHANGED <<past, made>>
    PROVE  BookInv'
<1>1. {g} \in SUBSET HeldByAny
  BY DEF HeldByAny
<1>2. res \in [Calls -> [status : ResStatus, of : Entitlements \cup {Nothing}]]
  BY DEF BookInv, TypeOK
<1>3. \A h \in Calls : res'[h].of = res[h].of /\ (Holds(h)' <=> Holds(h) /\ h \notin {g})
  BY <1>2 DEF SetStatus, Holds
<1>4. res' \in [Calls -> [status : ResStatus, of : Entitlements \cup {Nothing}]]
  BY <1>2 DEF SetStatus
<1> QED BY <1>1, <1>3, <1>4, SomeGivenBack

LEMMA ReconcileKeepsBooks ==
    ASSUME BookInv, Reconcile
    PROVE  BookInv'
<1> DEFINE S == Stale("reserved")
<1>0. TypeOK
  BY DEF BookInv
<1>1. S \in SUBSET HeldByAny
  BY <1>0 DEF Stale, HeldByAny, Holds, TypeOK
<1>2. \A g \in Calls :
        res'[g] = IF g \in S THEN [res[g] EXCEPT !.status = "released"]
                  ELSE IF g \in Stale("dispatched") THEN [res[g] EXCEPT !.status = "ambiguous"] ELSE res[g]
  BY DEF Reconcile
<1>3. \A g \in Calls : res'[g].of = res[g].of /\ (Holds(g)' <=> Holds(g) /\ g \notin S)
  BY <1>0, <1>2 DEF Holds, Stale, TypeOK
<1>4. res' \in [Calls -> [status : ResStatus, of : Entitlements \cup {Nothing}]]
  BY <1>0, <1>2 DEF Reconcile, TypeOK
<1>5. Release(S) /\ lapsed' = {} /\ UNCHANGED <<past, call, made, decided>>
  BY DEF Reconcile
<1> QED BY <1>0, <1>1, <1>3, <1>4, <1>5, SomeGivenBack DEF TypeOK

\* What the call's own steps change: how far it is, and the status of its reservation.
LEMMA CallTyped ==
    ASSUME TypeOK, NEW g \in Calls, NEW s \in ResStatus, NEW c \in CallState, Goto(g, c),
           \/ SetStatus(g, s) /\ lapsed' = lapsed \ {g}
           \/ UNCHANGED <<res, lapsed>>,
           UNCHANGED <<ent, past, used, made, decided>>
    PROVE  TypeOK'
<1>1. call' \in [Calls -> CallState]
  BY DEF Goto, TypeOK
<1>2. res' \in [Calls -> [status : ResStatus, of : Entitlements \cup {Nothing}]]
  <2>1. res \in [Calls -> [status : ResStatus, of : Entitlements \cup {Nothing}]]
    BY DEF TypeOK
  <2>2. res' = res \/ res' = [res EXCEPT ![g] = [res[g] EXCEPT !.status = s]]
    BY DEF SetStatus
  <2>3. [res[g] EXCEPT !.status = s] \in [status : ResStatus, of : Entitlements \cup {Nothing}]
    BY <2>1
  <2> QED BY <2>1, <2>2, <2>3
<1>3. lapsed' \subseteq Calls
  BY DEF TypeOK
<1> QED BY <1>1, <1>2, <1>3 DEF TypeOK

LEMMA CallKeepsBooks ==
    ASSUME IInv, BookInv, NEW g \in Calls, CallStep(g)
    PROVE  BookInv'
<1>0. TypeOK
  BY DEF BookInv
<1>1. ASSUME NEW heard \in BOOLEAN, CheckCeiling(g, heard) PROVE BookInv'
  <2>1. TypeOK'
    BY <1>0, <1>1 DEF CheckCeiling, Goto, rows, TypeOK
  <2> QED BY <1>1, <2>1, NothingHeldAnew DEF CheckCeiling, rows, Holds
<1>2. ASSUME NEW heard \in BOOLEAN, MarkDispatched(g, heard) PROVE BookInv'
  <2>1. TypeOK'
    <3>1. PICK c \in {"sending", "undispatched"} : Goto(g, c)
      BY <1>2 DEF MarkDispatched
    <3> QED BY <1>0, <1>2, <3>1, CallTyped DEF MarkDispatched
  <2>2. \A h \in Calls : res'[h].of = res[h].of /\ (Holds(h)' <=> Holds(h))
    BY <1>0, <1>2 DEF MarkDispatched, SetStatus, Holds, TypeOK
  <2> QED BY <1>2, <2>1, <2>2, NothingHeldAnew DEF MarkDispatched
<1>3. ASSUME NEW makes \in BOOLEAN, NEW learns \in CallState, ProviderAnswers(g, makes, learns)
      PROVE  BookInv'
  <2>1. TypeOK'
    BY <1>0, <1>3 DEF ProviderAnswers, Goto, rows, TypeOK
  <2> QED BY <1>3, <2>1, NothingHeldAnew DEF ProviderAnswers, rows, Holds
<1>4. ASSUME CommitGeneration(g) PROVE BookInv'
  <2>1. TypeOK'
    <3>1. PICK c \in {"delivered", "unclear"} : Goto(g, c)
      BY <1>4 DEF CommitGeneration
    <3> QED BY <1>0, <1>4, <3>1, CallTyped DEF CommitGeneration
  <2>2. \A h \in Calls : res'[h].of = res[h].of /\ (Holds(h)' <=> Holds(h))
    BY <1>0, <1>4 DEF CommitGeneration, SetStatus, Holds, TypeOK
  <2> QED BY <1>4, <2>1, <2>2, NothingHeldAnew DEF CommitGeneration
<1>5. ASSUME NEW recorded \in BOOLEAN, CommitFails(g, recorded) PROVE BookInv'
  <2>1. TypeOK'
    BY <1>0, <1>5, CallTyped DEF CommitFails
  <2>2. \A h \in Calls : res'[h].of = res[h].of /\ (Holds(h)' <=> Holds(h))
    BY <1>0, <1>5 DEF CommitFails, SetStatus, Holds, TypeOK
  <2> QED BY <1>5, <2>1, <2>2, NothingHeldAnew DEF CommitFails
<1>6. ASSUME PreserveAmbiguous(g) PROVE BookInv'
  <2>1. TypeOK'
    BY <1>0, <1>6, CallTyped DEF PreserveAmbiguous
  <2>2. \A h \in Calls : res'[h].of = res[h].of /\ (Holds(h)' <=> Holds(h))
    BY <1>0, <1>6 DEF PreserveAmbiguous, SetStatus, Holds, TypeOK
  <2> QED BY <1>6, <2>1, <2>2, NothingHeldAnew DEF PreserveAmbiguous
<1>7. ASSUME ReleaseReserved(g) PROVE BookInv'
  <2>1. CASE res[g].status \in {"reserved", "dispatched"}
    <3>1. /\ Holds(g) /\ Release({g}) /\ SetStatus(g, "released")
          /\ lapsed' = lapsed \ {g} /\ call' = [call EXCEPT ![g] = "ended"]
          /\ UNCHANGED <<past, made, decided>>
      BY <1>7, <2>1 DEF ReleaseReserved, Goto, Holds
    <3> QED BY <1>0, <3>1, OneGivenBack DEF TypeOK
  <2>2. CASE res[g].status \notin {"reserved", "dispatched"}
    <3>1. TypeOK'
      BY <1>0, <1>7, <2>2 DEF ReleaseReserved, Goto, rows, TypeOK
    <3> QED BY <1>7, <2>2, <3>1, NothingHeldAnew DEF ReleaseReserved, rows, Holds
  <2> QED BY <2>1, <2>2
<1>8. ASSUME Dies(g) PROVE BookInv'
  <2>1. TypeOK'
    BY <1>0, <1>8 DEF Dies, Goto, rows, TypeOK
  <2> QED BY <1>8, <2>1, NothingHeldAnew DEF Dies, rows, Holds
<1> QED
  BY <1>1, <1>2, <1>3, <1>4, <1>5, <1>6, <1>7, <1>8, ReserveKeepsBooks DEF CallStep

LEMMA OthersKeepBooks ==
    ASSUME BookInv,
           \/ \E g \in Calls : LeaseLapses(g) \/ \E d \in {"consume", "release"} : Resolve(g, d)
           \/ \E e \in Entitlements : Grant(e) \/ Revoke(e) \/ Expires(e)
    PROVE  BookInv'
<1>0. TypeOK
  BY DEF BookInv
<1>1. ASSUME NEW g \in Calls, LeaseLapses(g) PROVE BookInv'
  <2>1. TypeOK'
    BY <1>0, <1>1 DEF LeaseLapses, TypeOK
  <2> QED BY <1>1, <2>1, NothingHeldAnew DEF LeaseLapses, Holds
<1>2. ASSUME NEW g \in Calls, NEW d \in {"consume", "release"}, Resolve(g, d) PROVE BookInv'
  <2>1. CASE d = "consume"
    <3>1. TypeOK'
      BY <1>0, <1>2, <2>1 DEF Resolve, SetStatus, TypeOK
    <3>2. \A h \in Calls : res'[h].of = res[h].of /\ (Holds(h)' <=> Holds(h))
      BY <1>0, <1>2, <2>1 DEF Resolve, SetStatus, Holds, TypeOK
    <3> QED BY <1>2, <2>1, <3>1, <3>2, NothingHeldAnew DEF Resolve
  <2>2. CASE d # "consume"
    <3>1. /\ Holds(g) /\ Release({g}) /\ SetStatus(g, "released")
          /\ decided' = [decided EXCEPT ![g] = d] /\ UNCHANGED <<past, lapsed, call, made>>
      BY <1>2, <2>2 DEF Resolve, Holds
    <3> QED BY <1>0, <3>1, OneGivenBack DEF TypeOK
  <2> QED BY <2>1, <2>2
<1>3. ASSUME NEW e \in Entitlements, Grant(e) \/ Revoke(e) \/ Expires(e) PROVE BookInv'
  <2>1. TypeOK' /\ \A f \in Entitlements : ent'[f].consumed = ent[f].consumed
    <3>1. CASE Grant(e)
      BY <1>0, <3>1 DEF Grant, rows, TypeOK, EntStatus
    <3>2. CASE Revoke(e)
      BY <1>0, <3>2 DEF Revoke, rows, TypeOK, EntStatus
    <3>3. CASE Expires(e)
      BY <1>0, <3>3 DEF Expires, rows, TypeOK
    <3> QED BY <1>3, <3>1, <3>2, <3>3
  <2> QED BY <1>3, <2>1, NothingHeldAnew DEF Grant, Revoke, Expires, rows, Holds
<1> QED BY <1>1, <1>2, <1>3

LEMMA InitBooks == Init => BookInv
<1> SUFFICES ASSUME Init PROVE BookInv
  OBVIOUS
<1>1. HeldByAny = {} /\ \A e \in Entitlements : Held(e) = {}
  BY DEF Init, HeldByAny, Holds, Held
<1>2. TypeOK
  BY ImageAssumption DEF Init, TypeOK, EntStatus, Nothing
<1>3. CountersAgree
  BY <1>1, FS_EmptySet DEF Init, CountersAgree, HeldByAny, Holds
<1> QED BY <1>1, <1>2, <1>3, FS_EmptySet DEF BookInv

\* Both counters are, at every moment, the number of reservations that hold a generation, and
\* no entitlement gives more than it has: whatever the calls (reserveGeneration,
\* releaseReservedGeneration), the maintenance and the operator do, in whatever order.
LEMMA BooksAlwaysAgree == Spec => []BooksAgree
<1>1. IInv /\ BookInv /\ [Next]_vars => BookInv'
  <2> SUFFICES ASSUME IInv, BookInv, [Next]_vars PROVE BookInv'
    OBVIOUS
  <2>1. CASE UNCHANGED vars
    <3>1. TypeOK'
      BY <2>1 DEF BookInv, TypeOK, vars
    <3> QED BY <2>1, <3>1, NothingHeldAnew DEF vars, Holds
  <2> QED BY <2>1, CallKeepsBooks, OthersKeepBooks, ReconcileKeepsBooks DEF Next
<1>2. BookInv => BooksAgree
  BY DEF BookInv, BooksAgree
<1> QED BY <1>1, <1>2, InitBooks, Invariance, PTL DEF Spec

\* Both counters tell of the images that were made: what the provider billed, or the customer
\* has, is counted in each until an operator gives it back, and nothing is counted twice.
THEOREM ImagesAlwaysCounted == Spec => []ImagesAreCounted
<1>1. BooksAgree /\ MadeIsCounted => ImagesAreCounted
  BY DEF ImagesAreCounted
<1> QED BY <1>1, BooksAlwaysAgree, MadeImagesAreCounted, PTL

=============================================================================
