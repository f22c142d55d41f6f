------------------------------ MODULE PackPayments ------------------------------
(***************************************************************************)
(* Letter packs between Stripe and our rows: a checkout, its payment, and  *)
(* what is heard of its refund and its dispute, in any order.              *)
(*                                                                         *)
(* Money moves at Stripe.  We hear of it by events, each claimed once in   *)
(* the transaction that acts on it; they come late, out of order, or       *)
(* never, and an hourly sweep asks about open checkouts and refunds.       *)
(* Refunds and disputes name a payment intent, which an order holds only   *)
(* once a checkout event has told it: heard before, they find no order and *)
(* are kept unmatched, with an alert, for a checkout event to recover.     *)
(*                                                                         *)
(* A payment has at most one dispute here; CreditLedger has more.          *)
(***************************************************************************)
EXTENDS Naturals, FiniteSets

CONSTANT Packs   \* letter packs of one account

VARIABLES
    status,    \* orders.status
    code,      \* orders.last_error_code, of those that stop a refund
    known,     \* the orders with a stripe_payment_intent_id
    grants,    \* how often a pack's credits were granted
    live,      \* the packs whose credits are on the account
    took,      \* the packs whose credits a dispute revoked and has not given back
    row,       \* stripe_disputes.status, of a payment's dispute
    ours,      \* the packs whose dispute's row names the account
    blocked,   \* users.sends_blocked_reason = 'payment_disputed'
    opening,   \* where the call of createPackCheckout is
    asked,     \* what requestRefund heard of a payment's refund and has yet to record
    event,     \* stripe_webhook_events, and what is on its way
    odd,       \* the packs whose session is of more than the pack's price
    late,      \* history: the packs whose money was recovered after their order had the intent
    checkout, refund, dispute   \* Stripe's truth

orders == <<status, code, known>>
letters == <<grants, live, took>>
disputeRows == <<row, ours, blocked>>
stripe == <<checkout, refund, dispute>>
marks == <<odd, late>>
packVars == <<orders, letters, disputeRows, opening, asked, event, marks, stripe>>

-----------------------------------------------------------------------------
(* The rows, and what Stripe says. *)

PackStatus == {"none", "checkout_pending", "fulfilled", "payment_failed", "cancelled",
               "refund_pending", "refunded", "disputed"}
\* FUNDED_OR_REVERSED_ORDER_STATUSES
FundedWithoutFulfilledMutant == {"refund_pending", "refunded", "disputed"}
Funded == {"fulfilled", "refund_pending", "refunded", "disputed"}

PaymentState == {"none", "open", "processing", "paid", "failed", "expired"}
RefundState == {"none", "part", "pending", "succeeded", "failed"}
DisputeState == {"none", "inquiry", "open", "won", "lost", "warning_closed"}
Loss == {"open", "lost"}   \* all but NON_LOSS_DISPUTE_STATUSES
Closed == {"won", "lost", "warning_closed"}

\* completed_later: the session is complete, its payment still on its way.  reconciled: the
\* sweep's own event, of a session it retrieved.
SessionWord == {"completed", "completed_later", "succeeded", "failed", "expired", "reconciled"}
RefundWord == {"refund_part", "refund_pending", "refund_succeeded", "refund_failed"}
DisputeWord == {"inquiry", "opened", "closed"}
Words == SessionWord \cup RefundWord \cup DisputeWord

\* blind: its transaction looked for the order, found none, and has yet to commit.  checked:
\* it has also locked the dispute's row and found that no order appeared meanwhile.
Stage == {"unsent", "sent", "blind", "checked", "unmatched", "handled"}

UnmatchedOf(p) == {w \in Words : event[p][w] = "unmatched"}
Hearing(p, stages) == \E w \in DisputeWord : event[p][w] \in stages

Becomes(p, w, stage) == [event EXCEPT ![p][w] = stage]
Sent(p, w) == Becomes(p, w, "sent")

PackInit ==
    /\ status = [p \in Packs |-> "none"]
    /\ code = [p \in Packs |-> "none"]
    /\ known = {}
    /\ grants = [p \in Packs |-> 0]
    /\ live = {} /\ took = {}
    /\ row = [p \in Packs |-> "none"]
    /\ ours = {} /\ blocked = FALSE
    \* a session an earlier version opened has no order
    /\ opening \in [Packs -> {"idle", "linked"}]
    /\ asked = [p \in Packs |-> "no"]
    /\ event = [p \in Packs |-> [w \in Words |-> "unsent"]]
    /\ odd \in SUBSET Packs /\ late = {}
    /\ checkout = [p \in Packs |-> IF opening[p] = "linked" THEN "open" ELSE "none"]
    /\ refund = [p \in Packs |-> "none"]
    /\ dispute = [p \in Packs |-> "none"]

-----------------------------------------------------------------------------
(* The checkout: createPackCheckout. *)

\* The order, unless the account is blocked.
InsertsOrder(p) ==
    /\ opening[p] = "idle" /\ ~blocked
    /\ opening' = [opening EXCEPT ![p] = "inserted"]
    /\ status' = [status EXCEPT ![p] = "checkout_pending"]
    /\ UNCHANGED <<code, known, letters, disputeRows, asked, event, marks, stripe>>

OpensSession(p) ==
    /\ opening[p] = "inserted"
    /\ opening' = [opening EXCEPT ![p] = "opened"]
    /\ checkout' = [checkout EXCEPT ![p] = "open"]
    /\ UNCHANGED <<orders, letters, disputeRows, asked, event, marks, refund, dispute>>

\* markCheckoutCreationFailure: only a fault of configuration cancels.
MarkCheckoutCreationFailure(p) ==
    /\ opening[p] = "inserted"
    /\ opening' = [opening EXCEPT ![p] = "over"]
    /\ \/ UNCHANGED status
       \/ status[p] = "checkout_pending" /\ status' = [status EXCEPT ![p] = "cancelled"]
    /\ UNCHANGED <<code, known, letters, disputeRows, asked, event, marks, stripe>>

\* attachCheckout, after which the customer is given the session's address.
AttachCheckout(p) ==
    /\ opening[p] = "opened"
    /\ opening' = [opening EXCEPT ![p] = "linked"]
    /\ UNCHANGED <<orders, letters, disputeRows, asked, event, marks, stripe>>

\* The process dies, or Stripe's answer is lost.
CallDies(p) ==
    /\ opening[p] \in {"inserted", "opened"}
    /\ opening' = [opening EXCEPT ![p] = "over"]
    /\ UNCHANGED <<orders, letters, disputeRows, asked, event, marks, stripe>>

\* runCommerceMaintenance: pack orders no session was attached to within a day.
CancelsOrphan(p) ==
    /\ status[p] = "checkout_pending" /\ opening[p] = "over"
    /\ status' = [status EXCEPT ![p] = "cancelled"]
    /\ UNCHANGED <<code, known, letters, disputeRows, opening, asked, event, marks, stripe>>

\* It asks Stripe about an attached session, and acts only on one paid or expired.
SweepRetrieves(p) ==
    /\ status[p] = "checkout_pending" /\ opening[p] = "linked"
    /\ checkout[p] \in {"paid", "expired"} /\ event[p]["reconciled"] = "unsent"
    /\ event' = Sent(p, "reconciled")
    /\ UNCHANGED <<orders, letters, disputeRows, opening, asked, marks, stripe>>

-----------------------------------------------------------------------------
(* What the customer, the bank and Stripe do. *)

SessionMoves(p, from, to, word) ==
    /\ checkout[p] = from
    /\ checkout' = [checkout EXCEPT ![p] = to]
    /\ event' = Sent(p, word)
    /\ UNCHANGED <<orders, letters, disputeRows, opening, asked, marks, refund, dispute>>

Pays(p) == opening[p] = "linked" /\ SessionMoves(p, "open", "paid", "completed")
PaysLater(p) == opening[p] = "linked" /\ SessionMoves(p, "open", "processing", "completed_later")
PaymentArrives(p) == SessionMoves(p, "processing", "paid", "succeeded")
PaymentFails(p) == SessionMoves(p, "processing", "failed", "failed")
SessionExpires(p) == SessionMoves(p, "open", "expired", "expired")

RefundMoves(p, to) ==
    /\ refund' = [refund EXCEPT ![p] = to]
    /\ event' = Sent(p, CASE to = "part" -> "refund_part"
                          [] to = "pending" -> "refund_pending"
                          [] to = "succeeded" -> "refund_succeeded"
                          [] to = "failed" -> "refund_failed")

\* Stripe refuses the refund of a charge under dispute.
Refundable(p) == checkout[p] = "paid" /\ dispute[p] \notin Loss

\* In Stripe's dashboard: of the whole payment, or of a part.
DashboardRefunds(p) ==
    /\ Refundable(p) /\ refund[p] = "none"
    /\ \E to \in {"part", "pending", "succeeded"} : RefundMoves(p, to)
    /\ UNCHANGED <<orders, letters, disputeRows, opening, asked, marks, checkout, dispute>>

RefundEnds(p) ==
    /\ refund[p] = "pending"
    /\ \E to \in {"succeeded", "failed"} : RefundMoves(p, to)
    /\ UNCHANGED <<orders, letters, disputeRows, opening, asked, marks, checkout, dispute>>

DisputeMoves(p, from, to, word) ==
    /\ checkout[p] = "paid" /\ dispute[p] = from
    /\ dispute' = [dispute EXCEPT ![p] = to]
    /\ event' = Sent(p, word)
    /\ UNCHANGED <<orders, letters, disputeRows, opening, asked, marks, checkout, refund>>

\* An inquiry of the bank takes no money; a chargeback does, at once.
BankInquires(p) == DisputeMoves(p, "none", "inquiry", "inquiry")
BankDisputes(p) == \E from \in {"none", "inquiry"} : DisputeMoves(p, from, "open", "opened")
InquiryCloses(p) == DisputeMoves(p, "inquiry", "warning_closed", "closed")
DisputeCloses(p) == \E to \in {"won", "lost"} : DisputeMoves(p, "open", to, "closed")

-----------------------------------------------------------------------------
(* A checkout event: processCheckoutSessionEvent, one transaction under the
   order's lock. *)

\* What the session in the event says of its payment.
News(p, w) ==
    CASE w \in {"completed", "succeeded"} -> "paid"
      [] w = "completed_later" -> "unpaid"
      [] w \in {"failed", "expired"} -> w
      [] w = "reconciled" -> checkout[p]

\* createLegacyPackOrder takes only a session of the pack's own price.
Adoptable(p) == p \notin odd

\* The order's status as the transaction reads it, adopted if there was none.
Before(p) == IF status[p] = "none" THEN "checkout_pending" ELSE status[p]

CheckoutEvent(p, w) ==
    /\ w \in SessionWord /\ event[p][w] = "sent"
    /\ status[p] = "none" => Adoptable(p)

\* A paid session no order can be tied to is unmatched money.
FindsNoOrder(p, w) ==
    /\ w \in SessionWord /\ event[p][w] = "sent"
    /\ status[p] = "none" /\ ~Adoptable(p)
    /\ event' = Becomes(p, w, IF News(p, w) = "paid" THEN "unmatched" ELSE "handled")
    /\ UNCHANGED <<orders, letters, disputeRows, opening, asked, marks, stripe>>

\* revokePackLots of the whole pack: what it takes depends on what is left.
Revokes(p, byDispute) ==
    /\ live' = live \ {p}
    /\ took' = IF byDispute THEN took \cup ({p} \cap live) ELSE took
    /\ UNCHANGED grants

\* applyRecoveredDisputes waits for the dispute's advisory lock where the order's committed
\* row has no intent, and for its row's lock otherwise.
DisputeIsFree(p) == ~Hearing(p, IF p \in known THEN {"checked"} ELSE {"blind", "checked"})

\* applyRecoveredDisputes: of a dispute not already the account's
TakesOver(p) == UnmatchedOf(p) \cap DisputeWord # {} /\ p \notin ours

\* Money heard of before: the order is stopped, and a dispute taken over, its loss applied as
\* if it had found the order.
RecoversMoney(p, w) ==
    LET disputed == UnmatchedOf(p) \cap DisputeWord # {}
        taken == TakesOver(p)
        loss == taken /\ row[p] \in Loss
    IN  /\ CheckoutEvent(p, w) /\ UnmatchedOf(p) # {}
        /\ disputed => DisputeIsFree(p)
        /\ status' = [status EXCEPT ![p] = IF disputed THEN "disputed" ELSE "refund_pending"]
        /\ code' = [code EXCEPT ![p] = IF @ = "mismatch" THEN @ ELSE "none"]
        /\ known' = known \cup {p}
        /\ event' = [event EXCEPT ![p] = [v \in Words |->
               IF v = w \/ v \in UnmatchedOf(p) THEN "handled" ELSE event[p][v]]]
        /\ ours' = IF taken THEN ours \cup {p} ELSE ours
        /\ blocked' = (blocked \/ loss)
        /\ IF loss /\ Before(p) # "checkout_pending" THEN Revokes(p, TRUE) ELSE UNCHANGED letters
        /\ late' = IF p \in known THEN late \cup {p} ELSE late
        /\ UNCHANGED <<row, opening, asked, odd, stripe>>

\* The session failed or expired: only an order still at Checkout follows it.
CheckoutFails(p, w) ==
    /\ CheckoutEvent(p, w) /\ UnmatchedOf(p) = {} /\ News(p, w) \in {"failed", "expired"}
    /\ status' = [status EXCEPT ![p] =
           IF Before(p) # "checkout_pending" THEN @
           ELSE IF News(p, w) = "failed" THEN "payment_failed" ELSE "cancelled"]
    \* an adopted order takes the session's intent, which an expired one has not
    /\ known' = IF status[p] = "none" /\ News(p, w) = "failed" THEN known \cup {p} ELSE known
    /\ event' = Becomes(p, w, "handled")
    /\ UNCHANGED <<code, letters, disputeRows, opening, asked, marks, stripe>>

TransitionPaidCheckout(p, w) ==
    LET paid == News(p, w) = "paid" /\ Before(p) \notin Funded
        grant == paid /\ p \notin odd
    IN  /\ CheckoutEvent(p, w) /\ UnmatchedOf(p) = {} /\ News(p, w) \in {"paid", "unpaid"}
        /\ status' = [status EXCEPT ![p] =
               IF grant THEN "fulfilled" ELSE IF paid THEN "refund_pending" ELSE Before(p)]
        /\ code' = [code EXCEPT ![p] = IF grant THEN "none" ELSE IF paid THEN "mismatch" ELSE @]
        /\ known' = known \cup {p}
        /\ grants' = [grants EXCEPT ![p] = IF grant THEN @ + 1 ELSE @]
        /\ live' = IF grant THEN live \cup {p} ELSE live
        /\ event' = Becomes(p, w, "handled")
        /\ UNCHANGED <<took, disputeRows, opening, asked, marks, stripe>>

-----------------------------------------------------------------------------
(* A refund event: processRefundEvent. *)

\* A refund of less than the payment is for a person: an alert and nothing else.  So is one
\* of the rest after a part, until the charge itself says that all of it went back.
CompletesThePayment(p, w) ==
    w = "refund_succeeded" \/ (w # "refund_part" /\ event[p]["refund_part"] = "unsent")

HearsRefund(p, w) ==
    LET acts == CompletesThePayment(p, w) /\ status[p] # "refunded"
        done == acts /\ w = "refund_succeeded"
    IN  /\ w \in RefundWord /\ event[p][w] = "sent" /\ p \in known
        /\ status' = [status EXCEPT ![p] =
               IF done THEN "refunded" ELSE IF acts THEN "refund_pending" ELSE @]
        /\ code' = [code EXCEPT ![p] =
               IF done /\ @ = "not_completed" THEN "none"
               ELSE IF acts /\ w = "refund_failed" /\ @ # "mismatch" THEN "not_completed" ELSE @]
        /\ IF done THEN Revokes(p, FALSE) ELSE UNCHANGED letters
        /\ event' = Becomes(p, w, "handled")
        /\ UNCHANGED <<known, disputeRows, opening, asked, marks, stripe>>

RefundFindsNoOrder(p, w) ==
    /\ w \in RefundWord /\ event[p][w] = "sent" /\ p \notin known
    /\ event' = Becomes(p, w, "blind")
    /\ UNCHANGED <<orders, letters, disputeRows, opening, asked, marks, stripe>>

RecordsUnmatchedRefund(p, w) ==
    /\ w \in RefundWord /\ event[p][w] = "blind"
    /\ event' = Becomes(p, w, "unmatched")
    /\ UNCHANGED <<orders, letters, disputeRows, opening, asked, marks, stripe>>

-----------------------------------------------------------------------------
(* A dispute event: processDisputeEvent, one of a dispute at a time. *)

Says(p, w) ==
    CASE w = "inquiry" -> "inquiry" [] w = "opened" -> "open" [] w = "closed" -> dispute[p]

SettledBefore(p, w) == w # "closed" /\ row[p] \in Closed
PriorLoss(p) == row[p] \in Loss /\ p \in ours
RecordedOnly(p, w) == SettledBefore(p, w) \/ (w # "closed" /\ PriorLoss(p))
\* keepStoredStatus
KeptLatestMutant(p, w) == Says(p, w)
Kept(p, w) ==
    IF SettledBefore(p, w) \/ (w # "closed" /\ PriorLoss(p) /\ Says(p, w) \notin Loss)
    THEN row[p] ELSE Says(p, w)

\* unblockAccountSends: while no other of the account's disputes is a loss
Unblocked(p) == blocked /\ \E q \in ours \ {p} : row[q] \in Loss

\* compensateDisputedPacks: what the dispute took, unless the order's refund is made or asked
CompensableAgainMutant(p) == p \in took
Compensable(p) == p \in took /\ status[p] \notin {"refunded", "refund_pending"}

HearsDispute(p, w) ==
    LET acts == ~RecordedOnly(p, w)
        loss == acts /\ Says(p, w) \in Loss
        won == acts /\ Says(p, w) = "won"
    IN  /\ w \in DisputeWord /\ event[p][w] = "sent"
        /\ p \in known /\ ~Hearing(p, {"blind", "checked"})
        /\ row' = [row EXCEPT ![p] = Kept(p, w)]
        /\ ours' = ours \cup {p}
        /\ status' = [status EXCEPT ![p] = IF acts THEN "disputed" ELSE @]
        /\ blocked' = IF loss THEN TRUE ELSE IF won THEN Unblocked(p) ELSE blocked
        /\ IF loss THEN Revokes(p, TRUE)
           ELSE IF won /\ Compensable(p)
           THEN live' = live \cup {p} /\ took' = took \ {p} /\ UNCHANGED grants
           ELSE UNCHANGED letters
        /\ event' = Becomes(p, w, "handled")
        /\ UNCHANGED <<code, known, opening, asked, marks, stripe>>

DisputeFindsNoOrder(p, w) ==
    /\ w \in DisputeWord /\ event[p][w] = "sent"
    /\ p \notin known /\ ~Hearing(p, {"blind", "checked"})
    /\ event' = Becomes(p, w, "blind")
    /\ UNCHANGED <<orders, letters, disputeRows, opening, asked, marks, stripe>>

\* It reads the dispute's row, locked, and looks for the order again: it fails if one is
\* there, and Stripe sends the event again.
LooksAgain(p, w) ==
    /\ w \in DisputeWord /\ event[p][w] = "blind"
    /\ event' = Becomes(p, w, IF p \in known THEN "sent" ELSE "checked")
    /\ UNCHANGED <<orders, letters, disputeRows, opening, asked, marks, stripe>>

RecordsUnmatchedDispute(p, w) ==
    /\ w \in DisputeWord /\ event[p][w] = "checked"
    /\ row' = [row EXCEPT ![p] = Kept(p, w)]
    /\ event' = Becomes(p, w, "unmatched")
    /\ UNCHANGED <<orders, letters, ours, blocked, opening, asked, marks, stripe>>

\* The transaction fails and Stripe sends the event again.
DeliveryFails(p, w) ==
    /\ event[p][w] \in {"blind", "checked"}
    /\ event' = Becomes(p, w, "sent")
    /\ UNCHANGED <<orders, letters, disputeRows, opening, asked, marks, stripe>>

-----------------------------------------------------------------------------
(* The sweep's refund of an order that waits for one: requestRefund. *)

MayRefund(p) ==
    status[p] = "refund_pending" /\ p \in known /\ code[p] \notin {"mismatch", "not_completed"}

\* It finds the payment's refund, or, with none that is the order's, makes one.
SweepAsks(p) ==
    /\ MayRefund(p) /\ asked[p] = "no"
    /\ IF refund[p] \in {"none", "part"}
       THEN /\ Refundable(p)
            /\ \E to \in {"pending", "succeeded"} :
                   RefundMoves(p, to) /\ asked' = [asked EXCEPT ![p] = to]
       ELSE asked' = [asked EXCEPT ![p] = refund[p]] /\ UNCHANGED <<refund, event>>
    /\ UNCHANGED <<orders, letters, disputeRows, opening, marks, checkout, dispute>>

\* Under the order's lock, and only if the order still waits for its refund.
SweepRecords(p) ==
    LET acts == status[p] = "refund_pending"
        done == acts /\ asked[p] = "succeeded"
    IN  /\ asked[p] # "no"
        /\ status' = [status EXCEPT ![p] = IF done THEN "refunded" ELSE @]
        /\ \/ code' = [code EXCEPT ![p] =
                  IF done /\ @ = "not_completed" THEN "none"
                  ELSE IF acts /\ asked[p] = "failed" /\ @ # "mismatch" THEN "not_completed"
                  ELSE @]
           \* a refund that ended holds the order only while the order names the same one
           \/ asked[p] = "failed" /\ UNCHANGED code
        /\ IF done THEN Revokes(p, FALSE) ELSE UNCHANGED letters
        /\ asked' = [asked EXCEPT ![p] = "no"]
        /\ UNCHANGED <<known, disputeRows, opening, event, marks, stripe>>

SweepDies(p) ==
    /\ asked[p] # "no"
    /\ asked' = [asked EXCEPT ![p] = "no"]
    /\ UNCHANGED <<orders, letters, disputeRows, opening, event, marks, stripe>>

\* Stripe's answer is lost: REFUND_REQUEST_FAILED, over a hold made meanwhile.
SweepFails(p) ==
    /\ asked[p] # "no" /\ status[p] = "refund_pending"
    /\ asked' = [asked EXCEPT ![p] = "no"]
    /\ code' = [code EXCEPT ![p] = "none"]
    /\ UNCHANGED <<status, known, letters, disputeRows, opening, event, marks, stripe>>

\* releaseAmountMismatchQuarantine: an operator lets the sweep refund a payment of another amount.
ReleasesQuarantine(p) ==
    /\ status[p] = "refund_pending" /\ code[p] = "mismatch"
    /\ code' = [code EXCEPT ![p] = "none"]
    /\ UNCHANGED <<status, known, letters, disputeRows, opening, asked, event, marks, stripe>>

-----------------------------------------------------------------------------
PackNext ==
    \E p \in Packs :
        \/ InsertsOrder(p) \/ OpensSession(p) \/ MarkCheckoutCreationFailure(p)
        \/ AttachCheckout(p) \/ CallDies(p) \/ CancelsOrphan(p) \/ SweepRetrieves(p)
        \/ Pays(p) \/ PaysLater(p) \/ PaymentArrives(p) \/ PaymentFails(p) \/ SessionExpires(p)
        \/ DashboardRefunds(p) \/ RefundEnds(p)
        \/ BankInquires(p) \/ BankDisputes(p) \/ InquiryCloses(p) \/ DisputeCloses(p)
        \/ SweepAsks(p) \/ SweepRecords(p) \/ SweepDies(p) \/ SweepFails(p)
        \/ ReleasesQuarantine(p)
        \/ \E w \in Words :
               \/ FindsNoOrder(p, w) \/ RecoversMoney(p, w) \/ CheckoutFails(p, w)
               \/ TransitionPaidCheckout(p, w)
               \/ HearsRefund(p, w) \/ RefundFindsNoOrder(p, w) \/ RecordsUnmatchedRefund(p, w)
               \/ HearsDispute(p, w) \/ DisputeFindsNoOrder(p, w) \/ LooksAgain(p, w)
               \/ RecordsUnmatchedDispute(p, w) \/ DeliveryFails(p, w)

PackSpec == PackInit /\ [][PackNext]_packVars

PackTypeOK ==
    /\ status \in [Packs -> PackStatus]
    /\ code \in [Packs -> {"none", "mismatch", "not_completed"}]
    /\ known \subseteq Packs /\ live \subseteq Packs /\ took \subseteq Packs
    /\ grants \in [Packs -> Nat]
    /\ row \in [Packs -> DisputeState] /\ ours \subseteq Packs /\ blocked \in BOOLEAN
    /\ opening \in [Packs -> {"idle", "inserted", "opened", "linked", "over"}]
    /\ asked \in [Packs -> {"no", "pending", "succeeded", "failed"}]
    /\ event \in [Packs -> [Words -> Stage]]
    /\ checkout \in [Packs -> PaymentState]
    /\ refund \in [Packs -> RefundState]
    /\ dispute \in [Packs -> DisputeState]
    /\ odd \subseteq Packs /\ late \subseteq Packs

-----------------------------------------------------------------------------
(* What must hold. *)

\* However many of its events say a checkout is paid, and whatever was heard before them, its
\* letters are granted once, for a payment of the pack's price.
GrantedOnce ==
    /\ PackTypeOK
    /\ \A p \in Packs : grants[p] <= 1 /\ (grants[p] = 1 => checkout[p] = "paid" /\ p \notin odd)

\* Letters of a payment that went back, or is withdrawn, are only there until an event on its
\* way is heard, or beside the alert of one that found no order.  The exception: money
\* recovered by a checkout event after another had told the intent, which resolves the alert.
MoneyBackTakesLetters ==
    \A p \in live :
        refund[p] = "succeeded" \/ dispute[p] \in Loss =>
            \/ \E w \in RefundWord \cup DisputeWord : event[p][w] \in {"sent", "blind", "checked"}
            \/ UnmatchedOf(p) # {}
            \/ p \in late

\* A loss recorded for the account has blocked it and taken the pack, with the exception
\* above, and nothing else blocks it.
LossesStand ==
    /\ \A p \in ours : row[p] \in Loss =>
           (blocked /\ p \notin live) \/ UnmatchedOf(p) # {} \/ p \in late
    /\ blocked => \E p \in ours : row[p] \in Loss

\* applyRecoveredDisputes of a dispute it takes over: "its row takes the order's account, which
\* processDisputeEvent reads as its effects ran".  An older event heard after a close that was
\* recorded while another transaction told the intent breaks it: README.
OursHadItsEffects == \A p \in ours : row[p] \in Loss => blocked

\* The sweep's comment on recovered orders: their refund "already exists, and requestRefund
\* discovers it (findPaymentRefund-first) rather than creating another".  One of a part of the
\* payment breaks it: README.
RefundIsFoundNotMade == [][\A p \in Packs : refund[p] = "part" => refund'[p] = "part"]_packVars

=============================================================================
