------------------------------- MODULE PayAndSend -------------------------------
(***************************************************************************)
(* One draft and the ways it can be paid for: checkouts of Pay & Send, a   *)
(* send from the balance, and the edits that may come between.             *)
(*                                                                         *)
(* A checkout is not one transaction.  It prepares an order under the      *)
(* draft's lock, asks Stripe for a session with nothing locked, and        *)
(* attaches the session to the order; two surfaces may do this at once.    *)
(* Stripe's word about the session comes back by a webhook, or by an       *)
(* hourly sweep that lists open checkouts first and asks about each later. *)
(***************************************************************************)
EXTENDS Integers

CONSTANTS
    MaxOrders,    \* bound of the model: rows of orders the draft may get
    Calls,        \* concurrent calls of createJitCheckout
    Requests,     \* what a call may send to Stripe: the price and its surface's return addresses
    MaxContent,   \* bound of the model: versions of the draft's content
    LoneFaults    \* whether a fault of configuration meets only orders without a session

ASSUME PayAndSendAssumption ==
    /\ MaxOrders \in Nat
    /\ MaxContent \in Nat \ {0}
    /\ Requests # {}
    /\ LoneFaults \in BOOLEAN

VARIABLES
    draft,    \* letter_drafts: its status, the version of its content, and what paid for its mail
    mail,     \* the letter: where it is, and the version of the content it prints
    order,    \* orders: status, stripeRequest, version shown, session attached, checkout_expires_at
    call,     \* what each checkout call is doing, and for which order
    session,  \* Stripe's truth: the Checkout Session of each order
    linked,   \* the orders whose checkout URL somebody was given
    claimed,  \* stripe_webhook_events: whose word about which session was processed
    listed    \* what the hourly sweep listed and has yet to ask Stripe about

rows == <<draft, mail, order>>
vars == <<rows, call, session, linked, claimed, listed>>

-----------------------------------------------------------------------------
(* The rows. *)

Orders == 1..MaxOrders   \* in the order of created_at
NoOrder == 0
Balance == -1            \* what paid for mail sent from the balance
Contents == 1..MaxContent
DraftStatus == {"pending", "consumed", "expired"}
MailStatus == {"none", "queued", "mailed", "failed"}
\* 'paid' is written and left within one transaction, so no row keeps it.
OrderStatus == {"none", "checkout_pending", "fulfillment_pending", "fulfilled",
                "refund_pending", "refunded", "cancelled", "payment_failed"}
\* How much of the checkout's window is left: enough for Stripe to open a session, too
\* little, or nothing.
Window == {"open", "short", "past"}
\* processing: an asynchronous payment is on its way.
SessionState == {"none", "open", "processing", "paid", "failed", "expired"}
Word == {"webhook", "reconcile"}


OrderRow == [status : OrderStatus, request : Requests, shown : Contents,
             attached : BOOLEAN, window : Window]
NoRow == [status |-> "none", request |-> CHOOSE r \in Requests : TRUE, shown |-> 1,
          attached |-> FALSE, window |-> "open"]

CallState == [pc : {"idle", "create", "attach"}, o : Orders \cup {NoOrder}]
Idle == [pc |-> "idle", o |-> NoOrder]

Init ==
    /\ draft = [status |-> "pending", content |-> 1, by |-> NoOrder]
    /\ mail = [status |-> "none", content |-> 1]
    /\ order = [o \in Orders |-> NoRow]
    /\ call = [c \in Calls |-> Idle]
    /\ session = [o \in Orders |-> "none"]
    /\ linked = {}
    /\ claimed = {}
    /\ listed = {}

\* ACTIVE_JIT_STATUSES, which the unique index allows one order of a draft to have.
Active == {"checkout_pending", "fulfillment_pending", "refund_pending"}
IsActive(o) == order[o].status \in Active
IsPending(o) == order[o].status = "checkout_pending"
IndexAllows(o) == \A p \in Orders \ {o} : ~IsActive(p)

-----------------------------------------------------------------------------
(* createJitCheckout. *)

IsReplacedWithSessionMutant(o, request) ==
    /\ IsPending(o)
    /\ order[o].window # "open" \/ order[o].request # request

\* An order whose session was never made, and that a retry would not reuse: its window is
\* too short for Stripe, or it recorded another price or other return addresses.
IsReplaced(o, request) ==
    /\ IsPending(o) /\ ~order[o].attached
    /\ order[o].window # "open" \/ order[o].request # request

\* prepareJitOrder makes an order, in the place of one that is replaced.
Insert(c, o, request) ==
    /\ call[c].pc = "idle"
    /\ draft.status = "pending"
    /\ \A p \in Orders : order[p].status = "none" <=> p >= o
    /\ \A p \in Orders : IsActive(p) => IsReplaced(p, request)
    /\ order' = [p \in Orders |->
                   IF p = o THEN [status |-> "checkout_pending", request |-> request,
                                  shown |-> draft.content, attached |-> FALSE, window |-> "open"]
                   ELSE IF IsActive(p) THEN [order[p] EXCEPT !.status = "cancelled"]
                   ELSE order[p]]
    /\ call' = [call EXCEPT ![c] = [pc |-> "create", o |-> o]]
    /\ UNCHANGED <<draft, mail, session, linked, claimed, listed>>

\* It reuses an order without a session when the retry would send Stripe the same request.
Reuse(c, o, request) ==
    /\ call[c].pc = "idle"
    /\ draft.status = "pending"
    /\ IsPending(o) /\ ~order[o].attached /\ ~IsReplaced(o, request)
    /\ call' = [call EXCEPT ![c] = [pc |-> "create", o |-> o]]
    /\ UNCHANGED <<rows, session, linked, claimed, listed>>

\* An order that has its session is handed back, with its URL while it can be paid.
HandBack(c, o) ==
    /\ call[c].pc = "idle"
    /\ draft.status = "pending"
    /\ IsPending(o) /\ order[o].attached
    /\ linked' = linked \cup {o}
    /\ UNCHANGED <<rows, call, session, claimed, listed>>

\* The mail date is full or missed: an order without a session is cancelled, so that it
\* does not hold the draft, and the call is refused.
RefuseSchedule(c, o) ==
    /\ call[c].pc = "idle"
    /\ draft.status = "pending"
    /\ IsPending(o) /\ ~order[o].attached
    /\ order' = [order EXCEPT ![o].status = "cancelled"]
    /\ UNCHANGED <<draft, mail, call, session, linked, claimed, listed>>

\* Stripe opens the session, or replays the one it opened for the same idempotency key.
StripeOpens(c) ==
    LET o == call[c].o IN
    /\ call[c].pc = "create"
    /\ \/ session[o] = "none" /\ order[o].window = "open"
             /\ session' = [session EXCEPT ![o] = "open"]
       \/ session[o] # "none" /\ UNCHANGED session
    /\ call' = [call EXCEPT ![c].pc = "attach"]
    /\ UNCHANGED <<rows, linked, claimed, listed>>

AttachGivesAnyLinkMutant(c) ==
    LET o == call[c].o IN
    /\ call[c].pc = "attach"
    /\ order' = [order EXCEPT ![o].attached = TRUE]
    /\ linked' \in {linked, linked \cup {o}}
    /\ call' = [call EXCEPT ![c] = Idle]
    /\ UNCHANGED <<draft, mail, session, claimed, listed>>

\* attachCheckout looks at no status; both callers give the URL of a pending order only.
\* The answer may be lost on its way.
Attach(c) ==
    LET o == call[c].o IN
    /\ call[c].pc = "attach"
    /\ order' = [order EXCEPT ![o].attached = TRUE]
    /\ linked' \in {linked, linked \cup {p \in {o} : IsPending(p)}}
    /\ call' = [call EXCEPT ![c] = Idle]
    /\ UNCHANGED <<draft, mail, session, claimed, listed>>

\* The call to Stripe fails in a way a retry may clear, its answer is lost, or the process
\* dies: the order stays for a retry.
FailTransiently(c) ==
    /\ call[c].pc # "idle"
    /\ call' = [call EXCEPT ![c] = Idle]
    /\ UNCHANGED <<rows, session, linked, claimed, listed>>

\* markCheckoutCreationFailure for a fault no retry clears: a pending order is cancelled.
FailTerminally(c) ==
    LET o == call[c].o IN
    /\ call[c].pc = "create"
    /\ LoneFaults => ~order[o].attached
    /\ order' = [order EXCEPT ![o].status = IF @ = "checkout_pending" THEN "cancelled" ELSE @]
    /\ call' = [call EXCEPT ![c] = Idle]
    /\ UNCHANGED <<draft, mail, session, linked, claimed, listed>>

-----------------------------------------------------------------------------
(* Stripe, the customer and time. *)

CustomerPays(o) ==
    /\ o \in linked
    /\ session[o] = "open"
    /\ \E s \in {"paid", "processing"} : session' = [session EXCEPT ![o] = s]
    /\ UNCHANGED <<rows, call, linked, claimed, listed>>

BankDecides(o) ==
    /\ session[o] = "processing"
    /\ \E s \in {"paid", "failed"} : session' = [session EXCEPT ![o] = s]
    /\ UNCHANGED <<rows, call, linked, claimed, listed>>

\* The session closes at the order's checkout_expires_at.
StripeExpires(o) ==
    /\ session[o] = "open"
    /\ order[o].window = "past"
    /\ session' = [session EXCEPT ![o] = "expired"]
    /\ UNCHANGED <<rows, call, linked, claimed, listed>>

\* Half an hour lies between short and past, far more than a call to Stripe takes.
WindowCloses(o) ==
    /\ order[o].status # "none"
    /\ \/ order[o].window = "open"
             /\ order' = [order EXCEPT ![o].window = "short"]
       \/ order[o].window = "short" /\ (\A c \in Calls : call[c].o # o)
             /\ order' = [order EXCEPT ![o].window = "past"]
    /\ UNCHANGED <<draft, mail, call, session, linked, claimed, listed>>

\* No checkout's window outlasts the draft it was made for.
DraftExpires ==
    /\ draft.status = "pending"
    /\ \A o \in Orders : order[o].status = "none" \/ order[o].window = "past"
    /\ draft' = [draft EXCEPT !.status = "expired"]
    /\ UNCHANGED <<mail, order, call, session, linked, claimed, listed>>

-----------------------------------------------------------------------------
(* Edits, and sends from the balance. *)

IsHeldClosedAtWindowMutant(o) ==
    IsActive(o) /\ (IsPending(o) => order[o].window # "past")

\* The orders that keep lockChangeableDraft from an edit: a checkout past its window does
\* not, unless its session was opened.
IsHeld(o) == IsActive(o) /\ (IsPending(o) => order[o].window # "past" \/ order[o].attached)

Edit ==
    /\ draft.status = "pending"
    /\ draft.content < MaxContent
    /\ \A o \in Orders : ~IsHeld(o)
    /\ draft' = [draft EXCEPT !.content = @ + 1]
    /\ UNCHANGED <<mail, order, call, session, linked, claimed, listed>>

\* A send counts a checkout past its window as closed even while its session is open.
SendFromBalance ==
    /\ draft.status = "pending"
    /\ \A o \in Orders : IsActive(o) => IsPending(o) /\ order[o].window = "past"
    /\ draft' = [draft EXCEPT !.status = "consumed", !.by = Balance]
    /\ mail' = [status |-> "queued", content |-> draft.content]
    /\ UNCHANGED <<order, call, session, linked, claimed, listed>>

\* What the outbox makes of the mail; a definite failure returns a Pay & Send payment.
OutboxEnds ==
    /\ mail.status = "queued"
    /\ \E s \in {"mailed", "failed"} :
         /\ mail' = [mail EXCEPT !.status = s]
         /\ order' = [o \in Orders |->
                        IF o = draft.by /\ order[o].status = "fulfillment_pending"
                        THEN [order[o] EXCEPT !.status = IF s = "mailed" THEN "fulfilled" ELSE "refund_pending"]
                        ELSE order[o]]
    /\ UNCHANGED <<draft, call, session, linked, claimed, listed>>

-----------------------------------------------------------------------------
(* processCheckoutSessionEvent: one transaction that claims the event and does its work. *)

FundedOrReversed == {"fulfillment_pending", "fulfilled", "refund_pending", "refunded"}
IsPaid(o) == session[o] = "paid"

\* transitionPaidCheckout: the order becomes status, and the mail what pays for it.
BecomesMail(o) ==
    /\ draft.status = "pending" \/ draft.by = o
    /\ order' = [order EXCEPT ![o].status = "fulfillment_pending", ![o].attached = TRUE]
    /\ mail' = IF draft.by = o THEN mail ELSE [status |-> "queued", content |-> draft.content]
    /\ draft' = [draft EXCEPT !.status = "consumed", !.by = o]

\* The fulfilment was rejected behind its savepoint: the draft is gone or its mail paid by
\* something else, or a statement failed.  Or the amount paid is not the order's.
BecomesRefund(o) ==
    /\ order' = [order EXCEPT ![o].status = "refund_pending", ![o].attached = TRUE]
    /\ UNCHANGED <<draft, mail>>

TakePaymentAgainMutant(o) ==
    /\ IndexAllows(o)
    /\ BecomesMail(o) \/ BecomesRefund(o)

TakePayment(o) ==
    IF order[o].status \in FundedOrReversed THEN UNCHANGED rows
    ELSE /\ IndexAllows(o)
         /\ BecomesMail(o) \/ BecomesRefund(o)

\* A session that closed unpaid ends a pending order, and no other.
CloseUnpaid(o, status) ==
    /\ order' = [order EXCEPT ![o].status = IF @ = "checkout_pending" THEN status ELSE @]
    /\ UNCHANGED <<draft, mail>>

ProcessPaymentsOnlyMutant(o, word) ==
    /\ <<o, word>> \notin claimed
    /\ claimed' = claimed \cup {<<o, word>>}
    /\ \/ IsPaid(o) /\ TakePayment(o)
       \/ session[o] \in {"expired", "failed"} /\ word = "webhook"
             /\ CloseUnpaid(o, IF session[o] = "expired" THEN "cancelled" ELSE "payment_failed")

Process(o, word) ==
    /\ <<o, word>> \notin claimed
    /\ claimed' = claimed \cup {<<o, word>>}
    /\ \/ IsPaid(o) /\ TakePayment(o)
       \/ session[o] = "expired" /\ CloseUnpaid(o, "cancelled")
       \/ session[o] = "failed" /\ word = "webhook" /\ CloseUnpaid(o, "payment_failed")

\* Stripe's event, late or never; its duplicates find it claimed.
Webhook(o) ==
    /\ order[o].status # "none"
    /\ Process(o, "webhook")
    /\ UNCHANGED <<call, session, linked, listed>>

-----------------------------------------------------------------------------
(* runCommerceMaintenance. *)

ListOpenCheckouts ==
    /\ listed = {}
    /\ listed' = {o \in Orders : IsPending(o) /\ order[o].attached}
    /\ listed' # {}
    /\ UNCHANGED <<rows, call, session, linked, claimed>>

\* Stripe's word about a listed order, recorded under the sweep's own event id.
Reconcile(o) ==
    /\ o \in listed
    /\ listed' = listed \ {o}
    /\ Process(o, "reconcile")
    /\ UNCHANGED <<call, session, linked>>

\* Nothing to record: the session is open still, or its payment in progress or failed; Stripe
\* does not answer; or the run dies.
PassOver(o) ==
    /\ o \in listed
    /\ listed' = listed \ {o}
    /\ UNCHANGED <<rows, call, session, linked, claimed>>

\* Checkouts whose session was never made, past their window.
CancelOrphans ==
    LET orphans == {o \in Orders : IsPending(o) /\ ~order[o].attached /\ order[o].window = "past"} IN
    /\ orphans # {}
    /\ order' = [o \in Orders |-> IF o \in orphans THEN [order[o] EXCEPT !.status = "cancelled"]
                                  ELSE order[o]]
    /\ UNCHANGED <<draft, mail, call, session, linked, claimed, listed>>

\* Stripe says that the refund of an order succeeded: to the sweep that asked for it, or in
\* an event.
RefundSucceeds(o) ==
    /\ order[o].status = "refund_pending"
    /\ order' = [order EXCEPT ![o].status = "refunded"]
    /\ UNCHANGED <<draft, mail, call, session, linked, claimed, listed>>

-----------------------------------------------------------------------------

Checkout(c) ==
    \/ \E o \in Orders, request \in Requests : Insert(c, o, request) \/ Reuse(c, o, request)
    \/ \E o \in Orders : HandBack(c, o) \/ RefuseSchedule(c, o)
    \/ StripeOpens(c) \/ Attach(c) \/ FailTransiently(c) \/ FailTerminally(c)

Maintenance(o) == Reconcile(o) \/ PassOver(o) \/ RefundSucceeds(o)

Environment(o) == CustomerPays(o) \/ BankDecides(o) \/ StripeExpires(o) \/ WindowCloses(o)

Next ==
    \/ \E c \in Calls : Checkout(c)
    \/ \E o \in Orders : Environment(o) \/ Webhook(o) \/ Maintenance(o)
    \/ ListOpenCheckouts \/ CancelOrphans
    \/ DraftExpires \/ Edit \/ SendFromBalance \/ OutboxEnds

Spec == Init /\ [][Next]_vars

\* The hourly sweeps run, and not every question to Stripe fails.  Of webhooks only the one
\* about a payment that failed must arrive, since no sweep asks for it.
FairSpec ==
    /\ Spec
    /\ WF_vars(ListOpenCheckouts) /\ WF_vars(CancelOrphans)
    /\ \A o \in Orders :
         /\ WF_vars(PassOver(o)) /\ SF_vars(Reconcile(o))
         /\ WF_vars(session[o] = "failed" /\ Webhook(o))

-----------------------------------------------------------------------------
(* Properties. *)

TypeOK ==
    /\ draft \in [status : DraftStatus, content : Contents, by : Orders \cup {NoOrder, Balance}]
    /\ mail \in [status : MailStatus, content : Contents]
    /\ order \in [Orders -> OrderRow]
    /\ call \in [Calls -> CallState]
    /\ session \in [Orders -> SessionState]
    /\ linked \subseteq Orders
    /\ claimed \subseteq Orders \X Word
    /\ listed \subseteq Orders

\* What was paid for is what is mailed: the mail of an order prints the version that was
\* shown when its checkout was made, although nothing compares them again at fulfilment.
PaidMailIsAsShown == draft.by \in Orders => mail.content = order[draft.by].shown

\* One draft, one charge: no two of its orders can be paid, or have been, but for one whose
\* money is on its way back.
IsPayable(o) == o \in linked /\ session[o] \in {"open", "processing"}
OneCharge ==
    \A o, p \in Orders :
        /\ o # p
        /\ IsPayable(o) \/ (IsPaid(o) /\ order[o].status \notin {"refund_pending", "refunded"})
        => ~IsPayable(p)

\* Money that goes back paid for no mail, whatever the order and number of Stripe's words.
MailOrMoney ==
    \A o \in Orders :
        order[o].status \in {"refund_pending", "refunded"} /\ draft.by = o => mail.status = "failed"

\* A draft costs one payment, and a payment buys mail or goes back.
ChargesAreSound == OneCharge /\ MailOrMoney

\* A checkout whose session is attached is closed by Stripe's word alone.
OnlyStripeCloses ==
    [][\A o \in Orders :
         IsPending(o) /\ order[o].attached /\ order'[o].status = "cancelled"
             => session[o] = "expired"]_vars

\* Every payment becomes mail or goes back, even if no webhook about it ever arrives.
PaymentIsAnswered ==
    \A o \in Orders : IsPaid(o) ~> order[o].status \in FundedOrReversed

\* A checkout nobody can pay any more does not hold its draft for ever.
IsDead(o) ==
    \/ session[o] \in {"expired", "failed"}
    \/ ~order[o].attached /\ order[o].window = "past"
DraftIsReleased ==
    \A o \in Orders : IsPending(o) /\ IsDead(o) ~> ~IsPending(o)

\* No checkout stays open on anyone: what the webhooks and the sweep of checkouts
\* (runCommerceMaintenance) promise together.
CheckoutEnds == PaymentIsAnswered /\ DraftIsReleased

=============================================================================
