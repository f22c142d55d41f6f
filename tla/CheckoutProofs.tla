----------------------------- MODULE CheckoutProofs -----------------------------
(***************************************************************************)
(* That Pay & Send mails what was shown, takes one charge at a time, and   *)
(* never both mails and gives back, for any number of orders, calls and    *)
(* edits.  The argument: a checkout URL is only given for a pending order  *)
(* with its session attached, and nothing but Stripe's word closes such an *)
(* order; so until that word the order is the draft's only active one, and *)
(* holds its content.                                                      *)
(*                                                                         *)
(* Then, from PackInv on, that a letter pack is granted once and does not  *)
(* outlive its money, for any number of packs of an account and any order  *)
(* of what is heard.  The argument: an event is sent once, of what Stripe  *)
(* then was; one that was heard of a loss has left it in the dispute's     *)
(* row, and a row that is the account's has had its effects, unless money  *)
(* still waits for a checkout event or was recovered late.                 *)
(***************************************************************************)
EXTENDS PayAndSend, PackPayments, TLAPS

USE DEF Orders, NoOrder, Balance, Contents

\* What a call holds: an order that exists, whose window outlasts the call.
CallInv ==
    \A c \in Calls :
        call[c].pc # "idle" =>
            /\ call[c].o \in Orders
            /\ order[call[c].o].status # "none"
            /\ order[call[c].o].window # "past"
            /\ call[c].pc = "attach" => session[call[c].o] # "none"

\* An order in the outbox, or through it, leaves no other order of its draft active.
Engaged == Active \cup {"fulfilled"}
OneActive ==
    \A o, p \in Orders : o # p /\ order[o].status \in Engaged => order[p].status \notin Active

\* An order that can be paid is pending, with its session attached; one that was paid is
\* pending still, or was answered.
LinkInv ==
    \A o \in Orders :
        /\ order[o].attached => order[o].status # "none" /\ session[o] # "none"
        /\ o \in linked => order[o].attached
        /\ session[o] \in {"processing", "paid", "failed"} => o \in linked
        /\ o \in linked /\ session[o] \in {"open", "processing"} => order[o].status = "checkout_pending"
        /\ session[o] = "paid" => order[o].status \in FundedOrReversed \cup {"checkout_pending"}

\* An order that keeps its draft from edits was shown what the draft has.
HeldAsShown ==
    draft.status = "pending" => \A o \in Orders : IsHeld(o) => order[o].shown = draft.content

\* What became of the mail an order paid for.
FateInv ==
    /\ draft.status = "pending" => draft.by = NoOrder
    /\ \A o \in Orders : order[o].status \in {"fulfillment_pending", "fulfilled"} => draft.by = o
    /\ \A o \in Orders : draft.by = o =>
          /\ mail.content = order[o].shown
          /\ \/ mail.status = "queued" /\ order[o].status = "fulfillment_pending"
             \/ mail.status = "mailed" /\ order[o].status = "fulfilled"
             \/ mail.status = "failed" /\ order[o].status \in {"refund_pending", "refunded"}

MoneyInv == OneActive /\ LinkInv /\ HeldAsShown /\ FateInv
PayInv == TypeOK /\ CallInv /\ MoneyInv

-----------------------------------------------------------------------------
\* Each way a row of orders may change keeps its type.
LEMMA RowTyped ==
    ASSUME NEW r \in OrderRow
    PROVE  /\ \A s \in OrderStatus : [r EXCEPT !.status = s] \in OrderRow
           /\ \A w \in Window : [r EXCEPT !.window = w] \in OrderRow
           /\ [r EXCEPT !.attached = TRUE] \in OrderRow
           /\ \A s \in OrderStatus : [r EXCEPT !.status = s, !.attached = TRUE] \in OrderRow
  BY DEF OrderRow

\* The initial state has the types and satisfies the rest.
LEMMA PayInit == Init => PayInv
<1> SUFFICES ASSUME Init PROVE PayInv
  OBVIOUS
<1> USE PayAndSendAssumption
<1>1. NoRow \in OrderRow
  BY DEF NoRow, OrderRow, OrderStatus, Window
<1>2. TypeOK
  BY <1>1 DEF Init, TypeOK, Idle, CallState, DraftStatus, MailStatus, SessionState
<1>3. CallInv
  BY DEF Init, CallInv, Idle
<1>4. MoneyInv
  BY DEF Init, MoneyInv, OneActive, LinkInv, HeldAsShown, FateInv, IsHeld, IsActive, NoRow, Engaged, Active
<1> QED
  BY <1>2, <1>3, <1>4 DEF PayInv

\* Every step keeps the types.
LEMMA PayTypeStep == TypeOK /\ CallInv /\ [Next]_vars => TypeOK'
<1> SUFFICES ASSUME TypeOK, CallInv, [Next]_vars PROVE TypeOK'
  OBVIOUS
<1> USE PayAndSendAssumption
<1>r. \A o \in Orders : order[o] \in OrderRow
  BY DEF TypeOK
<1>i. Idle \in CallState
  BY DEF Idle, CallState
<1>c. \A c \in Calls, o \in Orders :
        /\ [pc |-> "create", o |-> o] \in CallState
        /\ [call[c] EXCEPT !.pc = "attach"] \in CallState
  BY DEF CallState, TypeOK
<1>1. ASSUME NEW c \in Calls, NEW o \in Orders, NEW request \in Requests, Insert(c, o, request)
      PROVE  TypeOK'
  <2>1. [status |-> "checkout_pending", request |-> request, shown |-> draft.content,
         attached |-> FALSE, window |-> "open"] \in OrderRow
    BY DEF OrderRow, OrderStatus, Window, TypeOK
  <2>2. \A p \in Orders : [order[p] EXCEPT !.status = "cancelled"] \in OrderRow
    BY <1>r, RowTyped DEF OrderStatus
  <2>3. order' \in [Orders -> OrderRow]
    BY <1>1, <1>r, <2>1, <2>2 DEF Insert
  <2> QED
    BY <1>1, <1>c, <2>3 DEF Insert, TypeOK
<1>2. ASSUME NEW c \in Calls, NEW o \in Orders, NEW request \in Requests, Reuse(c, o, request)
      PROVE  TypeOK'
  BY <1>2, <1>c DEF Reuse, TypeOK, rows
<1>3. ASSUME NEW c \in Calls, NEW o \in Orders, HandBack(c, o) \/ RefuseSchedule(c, o)
      PROVE  TypeOK'
  <2>1. [order[o] EXCEPT !.status = "cancelled"] \in OrderRow
    BY <1>r, RowTyped DEF OrderStatus
  <2> QED
    BY <1>3, <2>1 DEF HandBack, RefuseSchedule, TypeOK, rows
<1>4. ASSUME NEW c \in Calls,
             StripeOpens(c) \/ Attach(c) \/ FailTransiently(c) \/ FailTerminally(c)
      PROVE  TypeOK'
  <2>1. call[c].pc # "idle" => call[c].o \in Orders
    BY DEF CallInv
  <2>2. \A o \in Orders : [order[o] EXCEPT !.attached = TRUE] \in OrderRow
    BY <1>r, RowTyped
  <2>3. \A o \in Orders : [order[o] EXCEPT !.status = IF @ = "checkout_pending" THEN "cancelled" ELSE @] \in OrderRow
    <3> TAKE o \in Orders
    <3>1. CASE order[o].status = "checkout_pending"
      BY <3>1, <1>r, RowTyped DEF OrderStatus
    <3>2. CASE order[o].status # "checkout_pending"
      BY <3>2, <1>r DEF OrderRow
    <3> QED
      BY <3>1, <3>2
  <2>4. CASE StripeOpens(c)
    <3>1. session' \in [Orders -> SessionState]
      BY <2>4 DEF StripeOpens, TypeOK, SessionState
    <3>2. call' \in [Calls -> CallState]
      BY <2>4, <2>1, <1>c DEF StripeOpens, TypeOK
    <3> QED
      BY <2>4, <3>1, <3>2 DEF StripeOpens, TypeOK, rows
  <2>5. CASE Attach(c)
    BY <2>5, <2>1, <2>2, <1>i DEF Attach, TypeOK
  <2>6. CASE FailTransiently(c)
    BY <2>6, <1>i DEF FailTransiently, TypeOK, rows
  <2>7. CASE FailTerminally(c)
    BY <2>7, <2>1, <2>3, <1>i DEF FailTerminally, TypeOK
  <2> QED
    BY <1>4, <2>4, <2>5, <2>6, <2>7
<1>5. ASSUME NEW o \in Orders, CustomerPays(o) \/ BankDecides(o) \/ StripeExpires(o) PROVE TypeOK'
  <2>1. \A s \in {"paid", "processing", "failed", "expired"} :
          [session EXCEPT ![o] = s] \in [Orders -> SessionState]
    BY DEF TypeOK, SessionState
  <2>2. session' \in [Orders -> SessionState]
    BY <1>5, <2>1 DEF CustomerPays, BankDecides, StripeExpires
  <2>3. UNCHANGED <<rows, call, linked, claimed, listed>>
    BY <1>5 DEF CustomerPays, BankDecides, StripeExpires
  <2> QED
    BY <2>2, <2>3 DEF TypeOK, rows
<1>6. ASSUME NEW o \in Orders, WindowCloses(o) \/ RefundSucceeds(o) PROVE TypeOK'
  <2>1. /\ [order[o] EXCEPT !.window = "short"] \in OrderRow
        /\ [order[o] EXCEPT !.window = "past"] \in OrderRow
        /\ [order[o] EXCEPT !.status = "refunded"] \in OrderRow
    BY <1>r, RowTyped DEF OrderStatus, Window
  <2>2. CASE WindowCloses(o)
    BY <2>1, <2>2 DEF WindowCloses, TypeOK
  <2>3. CASE RefundSucceeds(o)
    BY <2>1, <2>3 DEF RefundSucceeds, TypeOK
  <2> QED
    BY <1>6, <2>2, <2>3
<1>7. ASSUME NEW o \in Orders, NEW word \in Word, Process(o, word)
      PROVE  /\ order' \in [Orders -> OrderRow] /\ claimed' \subseteq Orders \X Word
             /\ draft' \in [status : DraftStatus, content : Contents, by : Orders \cup {NoOrder, Balance}]
             /\ mail' \in [status : MailStatus, content : Contents]
  <2>1. \A s \in OrderStatus :
          /\ [order[o] EXCEPT !.status = s, !.attached = TRUE] \in OrderRow
          /\ [order[o] EXCEPT !.status = IF @ = "checkout_pending" THEN s ELSE @] \in OrderRow
    BY <1>r DEF OrderRow
  <2>2. {"fulfillment_pending", "refund_pending", "cancelled", "payment_failed"} \subseteq OrderStatus
    BY DEF OrderStatus
  <2>3. claimed' \subseteq Orders \X Word
    BY <1>7 DEF Process, TypeOK
  <2>4. CASE BecomesMail(o)
    BY <2>1, <2>2, <2>3, <2>4 DEF BecomesMail, TypeOK, DraftStatus, MailStatus
  <2>5. CASE BecomesRefund(o)
    BY <2>1, <2>2, <2>3, <2>5 DEF BecomesRefund, TypeOK
  <2>6. CASE UNCHANGED rows
    BY <2>3, <2>6 DEF rows, TypeOK
  <2>7. CASE CloseUnpaid(o, "cancelled") \/ CloseUnpaid(o, "payment_failed")
    <3>1. \A s \in {"cancelled", "payment_failed"} :
            [order[o] EXCEPT !.status = IF @ = "checkout_pending" THEN s ELSE @] \in OrderRow
      BY <2>1, <2>2
    <3>2. order' \in [Orders -> OrderRow]
      BY <2>7, <3>1 DEF CloseUnpaid, TypeOK
    <3> QED
      BY <2>3, <2>7, <3>2 DEF CloseUnpaid, TypeOK
  <2> QED
    BY <1>7, <2>4, <2>5, <2>6, <2>7 DEF Process, TakePayment
<1>8. ASSUME NEW o \in Orders, Webhook(o) \/ Reconcile(o) \/ PassOver(o) PROVE TypeOK'
  BY <1>8, <1>7 DEF Webhook, Reconcile, PassOver, TypeOK, rows, Word
<1>9. CASE CancelOrphans \/ OutboxEnds
  <2>1. \A o \in Orders, s \in {"cancelled", "fulfilled", "refund_pending"} :
          [order[o] EXCEPT !.status = s] \in OrderRow
    BY <1>r, RowTyped DEF OrderStatus
  <2>2. order' \in [Orders -> OrderRow]
    BY <1>9, <1>r, <2>1 DEF CancelOrphans, OutboxEnds
  <2> QED
    BY <1>9, <2>2 DEF CancelOrphans, OutboxEnds, TypeOK, MailStatus
<1>10. CASE ListOpenCheckouts \/ DraftExpires \/ Edit \/ SendFromBalance
  <2>1. CASE ListOpenCheckouts
    BY <2>1 DEF ListOpenCheckouts, TypeOK, rows
  <2>2. CASE DraftExpires
    BY <2>2 DEF DraftExpires, TypeOK, DraftStatus
  <2>3. CASE Edit
    <3>1. draft.content \in Contents /\ draft.content < MaxContent
      BY <2>3 DEF Edit, TypeOK
    <3>2. draft.content + 1 \in Contents
      BY <3>1
    <3> QED
      BY <2>3, <3>2 DEF Edit, TypeOK
  <2>4. CASE SendFromBalance
    BY <2>4 DEF SendFromBalance, TypeOK, DraftStatus, MailStatus
  <2> QED
    BY <1>10, <2>1, <2>2, <2>3, <2>4
<1>11. CASE UNCHANGED vars
  BY <1>11 DEF vars, rows, TypeOK
<1> QED
  BY <1>1, <1>2, <1>3, <1>4, <1>5, <1>6, <1>8, <1>9, <1>10, <1>11
  DEF Next, Checkout, Maintenance, Environment

-----------------------------------------------------------------------------
\* What Stripe's word may do to an order.
LEMMA WordCases ==
    ASSUME NEW o \in Orders, NEW word \in Word, Process(o, word)
    PROVE  \/ UNCHANGED rows
           \/ /\ session[o] = "paid" /\ order[o].status \notin FundedOrReversed
              /\ BecomesMail(o) \/ BecomesRefund(o)
           \/ session[o] = "expired" /\ CloseUnpaid(o, "cancelled")
           \/ session[o] = "failed" /\ CloseUnpaid(o, "payment_failed")
  BY DEF Process, TakePayment, IsPaid

\* What the orders are once one of them has another status, and may have its session attached.
LEMMA StatusChanges ==
    ASSUME TypeOK, NEW o \in Orders, NEW s \in OrderStatus,
           \/ order' = [order EXCEPT ![o].status = s]
           \/ order' = [order EXCEPT ![o].status = s, ![o].attached = TRUE]
    PROVE  \A p \in Orders :
             /\ order'[p].status = IF p = o THEN s ELSE order[p].status
             /\ order'[p].shown = order[p].shown /\ order'[p].window = order[p].window
             /\ order[p].attached => order'[p].attached
             /\ order'[p].attached => order[p].attached \/ p = o
<1>1. order \in [Orders -> OrderRow]
  BY DEF TypeOK
<1>2. CASE order' = [order EXCEPT ![o].status = s]
  BY <1>1, <1>2 DEF OrderRow
<1>3. CASE order' = [order EXCEPT ![o].status = s, ![o].attached = TRUE]
  BY <1>1, <1>3 DEF OrderRow
<1> QED
  BY <1>2, <1>3

\* The same of a transaction that puts Stripe's word on record.
LEMMA WordChanges ==
    ASSUME TypeOK, NEW o \in Orders, NEW word \in Word, Process(o, word)
    PROVE  \/ UNCHANGED rows
           \/ \E s \in {"fulfillment_pending", "refund_pending", "cancelled", "payment_failed"} :
                \/ order' = [order EXCEPT ![o].status = s]
                \/ order' = [order EXCEPT ![o].status = s, ![o].attached = TRUE]
<1>1. CASE BecomesMail(o) \/ BecomesRefund(o)
  BY <1>1 DEF BecomesMail, BecomesRefund
<1>2. ASSUME NEW s \in {"cancelled", "payment_failed"}, CloseUnpaid(o, s)
      PROVE  UNCHANGED rows \/ order' = [order EXCEPT ![o].status = s]
  <2>1. CASE order[o].status = "checkout_pending"
    BY <1>2, <2>1 DEF CloseUnpaid
  <2>2. CASE order[o].status # "checkout_pending"
    BY <1>2, <2>2 DEF CloseUnpaid, TypeOK, OrderRow, rows
  <2> QED
    BY <2>1, <2>2
<1> QED
  BY <1>1, <1>2, WordCases

\* Such a change takes nothing from a call.
LEMMA StatusKeepsCalls ==
    ASSUME TypeOK, CallInv, NEW o \in Orders, NEW s \in OrderStatus \ {"none"},
           \/ order' = [order EXCEPT ![o].status = s]
           \/ order' = [order EXCEPT ![o].status = s, ![o].attached = TRUE],
           UNCHANGED <<call, session>>
    PROVE  CallInv'
<1>1. \A p \in Orders : order[p].status # "none" =>
        order'[p].status # "none" /\ order'[p].window = order[p].window
  BY StatusChanges
<1> QED
  BY <1>1 DEF CallInv

\* No step takes from a call the order it holds, or its session, or the rest of its window.
LEMMA CallStep == TypeOK /\ CallInv /\ [Next]_vars => CallInv'
<1> SUFFICES ASSUME TypeOK, CallInv, [Next]_vars PROVE CallInv'
  OBVIOUS
<1> USE DEF CallInv
<1>1. ASSUME NEW c \in Calls, NEW o \in Orders, NEW request \in Requests, Insert(c, o, request)
      PROVE  CallInv'
  <2>1. \A p \in Orders :
          /\ order[p].status # "none" => order'[p].status # "none" /\ order'[p].window = order[p].window
          /\ p = o => order'[p].status # "none" /\ order'[p].window # "past"
    BY <1>1 DEF Insert, TypeOK, OrderRow
  <2> QED
    BY <1>1, <2>1 DEF Insert, TypeOK, CallState
<1>2. ASSUME NEW c \in Calls, NEW o \in Orders, NEW request \in Requests, Reuse(c, o, request)
      PROVE  CallInv'
  <2>1. order[o].status # "none" /\ order[o].window # "past"
    BY <1>2 DEF Reuse, IsPending, IsReplaced
  <2> QED
    BY <1>2, <2>1 DEF Reuse, TypeOK, rows
<1>3. ASSUME NEW c \in Calls, NEW o \in Orders, HandBack(c, o) \/ RefuseSchedule(c, o)
      PROVE  CallInv'
  <2>1. CASE HandBack(c, o)
    BY <2>1 DEF HandBack, rows
  <2>2. CASE RefuseSchedule(c, o)
    BY <2>2, StatusKeepsCalls DEF RefuseSchedule, OrderStatus
  <2> QED
    BY <1>3, <2>1, <2>2
<1>4. ASSUME NEW c \in Calls,
             StripeOpens(c) \/ Attach(c) \/ FailTransiently(c) \/ FailTerminally(c)
      PROVE  CallInv'
  <2>1. CASE StripeOpens(c)
    BY <2>1 DEF StripeOpens, TypeOK, rows, CallState
  <2>2. CASE Attach(c)
    BY <2>2 DEF Attach, TypeOK, Idle
  <2>3. CASE FailTransiently(c)
    BY <2>3 DEF FailTransiently, TypeOK, rows, Idle
  <2>4. CASE FailTerminally(c)
    BY <2>4 DEF FailTerminally, TypeOK, Idle
  <2> QED
    BY <1>4, <2>1, <2>2, <2>3, <2>4
<1>5. ASSUME NEW o \in Orders, CustomerPays(o) \/ BankDecides(o) \/ StripeExpires(o) PROVE CallInv'
  <2>1. \E s \in {"paid", "processing", "failed", "expired"} : session' = [session EXCEPT ![o] = s]
    BY <1>5 DEF CustomerPays, BankDecides, StripeExpires
  <2>2. UNCHANGED <<order, call>>
    BY <1>5 DEF CustomerPays, BankDecides, StripeExpires, rows
  <2> QED
    BY <2>1, <2>2 DEF TypeOK
<1>6. ASSUME NEW o \in Orders, WindowCloses(o) \/ RefundSucceeds(o) PROVE CallInv'
  <2>1. CASE WindowCloses(o)
    <3>1. PICK w \in {"short", "past"} : /\ order' = [order EXCEPT ![o].window = w]
                                         /\ w = "past" => \A c \in Calls : call[c].o # o
      BY <2>1 DEF WindowCloses
    <3>2. \A p \in Orders : /\ order'[p].status = order[p].status
                            /\ p # o => order'[p].window = order[p].window
      BY <3>1 DEF TypeOK, OrderRow
    <3>3. order'[o].window = w
      BY <3>1 DEF TypeOK, OrderRow
    <3> QED
      BY <2>1, <3>1, <3>2, <3>3 DEF WindowCloses
  <2>2. CASE RefundSucceeds(o)
    BY <2>2, StatusKeepsCalls DEF RefundSucceeds, OrderStatus
  <2> QED
    BY <1>6, <2>1, <2>2
<1>7. ASSUME NEW o \in Orders, NEW word \in Word, Process(o, word), UNCHANGED <<call, session>>
      PROVE  CallInv'
  <2>1. CASE UNCHANGED rows
    BY <1>7, <2>1 DEF rows
  <2>2. ASSUME NEW s \in {"fulfillment_pending", "refund_pending", "cancelled", "payment_failed"},
               \/ order' = [order EXCEPT ![o].status = s]
               \/ order' = [order EXCEPT ![o].status = s, ![o].attached = TRUE]
        PROVE  CallInv'
    BY <1>7, <2>2, StatusKeepsCalls DEF OrderStatus
  <2> QED
    BY <1>7, <2>1, <2>2, WordChanges
<1>8. ASSUME NEW o \in Orders, Webhook(o) \/ Reconcile(o) \/ PassOver(o) PROVE CallInv'
  <2>1. CASE PassOver(o)
    BY <2>1 DEF PassOver, rows
  <2> QED
    BY <1>8, <1>7, <2>1 DEF Webhook, Reconcile, Word
<1>9. CASE CancelOrphans
  BY <1>9 DEF CancelOrphans, TypeOK
<1>10. CASE OutboxEnds
  BY <1>10 DEF OutboxEnds, TypeOK
<1>11. CASE ListOpenCheckouts \/ DraftExpires \/ Edit \/ SendFromBalance \/ UNCHANGED vars
  BY <1>11 DEF ListOpenCheckouts, DraftExpires, Edit, SendFromBalance, vars, rows
<1> QED
  BY <1>1, <1>2, <1>3, <1>4, <1>5, <1>6, <1>8, <1>9, <1>10, <1>11
  DEF Next, Checkout, Maintenance, Environment

-----------------------------------------------------------------------------
\* Closing orders that were never paid keeps the rest: they had no session, or Stripe said
\* what became of it.
LEMMA ClosesKeep ==
    ASSUME PayInv, UNCHANGED <<draft, mail, session, linked>>, order' \in [Orders -> OrderRow],
           \A p \in Orders :
             \/ order'[p] = order[p]
             \/ /\ IsPending(p)
                /\ ~order[p].attached \/ session[p] \in {"expired", "failed"}
                /\ order'[p].status \in {"cancelled", "payment_failed"}
                /\ order'[p].attached = order[p].attached
                /\ order'[p].shown = order[p].shown
    PROVE  MoneyInv'
<1>1. OneActive'
  BY DEF PayInv, MoneyInv, OneActive, Engaged, Active, IsPending
<1>2. LinkInv'
  BY DEF PayInv, MoneyInv, LinkInv, IsPending
<1>3. HeldAsShown'
  BY DEF PayInv, MoneyInv, HeldAsShown, IsHeld, IsActive, Active, IsPending
<1>4. FateInv'
  BY DEF PayInv, MoneyInv, FateInv, IsPending
<1> QED
  BY <1>1, <1>2, <1>3, <1>4 DEF MoneyInv

\* What leaves the orders, the draft and the mail alone keeps the rest, if it takes nothing
\* of Stripe's word back.
LEMMA RowsKeep ==
    ASSUME PayInv, UNCHANGED rows, linked \subseteq linked',
           \A p \in Orders :
             /\ p \in linked' => p \in linked \/ (IsPending(p) /\ order[p].attached)
             /\ session'[p] # session[p] =>
                  \/ session[p] = "none" /\ session'[p] = "open"
                  \/ p \in linked /\ session[p] \in {"open", "processing"}
                  \/ session[p] = "open" /\ session'[p] = "expired"
             /\ session[p] # "none" => session'[p] # "none"
    PROVE  MoneyInv'
<1>1. OneActive' /\ HeldAsShown' /\ FateInv'
  BY DEF PayInv, MoneyInv, OneActive, HeldAsShown, FateInv, rows, IsHeld, IsActive, IsPending
<1>2. LinkInv'
  BY DEF PayInv, MoneyInv, LinkInv, IsPending, rows
<1> QED
  BY <1>1, <1>2 DEF MoneyInv

\* A new order takes the place of those that nobody can pay, and shows the draft as it is.
LEMMA InsertKeeps ==
    ASSUME PayInv, NEW c \in Calls, NEW o \in Orders, NEW request \in Requests,
           Insert(c, o, request)
    PROVE  MoneyInv'
<1> USE DEF PayInv, MoneyInv
<1>1. /\ draft.status = "pending" /\ draft.by = NoOrder
      /\ order[o].status = "none"
      /\ UNCHANGED <<draft, mail, session, linked>>
  BY DEF Insert, FateInv
<1>2. /\ order'[o].status = "checkout_pending" /\ order'[o].shown = draft.content
      /\ order'[o].attached = FALSE
  BY DEF Insert
<1>3. \A p \in Orders \ {o} :
        \/ order'[p] = order[p] /\ order[p].status \notin Active
        \/ order'[p].status = "cancelled" /\ ~order[p].attached /\ ~order'[p].attached
  BY DEF Insert, IsReplaced, IsActive, TypeOK, OrderRow
<1>4. OneActive'
  <2>1. \A p \in Orders : order[p].status # "fulfilled"
    BY <1>1 DEF FateInv
  <2> QED
    BY <1>2, <1>3, <2>1 DEF OneActive, Engaged, Active
<1>5. LinkInv'
  BY <1>1, <1>2, <1>3 DEF LinkInv, Active, FundedOrReversed
<1>6. HeldAsShown'
  BY <1>1, <1>2, <1>3 DEF HeldAsShown, IsHeld, IsActive, Active
<1>7. FateInv'
  BY <1>1, <1>2, <1>3 DEF FateInv
<1> QED
  BY <1>4, <1>5, <1>6, <1>7

\* Attaching a session holds no draft that was not held: the call outran the window.
LEMMA AttachKeeps == ASSUME PayInv, NEW c \in Calls, Attach(c) PROVE MoneyInv'
<1> USE DEF PayInv, MoneyInv
<1>1. PICK r \in Orders : /\ r = call[c].o
                         /\ order[r].status # "none" /\ order[r].window # "past"
                         /\ session[r] # "none"
  BY DEF Attach, CallInv
<1>2. /\ UNCHANGED <<draft, mail, session>>
      /\ \A p \in Orders : p \in linked' <=> p \in linked \/ (p = r /\ r \in linked')
      /\ r \in linked' => r \in linked \/ order[r].status = "checkout_pending"
  BY <1>1 DEF Attach, IsPending
<1>3. /\ order'[r].attached
      /\ \A p \in Orders :
           /\ order'[p].status = order[p].status /\ order'[p].window = order[p].window
           /\ order'[p].shown = order[p].shown
           /\ p # r => order'[p].attached = order[p].attached
  <2>1. order' = [order EXCEPT ![r].attached = TRUE]
    BY <1>1 DEF Attach
  <2>2. order \in [Orders -> OrderRow]
    BY DEF TypeOK
  <2> QED
    BY <2>1, <2>2 DEF OrderRow
<1>4. OneActive' /\ FateInv'
  BY <1>2, <1>3 DEF OneActive, FateInv
<1>5. LinkInv'
  BY <1>1, <1>2, <1>3 DEF LinkInv
<1>6. HeldAsShown'
  BY <1>1, <1>2, <1>3 DEF HeldAsShown, IsHeld, IsActive, IsPending
<1> QED
  BY <1>4, <1>5, <1>6

\* A window that closes lets a draft go and holds none.
LEMMA WindowKeeps == ASSUME PayInv, NEW o \in Orders, WindowCloses(o) PROVE MoneyInv'
<1>1. PICK w \in {"short", "past"} : order' = [order EXCEPT ![o].window = w] /\ order[o].window # "past"
  BY DEF WindowCloses
<1>2. \A p \in Orders :
        /\ order'[p].status = order[p].status /\ order'[p].shown = order[p].shown
        /\ order'[p].attached = order[p].attached
        /\ order[p].window = "past" => order'[p].window = "past"
  BY <1>1 DEF PayInv, TypeOK, OrderRow
<1>3. UNCHANGED <<draft, mail, session, linked>>
  BY DEF WindowCloses
<1>4. OneActive' /\ LinkInv' /\ FateInv'
  BY <1>2, <1>3 DEF PayInv, MoneyInv, OneActive, LinkInv, FateInv
<1>5. HeldAsShown'
  BY <1>2, <1>3 DEF PayInv, MoneyInv, HeldAsShown, IsHeld, IsActive, IsPending
<1> QED
  BY <1>4, <1>5 DEF MoneyInv

\* A payment makes mail of the content that was shown, once; or goes back, and makes none.
LEMMA PaymentKeeps ==
    ASSUME PayInv, NEW o \in Orders, session[o] = "paid", order[o].status \notin FundedOrReversed,
           BecomesMail(o) \/ BecomesRefund(o), UNCHANGED <<session, linked>>
    PROVE  MoneyInv'
<1> USE DEF PayInv, MoneyInv
<1>1. /\ order[o].status = "checkout_pending" /\ order[o].attached
      /\ draft.by # o
  BY DEF LinkInv, FateInv, FundedOrReversed
<1>2. /\ order'[o].status \in {"fulfillment_pending", "refund_pending"}
      /\ \A p \in Orders \ {o} : order'[p].status = order[p].status
      /\ \A p \in Orders : /\ order'[p].shown = order[p].shown /\ order'[p].window = order[p].window
                          /\ order'[p].attached = order[p].attached
  <2>1. PICK s \in {"fulfillment_pending", "refund_pending"} :
          order' = [order EXCEPT ![o].status = s, ![o].attached = TRUE]
    BY DEF BecomesMail, BecomesRefund
  <2>3. order[o].attached = TRUE
    BY <1>1 DEF TypeOK, OrderRow
  <2>4. order'[o].attached = TRUE
    BY <2>1 DEF TypeOK, OrderRow
  <2>5. \A p \in Orders \ {o} : order'[p] = order[p]
    BY <2>1 DEF TypeOK
  <2>6. /\ order'[o].status = s
        /\ order'[o].shown = order[o].shown /\ order'[o].window = order[o].window
    BY <2>1 DEF TypeOK, OrderRow
  <2> QED
    BY <2>3, <2>4, <2>5, <2>6
<1>3. OneActive'
  BY <1>1, <1>2 DEF OneActive, Engaged, Active
<1>4. LinkInv'
  <2> SUFFICES ASSUME NEW p \in Orders
               PROVE  /\ order'[p].attached => order'[p].status # "none" /\ session'[p] # "none"
                      /\ p \in linked' => order'[p].attached
                      /\ session'[p] \in {"processing", "paid", "failed"} => p \in linked'
                      /\ p \in linked' /\ session'[p] \in {"open", "processing"}
                           => order'[p].status = "checkout_pending"
                      /\ session'[p] = "paid"
                           => order'[p].status \in FundedOrReversed \cup {"checkout_pending"}
    BY DEF LinkInv, FundedOrReversed
  <2>1. CASE p = o
    BY <1>1, <1>2, <2>1 DEF LinkInv, FundedOrReversed
  <2>2. CASE p # o
    BY <1>2, <2>2 DEF LinkInv
  <2> QED
    BY <2>1, <2>2
<1>5. CASE BecomesRefund(o)
  <2>1. UNCHANGED <<draft, mail>>
    BY <1>5 DEF BecomesRefund
  <2>2. HeldAsShown'
    BY <1>1, <1>2, <2>1 DEF HeldAsShown, IsHeld, IsActive, IsPending, Active
  <2>3. order'[o].status = "refund_pending"
    BY <1>5 DEF BecomesRefund, TypeOK, OrderRow
  <2>4. FateInv'
    BY <1>1, <1>2, <2>1, <2>3 DEF FateInv
  <2> QED
    BY <1>3, <1>4, <2>2, <2>4
<1>6. CASE BecomesMail(o)
  <2>1. draft.status = "pending" /\ order[o].shown = draft.content
    BY <1>1, <1>6 DEF BecomesMail, HeldAsShown, IsHeld, IsActive, IsPending, Active
  <2>2. /\ draft'.status = "consumed" /\ draft'.by = o
        /\ mail' = [status |-> "queued", content |-> draft.content]
        /\ order'[o].status = "fulfillment_pending"
    BY <1>1, <1>6 DEF BecomesMail, TypeOK, OrderRow
  <2>3. HeldAsShown'
    BY <2>2 DEF HeldAsShown
  <2>4. FateInv'
    BY <1>2, <2>1, <2>2 DEF FateInv
  <2> QED
    BY <1>3, <1>4, <2>3, <2>4
<1> QED
  BY <1>5, <1>6

\* Stripe's word, by whatever way it comes, keeps the rest.
LEMMA WordKeeps ==
    ASSUME PayInv, NEW o \in Orders, NEW word \in Word, Process(o, word), UNCHANGED <<session, linked>>
    PROVE  MoneyInv'
<1>1. CASE UNCHANGED rows
  BY <1>1, RowsKeep
<1>2. CASE /\ session[o] = "paid" /\ order[o].status \notin FundedOrReversed
           /\ BecomesMail(o) \/ BecomesRefund(o)
  BY <1>2, PaymentKeeps
<1>3. ASSUME NEW s \in {"cancelled", "payment_failed"}, CloseUnpaid(o, s),
             session[o] \in {"expired", "failed"}
      PROVE  MoneyInv'
  <2>1. UNCHANGED <<draft, mail>>
    BY <1>3 DEF CloseUnpaid
  <2>2. order' \in [Orders -> OrderRow]
    BY <1>3 DEF CloseUnpaid, PayInv, TypeOK, OrderRow, OrderStatus
  <2>3. \A p \in Orders \ {o} : order'[p] = order[p]
    BY <1>3 DEF CloseUnpaid, PayInv, TypeOK
  <2>4. CASE order[o].status = "checkout_pending"
    <3>1. /\ order'[o].status = s /\ order'[o].attached = order[o].attached
          /\ order'[o].shown = order[o].shown
      BY <1>3, <2>4 DEF CloseUnpaid, PayInv, TypeOK, OrderRow
    <3> QED
      BY <1>3, <2>1, <2>2, <2>3, <2>4, <3>1, ClosesKeep DEF IsPending
  <2>5. CASE order[o].status # "checkout_pending"
    <3>1. order'[o] = order[o]
      BY <1>3, <2>5 DEF CloseUnpaid, PayInv, TypeOK, OrderRow
    <3> QED
      BY <1>3, <2>1, <2>2, <2>3, <3>1, ClosesKeep
  <2> QED
    BY <2>4, <2>5
<1> QED
  BY <1>1, <1>2, <1>3, WordCases

\* A refund that succeeds changes nothing but the order, whose mail had failed or was another's.
LEMMA RefundKeeps == ASSUME PayInv, NEW o \in Orders, RefundSucceeds(o) PROVE MoneyInv'
<1> USE DEF PayInv, MoneyInv
<1>1. order[o].status = "refund_pending" /\ UNCHANGED <<draft, mail, session, linked>>
  BY DEF RefundSucceeds
<1>2. /\ order'[o].status = "refunded"
      /\ \A p \in Orders \ {o} : order'[p].status = order[p].status
      /\ \A p \in Orders : /\ order'[p].shown = order[p].shown /\ order'[p].window = order[p].window
                          /\ order'[p].attached = order[p].attached
  BY DEF RefundSucceeds, TypeOK, OrderRow
<1>3. OneActive'
  BY <1>1, <1>2 DEF OneActive, Engaged, Active
<1>4. LinkInv'
  BY <1>1, <1>2 DEF LinkInv, FundedOrReversed
<1>5. HeldAsShown' /\ FateInv'
  BY <1>1, <1>2 DEF HeldAsShown, FateInv, IsHeld, IsActive, IsPending, Active
<1> QED
  BY <1>3, <1>4, <1>5

\* The outbox ends the mail and the order that paid for it together.
LEMMA OutboxKeeps == ASSUME PayInv, OutboxEnds PROVE MoneyInv'
<1> USE DEF PayInv, MoneyInv
<1>1. PICK s \in {"mailed", "failed"} :
        /\ mail' = [mail EXCEPT !.status = s]
        /\ order' = [o \in Orders |->
                       IF o = draft.by /\ order[o].status = "fulfillment_pending"
                       THEN [order[o] EXCEPT !.status = IF s = "mailed" THEN "fulfilled" ELSE "refund_pending"]
                       ELSE order[o]]
  BY DEF OutboxEnds
<1>2. UNCHANGED <<draft, session, linked>> /\ mail.status = "queued"
  BY DEF OutboxEnds
<1>3. \A p \in Orders :
        /\ order'[p].shown = order[p].shown /\ order'[p].window = order[p].window
        /\ order'[p].attached = order[p].attached
        /\ p # draft.by => order'[p].status = order[p].status
        /\ p = draft.by => /\ order[p].status = "fulfillment_pending"
                           /\ order'[p].status = IF s = "mailed" THEN "fulfilled" ELSE "refund_pending"
  BY <1>1, <1>2 DEF TypeOK, OrderRow, FateInv
<1>4. OneActive'
  BY <1>3 DEF OneActive, Engaged, Active
<1>5. LinkInv'
  BY <1>2, <1>3 DEF LinkInv, FundedOrReversed
<1>6. HeldAsShown'
  BY <1>2, <1>3 DEF HeldAsShown, FateInv, IsHeld, IsActive, IsPending
<1>7. FateInv'
  <2>1. mail'.status = s /\ mail'.content = mail.content
    BY <1>1 DEF TypeOK
  <2> QED
    BY <1>2, <1>3, <2>1 DEF FateInv
<1> QED
  BY <1>4, <1>5, <1>6, <1>7

-----------------------------------------------------------------------------
\* Every step keeps the whole, where a fault of configuration meets only orders without a
\* session.
LEMMA PayStep == ASSUME LoneFaults PROVE PayInv /\ [Next]_vars => PayInv'
<1> SUFFICES ASSUME PayInv, [Next]_vars PROVE MoneyInv'
  BY PayTypeStep, CallStep DEF PayInv
<1>t. TypeOK'
  BY PayTypeStep DEF PayInv
<1>n. order' \in [Orders -> OrderRow]
  BY <1>t DEF TypeOK
<1>o. order \in [Orders -> OrderRow]
  BY DEF PayInv, TypeOK
<1>1. ASSUME NEW c \in Calls, NEW o \in Orders, NEW request \in Requests,
             Insert(c, o, request) \/ Reuse(c, o, request)
      PROVE  MoneyInv'
  <2>1. CASE Reuse(c, o, request)
    BY <2>1, RowsKeep DEF Reuse
  <2> QED
    BY <1>1, <2>1, InsertKeeps
<1>2. ASSUME NEW c \in Calls, NEW o \in Orders, HandBack(c, o) \/ RefuseSchedule(c, o)
      PROVE  MoneyInv'
  <2>1. CASE HandBack(c, o)
    BY <2>1, RowsKeep DEF HandBack
  <2>2. CASE RefuseSchedule(c, o)
    <3>1. \A p \in Orders :
            \/ order'[p] = order[p]
            \/ /\ p = o /\ order'[p].status = "cancelled"
               /\ order'[p].attached = order[p].attached /\ order'[p].shown = order[p].shown
      BY <2>2, <1>o DEF RefuseSchedule, OrderRow
    <3>2. /\ IsPending(o) /\ ~order[o].attached
          /\ UNCHANGED <<draft, mail, session, linked>>
      BY <2>2 DEF RefuseSchedule
    <3> QED
      BY <3>1, <3>2, <1>n, ClosesKeep
  <2> QED
    BY <1>2, <2>1, <2>2
<1>3. ASSUME NEW c \in Calls, StripeOpens(c) PROVE MoneyInv'
  <2>1. PICK r \in Orders : r = call[c].o
    BY <1>3 DEF StripeOpens, PayInv, CallInv
  <2>2. \/ session[r] = "none" /\ session' = [session EXCEPT ![r] = "open"]
        \/ UNCHANGED session
    BY <1>3, <2>1 DEF StripeOpens
  <2>3. \A p \in Orders : \/ session'[p] = session[p]
                          \/ session[p] = "none" /\ session'[p] = "open"
    BY <2>2 DEF PayInv, TypeOK
  <2>4. UNCHANGED rows /\ UNCHANGED linked
    BY <1>3 DEF StripeOpens
  <2> QED
    BY <2>3, <2>4, RowsKeep
<1>4. ASSUME NEW c \in Calls, FailTransiently(c) PROVE MoneyInv'
  BY <1>4, RowsKeep DEF FailTransiently
<1>5. ASSUME NEW c \in Calls, FailTerminally(c) PROVE MoneyInv'
  <2>1. PICK r \in Orders : r = call[c].o
    BY <1>5 DEF FailTerminally, PayInv, CallInv
  <2>2. /\ ~order[r].attached /\ UNCHANGED <<draft, mail, session, linked>>
        /\ order' = [order EXCEPT ![r].status = IF @ = "checkout_pending" THEN "cancelled" ELSE @]
    BY <1>5, <2>1 DEF FailTerminally
  <2>3. \A p \in Orders :
          \/ order'[p] = order[p]
          \/ /\ p = r /\ IsPending(r) /\ order'[p].status = "cancelled"
             /\ order'[p].attached = order[p].attached /\ order'[p].shown = order[p].shown
    BY <2>2, <1>o DEF OrderRow, IsPending
  <2> QED
    BY <2>2, <2>3, <1>n, ClosesKeep
<1>6. ASSUME NEW o \in Orders, CustomerPays(o) \/ BankDecides(o) \/ StripeExpires(o)
      PROVE  MoneyInv'
  <2>1. PICK s \in {"paid", "processing", "failed", "expired"} :
          /\ session' = [session EXCEPT ![o] = s]
          /\ \/ o \in linked /\ session[o] = "open"
             \/ session[o] = "processing"
             \/ session[o] = "open" /\ s = "expired"
    BY <1>6 DEF CustomerPays, BankDecides, StripeExpires
  <2>2. session[o] = "processing" => o \in linked
    BY DEF PayInv, MoneyInv, LinkInv
  <2>3. /\ session'[o] = s
        /\ \A p \in Orders \ {o} : session'[p] = session[p]
    BY <2>1 DEF PayInv, TypeOK
  <2>4. UNCHANGED rows /\ UNCHANGED linked
    BY <1>6 DEF CustomerPays, BankDecides, StripeExpires
  <2> QED
    BY <2>1, <2>2, <2>3, <2>4, RowsKeep
<1>7. ASSUME NEW o \in Orders, Webhook(o) \/ Reconcile(o) PROVE MoneyInv'
  BY <1>7, WordKeeps DEF Webhook, Reconcile, Word
<1>8. ASSUME NEW o \in Orders, PassOver(o) PROVE MoneyInv'
  BY <1>8, RowsKeep DEF PassOver
<1>9. CASE CancelOrphans
  <2>1. UNCHANGED <<draft, mail, session, linked>>
    BY <1>9 DEF CancelOrphans
  <2>2. \A p \in Orders :
          \/ order'[p] = order[p]
          \/ /\ IsPending(p) /\ ~order[p].attached /\ order'[p].status = "cancelled"
             /\ order'[p].attached = order[p].attached /\ order'[p].shown = order[p].shown
    BY <1>9, <1>o DEF CancelOrphans, OrderRow
  <2> QED
    BY <2>1, <2>2, <1>n, ClosesKeep
<1>10. CASE ListOpenCheckouts
  BY <1>10, RowsKeep DEF ListOpenCheckouts
<1>11. CASE DraftExpires
  BY <1>11 DEF DraftExpires, PayInv, MoneyInv, OneActive, LinkInv, HeldAsShown, FateInv, TypeOK
<1>12. CASE Edit
  BY <1>12 DEF Edit, PayInv, MoneyInv, OneActive, LinkInv, HeldAsShown, FateInv, IsHeld, IsActive,
               IsPending, TypeOK
<1>13. CASE SendFromBalance
  BY <1>13, PayAndSendAssumption
  DEF SendFromBalance, PayInv, MoneyInv, OneActive, LinkInv, HeldAsShown, FateInv, TypeOK
<1>14. CASE UNCHANGED vars
  BY <1>14, RowsKeep DEF vars
<1> QED
  BY <1>1, <1>2, <1>3, <1>4, <1>5, <1>6, <1>7, <1>8, <1>9, <1>10, <1>11, <1>12, <1>13, <1>14,
     AttachKeeps, WindowKeeps, RefundKeeps, OutboxKeeps
  DEF Next, Checkout, Maintenance, Environment

-----------------------------------------------------------------------------
\* What the proof rests on holds in every reachable state, where a fault of configuration
\* meets only orders without a session.
THEOREM PaymentsAreInOrder == ASSUME LoneFaults PROVE Spec => []PayInv
<1>1. Init => PayInv
  BY PayInit
<1>2. PayInv /\ [Next]_vars => PayInv'
  BY PayStep
<1> QED
  BY <1>1, <1>2, PTL DEF Spec

\* The rows, the calls and Stripe's sessions only take values the code knows, whatever fails.
THEOREM PayTypeCorrect == Spec => []TypeOK
<1>1. Init => TypeOK /\ CallInv
  BY PayInit DEF PayInv
<1>2. TypeOK /\ CallInv /\ [Next]_vars => (TypeOK /\ CallInv)'
  BY PayTypeStep, CallStep
<1> QED
  BY <1>1, <1>2, PTL DEF Spec

\* What was paid for at a checkout is what is mailed: lockChangeableDraft and fulfillPaidOrder
\* between them let no edit come between.
THEOREM WhatWasShownIsMailed == ASSUME LoneFaults PROVE Spec => []PaidMailIsAsShown
<1>1. PayInv => PaidMailIsAsShown
  BY DEF PayInv, MoneyInv, FateInv, PaidMailIsAsShown
<1> QED
  BY <1>1, PaymentsAreInOrder, PTL

\* A draft is charged for once, however many calls and surfaces open its checkouts.
LEMMA DraftIsChargedOnce == ASSUME LoneFaults PROVE Spec => []OneCharge
<1>1. PayInv => OneCharge
  <2> SUFFICES ASSUME PayInv, NEW o \in Orders, NEW p \in Orders, o # p,
                      \/ IsPayable(o)
                      \/ IsPaid(o) /\ order[o].status \notin {"refund_pending", "refunded"},
                      IsPayable(p)
               PROVE  FALSE
    BY DEF OneCharge
  <2>1. order[p].status = "checkout_pending"
    BY DEF IsPayable, PayInv, MoneyInv, LinkInv
  <2>2. order[o].status \in Engaged
    BY DEF IsPayable, IsPaid, PayInv, MoneyInv, LinkInv, FundedOrReversed, Engaged, Active
  <2> QED
    BY <2>1, <2>2 DEF PayInv, MoneyInv, OneActive, Active
<1> QED
  BY <1>1, PaymentsAreInOrder, PTL

\* No payment becomes both mail and a refund, whatever the order of Stripe's words.
LEMMA PaymentIsMailOrMoney == ASSUME LoneFaults PROVE Spec => []MailOrMoney
<1>1. PayInv => MailOrMoney
  BY DEF PayInv, MoneyInv, FateInv, MailOrMoney
<1> QED
  BY <1>1, PaymentsAreInOrder, PTL

\* A draft is charged for once, however many calls and surfaces open its checkouts, and no
\* payment becomes both mail and a refund, whatever the order of Stripe's words.
THEOREM PaymentsBuyOneMail == ASSUME LoneFaults PROVE Spec => []ChargesAreSound
<1>1. OneCharge /\ MailOrMoney => ChargesAreSound
  BY DEF ChargesAreSound
<1> QED
  BY <1>1, DraftIsChargedOnce, PaymentIsMailOrMoney, PTL

\* Until Stripe says that a session expired, no call, sweep or edit cancels its order.
THEOREM StripesWordCloses == ASSUME LoneFaults PROVE Spec => OnlyStripeCloses
<1>1. PayInv /\ [Next]_vars =>
        [\A o \in Orders :
           IsPending(o) /\ order[o].attached /\ order'[o].status = "cancelled"
               => session[o] = "expired"]_vars
  <2> SUFFICES ASSUME PayInv, [Next]_vars, NEW o \in Orders, IsPending(o), order[o].attached,
                      order'[o].status = "cancelled", session[o] # "expired"
               PROVE  FALSE
    OBVIOUS
  <2>o. order \in [Orders -> OrderRow]
    BY DEF PayInv, TypeOK
  <2>d. order[o].status = "checkout_pending" /\ order[o].attached /\ order'[o].status = "cancelled"
    BY DEF IsPending
  <2>1. ASSUME NEW c \in Calls, NEW p \in Orders, NEW request \in Requests, Insert(c, p, request)
        PROVE  FALSE
    <3>1. IsActive(o)
      BY <2>d DEF IsActive, Active
    <3> QED
      BY <2>1, <2>d, <3>1 DEF Insert, IsReplaced
  <2>2. ASSUME NEW c \in Calls, NEW p \in Orders, RefuseSchedule(c, p) PROVE FALSE
    BY <2>2, <2>d, <2>o DEF RefuseSchedule
  <2>3. ASSUME NEW c \in Calls, Attach(c) PROVE FALSE
    <3>1. PICK r \in Orders : r = call[c].o
      BY <2>3 DEF Attach, PayInv, CallInv
    <3> QED
      BY <2>3, <3>1, <2>d, <2>o DEF Attach, OrderRow
  <2>4. ASSUME NEW c \in Calls, FailTerminally(c) PROVE FALSE
    <3>1. PICK r \in Orders : r = call[c].o
      BY <2>4 DEF FailTerminally, PayInv, CallInv
    <3> QED
      BY <2>4, <3>1, <2>d, <2>o DEF FailTerminally
  <2>5. ASSUME NEW p \in Orders, WindowCloses(p) PROVE FALSE
    <3>1. PICK w \in Window : order' = [order EXCEPT ![p].window = w]
      BY <2>5 DEF WindowCloses, Window
    <3>2. order'[o].status = order[o].status
      BY <3>1, <2>o DEF OrderRow
    <3> QED
      BY <3>2, <2>d
  <2>6. ASSUME NEW p \in Orders, RefundSucceeds(p) PROVE FALSE
    BY <2>6, <2>d, <2>o DEF RefundSucceeds, OrderRow
  <2>7. ASSUME NEW p \in Orders, NEW word \in Word, Process(p, word) PROVE FALSE
    <3>1. CASE UNCHANGED rows
      BY <3>1, <2>d DEF rows
    <3>2. CASE BecomesMail(p) \/ BecomesRefund(p)
      <4>1. PICK s \in {"fulfillment_pending", "refund_pending"} :
              order' = [order EXCEPT ![p].status = s, ![p].attached = TRUE]
        BY <3>2 DEF BecomesMail, BecomesRefund
      <4>2. order'[o].status \in {s, order[o].status}
        BY <4>1, <2>o DEF OrderRow
      <4> QED
        BY <4>2, <2>d
    <3>3. CASE session[p] = "expired" /\ CloseUnpaid(p, "cancelled")
      BY <3>3, <2>d, <2>o DEF CloseUnpaid, OrderRow
    <3>4. CASE session[p] = "failed" /\ CloseUnpaid(p, "payment_failed")
      BY <3>4, <2>d, <2>o DEF CloseUnpaid, OrderRow
    <3> QED
      BY <2>7, <3>1, <3>2, <3>3, <3>4, WordCases
  <2>8. CASE CancelOrphans
    BY <2>8, <2>d, <2>o DEF CancelOrphans
  <2>9. CASE OutboxEnds
    BY <2>9, <2>d, <2>o DEF OutboxEnds, OrderRow
  <2>10. order' # order
    BY <2>d
  <2> QED
    BY <2>1, <2>2, <2>3, <2>4, <2>5, <2>6, <2>7, <2>8, <2>9, <2>10
    DEF Next, Checkout, Maintenance, Environment, Reuse, HandBack, StripeOpens, FailTransiently,
        CustomerPays, BankDecides, StripeExpires, Webhook, Reconcile, PassOver, Word,
        ListOpenCheckouts, DraftExpires, Edit, SendFromBalance, rows, vars
<1> QED
  BY <1>1, PaymentsAreInOrder, PTL DEF OnlyStripeCloses, Spec

-----------------------------------------------------------------------------
(* Letter packs: the inductive invariant of PackPayments. *)

Handled(p, w) == event[p][w] = "handled"

\* Each event was sent once, of what Stripe then was and may since have left.
SentFacts(p) ==
    /\ event[p]["completed"] # "unsent" \/ event[p]["succeeded"] # "unsent" => checkout[p] = "paid"
    /\ event[p]["completed_later"] # "unsent" => checkout[p] \in {"processing", "paid", "failed"}
    /\ event[p]["failed"] # "unsent" => checkout[p] = "failed"
    /\ event[p]["expired"] # "unsent" => checkout[p] = "expired"
    /\ event[p]["reconciled"] # "unsent" => checkout[p] \in {"paid", "expired"}
    /\ event[p]["refund_part"] # "unsent" => refund[p] # "none"
    /\ event[p]["refund_pending"] # "unsent" => refund[p] \in {"pending", "succeeded", "failed"}
    /\ event[p]["refund_succeeded"] # "unsent" <=> refund[p] = "succeeded"
    /\ event[p]["refund_failed"] # "unsent" => refund[p] = "failed"
    /\ event[p]["inquiry"] # "unsent" => dispute[p] # "none"
    /\ event[p]["opened"] # "unsent" <=> dispute[p] \in {"open", "won", "lost"}
    /\ event[p]["closed"] # "unsent" <=> dispute[p] \in Closed

\* A session is opened for an order, or for none; a pack granted was paid, at its price.
GrantFacts(p) ==
    /\ opening[p] = "idle" => status[p] = "none" /\ p \notin known
    /\ opening[p] \in {"idle", "inserted"} => checkout[p] = "none"
    /\ grants[p] \in {0, 1}
    /\ grants[p] = 1 => checkout[p] = "paid" /\ p \notin odd /\ p \in known /\ status[p] \in Funded
    /\ p \in live \cup took => grants[p] = 1

\* What the row of a dispute says of it, and who has heard.
DisputeFacts(p) ==
    /\ row[p] \in Loss => dispute[p] \in {"open", "won", "lost"}
    /\ row[p] \in Closed => row[p] = dispute[p]
    /\ p \in ours => p \in known
    /\ Hearing(p, {"checked"}) => p \notin ours
    /\ row[p] # "none" /\ p \notin ours => UnmatchedOf(p) \cap DisputeWord # {}
    /\ p \notin ours => \A w \in DisputeWord : ~Handled(p, w)
    /\ p \in ours => status[p] \in Funded \/ UnmatchedOf(p) # {} \/ p \in late
    /\ p \in took => p \in ours /\ row[p] \in {"open", "lost", "won"}

\* What was heard of a dispute has been acted on.
LossFacts(p) ==
    /\ p \in ours /\ row[p] \in Loss =>
           (blocked /\ p \notin live) \/ UnmatchedOf(p) # {} \/ p \in late
    /\ p \in live \ late =>
           /\ Handled(p, "opened") => p \in ours /\ row[p] \in {"open"} \cup Closed
           /\ Handled(p, "closed") => p \in ours /\ row[p] = dispute[p]

\* What was heard of a refund has been acted on, and no won dispute gives it back.
RefundFacts(p) ==
    /\ status[p] = "refunded" => p \notin live
    /\ Handled(p, "refund_succeeded") => p \in known /\ status[p] \in Funded
    /\ Handled(p, "refund_succeeded") /\ p \notin late =>
           /\ p \notin live
           /\ status[p] = "refunded" \/ p \notin took \/ Handled(p, "closed")

PackFacts(p) == SentFacts(p) /\ GrantFacts(p) /\ DisputeFacts(p) /\ LossFacts(p) /\ RefundFacts(p)

SomeLoss == blocked => \E p \in ours : row[p] \in Loss

PackInv == PackTypeOK /\ (\A p \in Packs : PackFacts(p)) /\ SomeLoss

-----------------------------------------------------------------------------
\* All that is known of a pack, but for the block of its account.
Same(q) ==
    /\ status'[q] = status[q] /\ grants'[q] = grants[q] /\ row'[q] = row[q]
    /\ opening'[q] = opening[q] /\ event'[q] = event[q]
    /\ checkout'[q] = checkout[q] /\ refund'[q] = refund[q] /\ dispute'[q] = dispute[q]
    /\ q \in known' <=> q \in known
    /\ q \in live' <=> q \in live
    /\ q \in took' <=> q \in took
    /\ q \in ours' <=> q \in ours
    /\ q \in late' <=> q \in late
    /\ q \in odd' <=> q \in odd

\* A pack whose rows a step leaves alone keeps its facts, if its loss keeps the block.
LEMMA SameKeepsFacts ==
    ASSUME NEW q \in Packs, PackFacts(q), Same(q),
           q \in ours /\ row[q] \in Loss /\ blocked => blocked'
    PROVE  PackFacts(q)'
<1> USE DEF Same
<1>1. SentFacts(q)'
  BY DEF PackFacts, SentFacts
<1>2. GrantFacts(q)'
  BY DEF PackFacts, GrantFacts
<1>3. DisputeFacts(q)'
  BY DEF PackFacts, DisputeFacts, Hearing, UnmatchedOf, Handled
<1>4. LossFacts(q)'
  BY DEF PackFacts, LossFacts, UnmatchedOf, Handled
<1>5. RefundFacts(q)'
  BY DEF PackFacts, RefundFacts, Handled
<1> QED
  BY <1>1, <1>2, <1>3, <1>4, <1>5 DEF PackFacts

\* What sending or claiming an event changes.
LEMMA EventBecomes ==
    ASSUME PackTypeOK, NEW p \in Packs, NEW w \in Words, NEW s \in Stage, event' = Becomes(p, w, s)
    PROVE  /\ event' \in [Packs -> [Words -> Stage]]
           /\ event'[p][w] = s
           /\ \A v \in Words \ {w} : event'[p][v] = event[p][v]
           /\ \A q \in Packs \ {p} : event'[q] = event[q]
BY DEF PackTypeOK, Becomes

LEMMA PackInitInv == PackInit => PackInv
<1> SUFFICES ASSUME PackInit PROVE PackInv
  OBVIOUS
<1>1. PackTypeOK
  BY DEF PackInit, PackTypeOK, PackStatus, DisputeState, Stage, PaymentState, RefundState, Words
<1>2. ASSUME NEW p \in Packs PROVE PackFacts(p)
  <2>1. \A w \in Words : event[p][w] = "unsent"
    BY DEF PackInit
  <2>2. UnmatchedOf(p) = {} /\ ~Hearing(p, {"checked"})
    BY <2>1 DEF UnmatchedOf, Hearing, Words
  <2>3. SentFacts(p)
    BY <2>1 DEF PackInit, SentFacts, Words, SessionWord, RefundWord, DisputeWord, Closed
  <2>4. GrantFacts(p)
    BY DEF PackInit, GrantFacts
  <2>5. DisputeFacts(p)
    BY <2>1, <2>2 DEF PackInit, DisputeFacts, Handled, Words, Loss, Closed
  <2>6. LossFacts(p)
    BY DEF PackInit, LossFacts
  <2>7. RefundFacts(p)
    BY <2>1 DEF PackInit, RefundFacts, Handled, Words, RefundWord
  <2> QED
    BY <2>3, <2>4, <2>5, <2>6, <2>7 DEF PackFacts
<1>3. SomeLoss
  BY DEF PackInit, SomeLoss
<1> QED
  BY <1>1, <1>2, <1>3 DEF PackInv

-----------------------------------------------------------------------------
(* Steps that leave the dispute's row alone and bring no letters. *)

\* Such a step may take letters back, fund an order, and hear of a refund that it records.
Quiet(p) ==
    /\ row'[p] = row[p] /\ grants'[p] = grants[p]
    /\ p \in known => p \in known'
    /\ p \in live' => p \in live
    /\ p \in took' <=> p \in took
    /\ p \in ours' <=> p \in ours
    /\ p \in late' <=> p \in late
    /\ p \in odd' <=> p \in odd
    /\ status[p] \in Funded => status'[p] \in Funded
    /\ status[p] = "refunded" => status'[p] = "refunded"
    /\ status'[p] = "refunded" => p \notin live'
    /\ opening'[p] = "idle" => status'[p] = "none" /\ p \notin known'
    /\ opening'[p] \in {"idle", "inserted"} => checkout'[p] = "none"
    /\ UnmatchedOf(p) \subseteq UnmatchedOf(p)'
    /\ \A w \in DisputeWord : Handled(p, w)' <=> Handled(p, w)
    /\ Handled(p, "refund_succeeded")' =>
           Handled(p, "refund_succeeded") \/ (p \in known' /\ status'[p] = "refunded")
    /\ checkout[p] = "paid" => checkout'[p] = "paid"
    /\ dispute[p] \in {"open", "won", "lost"} => dispute'[p] \in {"open", "won", "lost"}
    /\ dispute[p] \in Closed => dispute'[p] = dispute[p]
    /\ Hearing(p, {"checked"})' => p \notin ours

LEMMA QuietKeepsFacts ==
    ASSUME NEW p \in Packs, PackFacts(p), SentFacts(p)', Quiet(p),
           p \in ours /\ row[p] \in Loss /\ blocked => blocked'
    PROVE  PackFacts(p)'
<1>3. GrantFacts(p)'
  BY DEF PackFacts, GrantFacts, Quiet
<1>4. DisputeFacts(p)'
  BY DEF PackFacts, DisputeFacts, Quiet, Loss, Closed
<1>5. LossFacts(p)'
  <2>1. Handled(p, "opened")' <=> Handled(p, "opened")
    BY DEF Quiet, DisputeWord
  <2>2. Handled(p, "closed")' <=> Handled(p, "closed")
    BY DEF Quiet, DisputeWord
  <2>3. Handled(p, "closed") => dispute[p] \in Closed
    BY DEF PackFacts, SentFacts, Handled
  <2> QED
    BY <2>1, <2>2, <2>3 DEF PackFacts, LossFacts, Quiet
<1>6. RefundFacts(p)'
  <2>2. Handled(p, "closed")' <=> Handled(p, "closed")
    BY DEF Quiet, DisputeWord
  <2>3. Funded = {"fulfilled", "refund_pending", "refunded", "disputed"}
    BY DEF Funded
  <2> QED
    BY <2>2, <2>3 DEF PackFacts, RefundFacts, Quiet
<1> QED
  BY <1>3, <1>4, <1>5, <1>6 DEF PackFacts

\* A step of one pack keeps the invariant where it keeps that pack's facts.
LEMMA OnePackStep ==
    ASSUME PackInv, NEW p \in Packs, PackTypeOK', PackFacts(p)', SomeLoss',
           \A q \in Packs \ {p} : Same(q) /\ (q \in ours /\ row[q] \in Loss /\ blocked => blocked')
    PROVE  PackInv'
<1>1. ASSUME NEW q \in Packs PROVE PackFacts(q)'
  <2>1. CASE q = p
    BY <2>1
  <2>2. CASE q # p
    BY <2>2, SameKeepsFacts DEF PackInv
  <2> QED
    BY <2>1, <2>2
<1> QED
  BY <1>1 DEF PackInv

\* A quiet step of one pack, which leaves the disputes' rows alone.
LEMMA QuietStep ==
    ASSUME PackInv, NEW p \in Packs, PackTypeOK', SentFacts(p)', Quiet(p), UNCHANGED disputeRows,
           \A q \in Packs \ {p} : Same(q)
    PROVE  PackInv'
<1>1. blocked' = blocked /\ row' = row /\ ours' = ours
  BY DEF disputeRows
<1>2. PackFacts(p)'
  BY <1>1, QuietKeepsFacts DEF PackInv
<1>3. SomeLoss'
  BY <1>1 DEF PackInv, SomeLoss
<1> QED
  BY <1>1, <1>2, <1>3, OnePackStep

\* The rows' order, and the call that opens the session.
OrderStep(p) ==
    \/ InsertsOrder(p) \/ MarkCheckoutCreationFailure(p) \/ AttachCheckout(p) \/ CallDies(p)
    \/ CancelsOrphan(p) \/ ReleasesQuarantine(p) \/ SweepDies(p) \/ SweepFails(p)
    \/ SweepRecords(p)

LEMMA OrderStepKeepsInv ==
    ASSUME PackInv, NEW p \in Packs, OrderStep(p)
    PROVE  PackInv'
<1> USE DEF orders, letters, disputeRows, marks, stripe
<1>u. UNCHANGED <<known, disputeRows, event, marks, stripe, grants, took>>
  BY DEF OrderStep, InsertsOrder, MarkCheckoutCreationFailure, AttachCheckout, CallDies,
         CancelsOrphan, ReleasesQuarantine, SweepDies, SweepFails, SweepRecords, Revokes
<1>0. PackTypeOK /\ PackFacts(p)
  BY DEF PackInv
<1>1. PackTypeOK'
  <2>1. status' \in [Packs -> PackStatus]
    <3>1. CASE SweepRecords(p)
      <4>0. status \in [Packs -> PackStatus] /\ "refunded" \in PackStatus
        BY <1>0 DEF PackTypeOK, PackStatus
      <4> QED
        BY <3>1, <4>0 DEF SweepRecords
    <3>2. CASE ~SweepRecords(p)
      <4>0. status \in [Packs -> PackStatus] /\ {"checkout_pending", "cancelled"} \subseteq PackStatus
        BY <1>0 DEF PackTypeOK, PackStatus
      <4> QED
        BY <3>2, <4>0 DEF OrderStep, InsertsOrder, MarkCheckoutCreationFailure,
           AttachCheckout, CallDies, CancelsOrphan, ReleasesQuarantine, SweepDies, SweepFails
    <3> QED
      BY <3>1, <3>2
  <2>2. code' \in [Packs -> {"none", "mismatch", "not_completed"}]
    <3>1. CASE SweepRecords(p)
      <4>0. code \in [Packs -> {"none", "mismatch", "not_completed"}]
        BY <1>0 DEF PackTypeOK
      <4> QED
        BY <3>1, <4>0 DEF SweepRecords
    <3>2. CASE ~SweepRecords(p)
      BY <1>0, <3>2 DEF PackTypeOK, OrderStep, InsertsOrder, MarkCheckoutCreationFailure,
           AttachCheckout, CallDies, CancelsOrphan, ReleasesQuarantine, SweepDies, SweepFails
    <3> QED
      BY <3>1, <3>2
  <2>3. opening' \in [Packs -> {"idle", "inserted", "opened", "linked", "over"}]
    BY <1>0 DEF PackTypeOK, OrderStep, InsertsOrder, MarkCheckoutCreationFailure,
         AttachCheckout, CallDies, CancelsOrphan, ReleasesQuarantine, SweepDies, SweepFails, SweepRecords
  <2>4. asked' \in [Packs -> {"no", "pending", "succeeded", "failed"}]
    BY <1>0 DEF PackTypeOK, OrderStep, InsertsOrder, MarkCheckoutCreationFailure,
         AttachCheckout, CallDies, CancelsOrphan, ReleasesQuarantine, SweepDies, SweepFails, SweepRecords
  <2>5. live' \subseteq live
    BY DEF OrderStep, InsertsOrder, MarkCheckoutCreationFailure, Revokes,
         AttachCheckout, CallDies, CancelsOrphan, ReleasesQuarantine, SweepDies, SweepFails, SweepRecords
  <2> QED
    BY <1>0, <1>u, <2>1, <2>2, <2>3, <2>4, <2>5 DEF PackTypeOK
<1>2. SentFacts(p)'
  BY <1>0, <1>u DEF PackFacts, SentFacts
<1>3. Quiet(p)
  <2>1. /\ status'[p] \in Funded <=> status[p] \in Funded
        /\ status[p] = "refunded" => status'[p] = "refunded"
    BY <1>0 DEF PackFacts, GrantFacts, PackTypeOK, Funded, OrderStep, InsertsOrder,
         MarkCheckoutCreationFailure, AttachCheckout, CallDies, CancelsOrphan, ReleasesQuarantine,
         SweepDies, SweepFails, SweepRecords
  <2>2. /\ p \in live' => p \in live
        /\ status'[p] = "refunded" => p \notin live'
    BY <1>0 DEF PackFacts, GrantFacts, RefundFacts, PackTypeOK, Revokes, OrderStep, InsertsOrder,
         MarkCheckoutCreationFailure, AttachCheckout, CallDies, CancelsOrphan, ReleasesQuarantine,
         SweepDies, SweepFails, SweepRecords
  <2>3. /\ opening'[p] = "idle" => status'[p] = "none" /\ p \notin known'
        /\ opening'[p] \in {"idle", "inserted"} => checkout'[p] = "none"
    BY <1>0, <1>u DEF PackFacts, GrantFacts, PackTypeOK, OrderStep, InsertsOrder,
         MarkCheckoutCreationFailure, AttachCheckout, CallDies, CancelsOrphan, ReleasesQuarantine,
         SweepDies, SweepFails, SweepRecords
  <2>4. /\ Hearing(p, {"checked"})' => p \notin ours
        /\ UnmatchedOf(p)' = UnmatchedOf(p)
        /\ \A w \in Words : Handled(p, w)' <=> Handled(p, w)
    BY <1>0, <1>u DEF PackFacts, DisputeFacts, Hearing, UnmatchedOf, Handled
  <2> QED
    BY <1>u, <2>1, <2>2, <2>3, <2>4 DEF Quiet, Words, RefundWord
<1>4. \A q \in Packs \ {p} : Same(q)
  <2>1. ASSUME NEW q \in Packs \ {p}
        PROVE  status'[q] = status[q] /\ opening'[q] = opening[q] /\ (q \in live' <=> q \in live)
    BY <1>0 DEF PackTypeOK, Revokes, OrderStep, InsertsOrder,
         MarkCheckoutCreationFailure, AttachCheckout, CallDies, CancelsOrphan, ReleasesQuarantine,
         SweepDies, SweepFails, SweepRecords
  <2> QED
    BY <1>u, <2>1 DEF Same
<1> QED
  BY <1>u, <1>1, <1>2, <1>3, <1>4, QuietStep

\* A step that moves one waiting event, and perhaps Stripe's own state of the payment.
LEMMA WaitingStep ==
    ASSUME PackInv, NEW p \in Packs, NEW w \in Words, NEW s \in Stage,
           event' = Becomes(p, w, s),
           {event[p][w], s} \cap {"unmatched", "handled"} = {},
           s = "checked" => p \notin ours,
           UNCHANGED <<orders, letters, disputeRows, opening, marks>>,
           asked' \in [Packs -> {"no", "pending", "succeeded", "failed"}],
           checkout' \in [Packs -> PaymentState], refund' \in [Packs -> RefundState],
           dispute' \in [Packs -> DisputeState],
           SentFacts(p)',
           checkout[p] \in {"none", "paid"} => checkout'[p] = checkout[p],
           dispute[p] \in {"open", "won", "lost"} => dispute'[p] \in {"open", "won", "lost"},
           dispute[p] \in Closed => dispute'[p] = dispute[p],
           \A q \in Packs \ {p} : /\ checkout'[q] = checkout[q] /\ refund'[q] = refund[q]
                                  /\ dispute'[q] = dispute[q]
    PROVE  PackInv'
<1> USE DEF orders, letters, disputeRows, marks
<1>0. PackTypeOK /\ PackFacts(p)
  BY DEF PackInv
<1>1. /\ event' \in [Packs -> [Words -> Stage]]
      /\ event'[p][w] = s
      /\ \A v \in Words \ {w} : event'[p][v] = event[p][v]
      /\ \A q \in Packs \ {p} : event'[q] = event[q]
  BY <1>0, EventBecomes
<1>2. PackTypeOK'
  BY <1>0, <1>1 DEF PackTypeOK
<1>3. Quiet(p)
  <2>1. /\ \A v \in Words : Handled(p, v)' <=> Handled(p, v)
        /\ UnmatchedOf(p)' = UnmatchedOf(p)
    BY <1>1 DEF Handled, UnmatchedOf
  <2>2. Hearing(p, {"checked"})' => p \notin ours
    <3>1. DisputeWord \subseteq Words
      BY DEF Words
    <3>2. ASSUME NEW v \in DisputeWord, event'[p][v] = "checked" PROVE p \notin ours
      <4>1. CASE v = w
        BY <4>1, <3>2, <1>1
      <4>2. CASE v # w
        BY <4>2, <3>1, <3>2, <1>0, <1>1 DEF PackFacts, DisputeFacts, Hearing
      <4> QED
        BY <4>1, <4>2
    <3> QED
      BY <3>2 DEF Hearing
  <2>3. status[p] = "refunded" => p \notin live
    BY <1>0 DEF PackFacts, RefundFacts
  <2>4. /\ opening[p] = "idle" => status[p] = "none" /\ p \notin known
        /\ opening[p] \in {"idle", "inserted"} => checkout'[p] = "none"
    BY <1>0 DEF PackFacts, GrantFacts
  <2> QED
    BY <2>1, <2>2, <2>3, <2>4 DEF Quiet, Words, RefundWord
<1>4. \A q \in Packs \ {p} : Same(q)
  BY <1>1 DEF Same
<1> QED
  BY <1>2, <1>3, <1>4, QuietStep

\* A session, a refund or a dispute moves at Stripe, and its event is sent.
LEMMA SessionStepKeepsInv ==
    ASSUME PackInv, NEW p \in Packs,
           Pays(p) \/ PaysLater(p) \/ PaymentArrives(p) \/ PaymentFails(p) \/ SessionExpires(p)
    PROVE  PackInv'
<1>0. PackTypeOK /\ PackFacts(p)
  BY DEF PackInv
<1>1. PICK from \in {"open", "processing"}, to \in {"processing", "paid", "failed", "expired"},
           w \in {"completed", "completed_later", "succeeded", "failed", "expired"} :
        /\ SessionMoves(p, from, to, w)
        /\ w \in {"completed", "succeeded"} => to = "paid"
        /\ w = "completed_later" => to = "processing"
        /\ w \in {"failed", "expired"} => to = w
        /\ from = "processing" => to \in {"paid", "failed"}
  BY DEF Pays, PaysLater, PaymentArrives, PaymentFails, SessionExpires
<1>2. w \in Words /\ "sent" \in Stage
  BY DEF Words, SessionWord, Stage
<1>3. /\ event' = Becomes(p, w, "sent") /\ checkout[p] = from
      /\ checkout' = [checkout EXCEPT ![p] = to]
      /\ UNCHANGED <<orders, letters, disputeRows, opening, asked, marks, refund, dispute>>
  BY <1>1 DEF SessionMoves, Sent
<1>4. checkout'[p] = to /\ checkout' \in [Packs -> PaymentState]
  BY <1>0, <1>3 DEF PackTypeOK, PaymentState
<1>5. /\ event'[p][w] = "sent"
      /\ \A v \in Words \ {w} : event'[p][v] = event[p][v]
  BY <1>0, <1>2, <1>3, EventBecomes
<1>6. SentFacts(p)
  BY <1>0 DEF PackFacts
<1>7. event[p][w] = "unsent"
  BY <1>1, <1>3, <1>6 DEF SentFacts
<1>8. SentFacts(p)'
  <2>1. \A v \in RefundWord \cup DisputeWord : event'[p][v] = event[p][v]
    BY <1>1, <1>5 DEF Words, SessionWord, RefundWord, DisputeWord
  <2>2. \A v \in SessionWord \ {w} : event'[p][v] = event[p][v]
    BY <1>5 DEF Words
  <2> QED
    BY <1>1, <1>3, <1>4, <1>5, <1>6, <2>1, <2>2 DEF SentFacts, SessionWord, RefundWord, DisputeWord
<1>9. \A q \in Packs \ {p} : checkout'[q] = checkout[q]
  BY <1>0, <1>3 DEF PackTypeOK
<1> QED
  BY <1>0, <1>1, <1>2, <1>3, <1>4, <1>7, <1>8, <1>9, WaitingStep DEF PackTypeOK

LEMMA DisputeMoveKeepsInv ==
    ASSUME PackInv, NEW p \in Packs,
           BankInquires(p) \/ BankDisputes(p) \/ InquiryCloses(p) \/ DisputeCloses(p)
    PROVE  PackInv'
<1>0. PackTypeOK /\ PackFacts(p)
  BY DEF PackInv
<1>1. PICK from \in {"none", "inquiry", "open"},
           to \in {"inquiry", "open", "won", "lost", "warning_closed"}, w \in DisputeWord :
        /\ DisputeMoves(p, from, to, w)
        /\ w = "inquiry" => from = "none" /\ to = "inquiry"
        /\ w = "opened" => from # "open" /\ to = "open"
        /\ w = "closed" => \/ from = "inquiry" /\ to = "warning_closed"
                           \/ from = "open" /\ to \in {"won", "lost"}
  BY DEF BankInquires, BankDisputes, InquiryCloses, DisputeCloses, DisputeWord
<1>2. w \in Words /\ "sent" \in Stage
  BY DEF Words, Stage
<1>3. /\ event' = Becomes(p, w, "sent") /\ dispute[p] = from
      /\ dispute' = [dispute EXCEPT ![p] = to]
      /\ UNCHANGED <<orders, letters, disputeRows, opening, asked, marks, checkout, refund>>
  BY <1>1 DEF DisputeMoves, Sent
<1>4. dispute'[p] = to /\ dispute' \in [Packs -> DisputeState]
  BY <1>0, <1>3 DEF PackTypeOK, DisputeState
<1>5. /\ event'[p][w] = "sent"
      /\ \A v \in Words \ {w} : event'[p][v] = event[p][v]
  BY <1>0, <1>2, <1>3, EventBecomes
<1>6. SentFacts(p)
  BY <1>0 DEF PackFacts
<1>7. event[p][w] = "unsent"
  BY <1>1, <1>3, <1>6 DEF SentFacts, DisputeWord, Closed
<1>8. SentFacts(p)'
  <2>1. \A v \in RefundWord \cup SessionWord : event'[p][v] = event[p][v]
    BY <1>1, <1>5 DEF Words, SessionWord, RefundWord, DisputeWord
  <2>2. \A v \in DisputeWord \ {w} : event'[p][v] = event[p][v]
    BY <1>5 DEF Words
  <2> QED
    BY <1>1, <1>3, <1>4, <1>5, <1>6, <2>1, <2>2
    DEF SentFacts, SessionWord, RefundWord, DisputeWord, Closed
<1>9. \A q \in Packs \ {p} : dispute'[q] = dispute[q]
  BY <1>0, <1>3 DEF PackTypeOK
<1>10. /\ from = "open" => to \in {"won", "lost"}
       /\ from \notin {"won", "lost", "warning_closed"}
  BY <1>1 DEF DisputeWord
<1> QED
  BY <1>0, <1>2, <1>3, <1>4, <1>7, <1>8, <1>9, <1>10, WaitingStep DEF PackTypeOK, Closed

LEMMA RefundMoveKeepsInv ==
    ASSUME PackInv, NEW p \in Packs, NEW to \in {"part", "pending", "succeeded", "failed"},
           RefundMoves(p, to),
           \/ refund[p] = "none"
           \/ refund[p] = "part" /\ to # "part"
           \/ refund[p] = "pending" /\ to \in {"succeeded", "failed"},
           UNCHANGED <<orders, letters, disputeRows, opening, marks, checkout, dispute>>,
           asked' \in [Packs -> {"no", "pending", "succeeded", "failed"}]
    PROVE  PackInv'
<1>0. PackTypeOK /\ PackFacts(p)
  BY DEF PackInv
<1>1. PICK w \in RefundWord :
        /\ refund' = [refund EXCEPT ![p] = to] /\ event' = Becomes(p, w, "sent")
        /\ w = "refund_part" <=> to = "part"
        /\ w = "refund_pending" <=> to = "pending"
        /\ w = "refund_succeeded" <=> to = "succeeded"
        /\ w = "refund_failed" <=> to = "failed"
  BY DEF RefundMoves, RefundWord, Sent
<1>2. w \in Words /\ "sent" \in Stage
  BY DEF Words, Stage
<1>4. refund'[p] = to /\ refund' \in [Packs -> RefundState]
  BY <1>0, <1>1 DEF PackTypeOK, RefundState
<1>5. /\ event'[p][w] = "sent"
      /\ \A v \in Words \ {w} : event'[p][v] = event[p][v]
  BY <1>0, <1>1, <1>2, EventBecomes
<1>6. SentFacts(p)
  BY <1>0 DEF PackFacts
<1>7. event[p][w] = "unsent" \/ to = "part"
  BY <1>1, <1>6 DEF SentFacts, RefundWord
<1>7a. event[p][w] = "unsent"
  BY <1>1, <1>6, <1>7 DEF SentFacts, RefundWord
<1>8. SentFacts(p)'
  <2>1. \A v \in DisputeWord \cup SessionWord : event'[p][v] = event[p][v]
    BY <1>1, <1>5 DEF Words, SessionWord, RefundWord, DisputeWord
  <2>2. \A v \in RefundWord \ {w} : event'[p][v] = event[p][v]
    BY <1>5 DEF Words
  <2> QED
    BY <1>1, <1>4, <1>5, <1>6, <2>1, <2>2
    DEF SentFacts, SessionWord, RefundWord, DisputeWord
<1>9. \A q \in Packs \ {p} : refund'[q] = refund[q]
  BY <1>0, <1>1 DEF PackTypeOK
<1> QED
  BY <1>0, <1>1, <1>2, <1>4, <1>7a, <1>8, <1>9, WaitingStep DEF PackTypeOK

LEMMA OpensSessionKeepsInv ==
    ASSUME PackInv, NEW p \in Packs, OpensSession(p)
    PROVE  PackInv'
<1> USE DEF orders, letters, disputeRows, marks
<1>0. PackTypeOK /\ PackFacts(p)
  BY DEF PackInv
<1>1. /\ checkout[p] = "none" /\ checkout'[p] = "open" /\ opening'[p] = "opened"
      /\ UNCHANGED <<orders, letters, disputeRows, asked, event, marks, refund, dispute>>
  BY <1>0 DEF OpensSession, PackFacts, GrantFacts, PackTypeOK
<1>2. PackTypeOK'
  BY <1>0 DEF OpensSession, PackTypeOK, PaymentState
<1>3. SentFacts(p)'
  BY <1>0, <1>1 DEF PackFacts, SentFacts
<1>4. Quiet(p)
  BY <1>0, <1>1 DEF Quiet, PackFacts, RefundFacts, DisputeFacts, Hearing, UnmatchedOf, Handled
<1>5. \A q \in Packs \ {p} : Same(q)
  BY <1>0 DEF OpensSession, PackTypeOK, Same
<1> QED
  BY <1>1, <1>2, <1>3, <1>4, <1>5, QuietStep

\* The dashboard's refund and its end, and the sweep's.
LEMMA RefundStepKeepsInv ==
    ASSUME PackInv, NEW p \in Packs, DashboardRefunds(p) \/ RefundEnds(p) \/ SweepAsks(p)
    PROVE  PackInv'
<1> USE DEF orders, letters, disputeRows, marks
<1>0. PackTypeOK /\ PackFacts(p)
  BY DEF PackInv
<1>1. CASE DashboardRefunds(p)
  <2>1. PICK to \in {"part", "pending", "succeeded"} : RefundMoves(p, to)
    BY <1>1 DEF DashboardRefunds
  <2> QED
    BY <1>0, <1>1, <2>1, RefundMoveKeepsInv DEF DashboardRefunds, PackTypeOK
<1>2. CASE RefundEnds(p)
  <2>1. PICK to \in {"succeeded", "failed"} : RefundMoves(p, to)
    BY <1>2 DEF RefundEnds
  <2> QED
    BY <1>0, <1>2, <2>1, RefundMoveKeepsInv DEF RefundEnds, PackTypeOK
<1>3. CASE SweepAsks(p)
  <2>1. CASE refund[p] \in {"none", "part"}
    <3>1. PICK to \in {"pending", "succeeded"} :
             RefundMoves(p, to) /\ asked' = [asked EXCEPT ![p] = to]
      BY <1>3, <2>1 DEF SweepAsks
    <3>2. asked' \in [Packs -> {"no", "pending", "succeeded", "failed"}]
      BY <1>0, <3>1 DEF PackTypeOK
    <3> QED
      BY <1>3, <2>1, <3>1, <3>2, RefundMoveKeepsInv DEF SweepAsks
  <2>2. CASE refund[p] \notin {"none", "part"}
    <3>1. UNCHANGED <<orders, letters, disputeRows, opening, marks, stripe, event>>
          /\ asked' = [asked EXCEPT ![p] = refund[p]]
      BY <1>3, <2>2 DEF SweepAsks, stripe
    <3>2. PackTypeOK'
      BY <1>0, <2>2, <3>1 DEF PackTypeOK, RefundState, stripe
    <3>3. SentFacts(p)'
      BY <1>0, <3>1 DEF PackFacts, SentFacts, stripe
    <3>4. Quiet(p)
      BY <1>0, <3>1 DEF Quiet, PackFacts, RefundFacts, DisputeFacts, GrantFacts, Hearing, stripe,
           UnmatchedOf, Handled
    <3>5. \A q \in Packs \ {p} : Same(q)
      BY <3>1 DEF Same, stripe
    <3> QED
      BY <3>1, <3>2, <3>3, <3>4, <3>5, QuietStep
  <2> QED
    BY <2>1, <2>2
<1> QED
  BY <1>1, <1>2, <1>3

\* An event is sent by the sweep, looks for its order, or is sent again.
LEMMA WaitingStepKeepsInv ==
    ASSUME PackInv, NEW p \in Packs, NEW w \in Words,
           \/ SweepRetrieves(p) \/ RefundFindsNoOrder(p, w) \/ DisputeFindsNoOrder(p, w)
           \/ LooksAgain(p, w) \/ DeliveryFails(p, w)
    PROVE  PackInv'
<1>0. PackTypeOK /\ PackFacts(p)
  BY DEF PackInv
<1>1. PICK v \in Words, s \in {"sent", "blind", "checked"} :
        /\ event' = Becomes(p, v, s)
        /\ \/ event[p][v] \in {"sent", "blind", "checked"}
           \/ v = "reconciled" /\ event[p][v] = "unsent" /\ checkout[p] \in {"paid", "expired"}
        /\ s = "checked" => p \notin known
  <2>1. CASE SweepRetrieves(p)
    <3>1. "reconciled" \in Words
      BY DEF Words, SessionWord
    <3>2. /\ event' = Becomes(p, "reconciled", "sent") /\ event[p]["reconciled"] = "unsent"
          /\ checkout[p] \in {"paid", "expired"}
      BY <2>1 DEF SweepRetrieves, Sent
    <3> QED
      BY <3>1, <3>2
  <2>2. CASE RefundFindsNoOrder(p, w) \/ DisputeFindsNoOrder(p, w)
    <3>1. event' = Becomes(p, w, "blind") /\ event[p][w] = "sent"
      BY <2>2 DEF RefundFindsNoOrder, DisputeFindsNoOrder
    <3> QED
      BY <3>1
  <2>4. CASE LooksAgain(p, w)
    <3>1. event[p][w] = "blind" /\ (p \in known => event' = Becomes(p, w, "sent"))
      BY <2>4 DEF LooksAgain
    <3>2. p \notin known => event' = Becomes(p, w, "checked")
      BY <2>4 DEF LooksAgain
    <3> QED
      BY <3>1, <3>2
  <2>5. CASE DeliveryFails(p, w)
    <3>1. event' = Becomes(p, w, "sent") /\ event[p][w] \in {"blind", "checked"}
      BY <2>5 DEF DeliveryFails
    <3> QED
      BY <3>1
  <2> QED
    BY <2>1, <2>2, <2>4, <2>5
<1>2. UNCHANGED <<orders, letters, disputeRows, opening, asked, marks, stripe>>
  BY DEF SweepRetrieves, RefundFindsNoOrder, DisputeFindsNoOrder, LooksAgain, DeliveryFails
<1>3. s \in Stage /\ s # "unsent"
  BY <1>1 DEF Stage
<1>4. /\ event'[p][v] = s
      /\ \A u \in Words \ {v} : event'[p][u] = event[p][u]
  BY <1>0, <1>1, <1>3, EventBecomes
<1>5. \A u \in Words : event'[p][u] # "unsent" <=>
         event[p][u] # "unsent" \/ (u = "reconciled" /\ v = u)
  BY <1>1, <1>3, <1>4
<1>6. checkout' = checkout /\ refund' = refund /\ dispute' = dispute /\ asked' = asked
  BY <1>2 DEF stripe
<1>7. SentFacts(p)'
  <2>1. v = "reconciled" => event[p][v] # "unsent" \/ checkout[p] \in {"paid", "expired"}
    BY <1>1
  <2>2. SentFacts(p)
    BY <1>0 DEF PackFacts
  <2> QED
    BY <1>5, <1>6, <2>1, <2>2 DEF SentFacts, Words, SessionWord, RefundWord, DisputeWord
<1>8. s = "checked" => p \notin ours
  BY <1>0, <1>1 DEF PackFacts, DisputeFacts
<1>9. {event[p][v], s} \cap {"unmatched", "handled"} = {}
  BY <1>1
<1> QED
  BY <1>0, <1>1, <1>2, <1>3, <1>6, <1>7, <1>8, <1>9, WaitingStep DEF PackTypeOK

\* What claiming an event changes of the others, and of what was sent.
LEMMA ClaimFacts ==
    ASSUME PackTypeOK, NEW p \in Packs, SentFacts(p), NEW w \in Words, NEW s \in Stage \ {"unsent"},
           event' = Becomes(p, w, s), event[p][w] \notin {"unsent", "unmatched", "handled"},
           UNCHANGED stripe
    PROVE  /\ event' \in [Packs -> [Words -> Stage]]
           /\ event'[p][w] = s
           /\ \A v \in Words \ {w} : event'[p][v] = event[p][v]
           /\ \A q \in Packs \ {p} : event'[q] = event[q]
           /\ SentFacts(p)'
           /\ UnmatchedOf(p) \subseteq UnmatchedOf(p)'
           /\ Hearing(p, {"checked"})' => Hearing(p, {"checked"}) \/ (w \in DisputeWord /\ s = "checked")
<1>1. /\ event' \in [Packs -> [Words -> Stage]]
      /\ event'[p][w] = s
      /\ \A v \in Words \ {w} : event'[p][v] = event[p][v]
      /\ \A q \in Packs \ {p} : event'[q] = event[q]
  BY EventBecomes
<1>2. SentFacts(p)'
  <2>1. \A v \in Words : event'[p][v] # "unsent" <=> event[p][v] # "unsent"
    BY <1>1
  <2> QED
    BY <2>1 DEF SentFacts, stripe, Words, SessionWord, RefundWord, DisputeWord
<1>3. UnmatchedOf(p) \subseteq UnmatchedOf(p)'
  BY <1>1 DEF UnmatchedOf
<1>4. Hearing(p, {"checked"})' => Hearing(p, {"checked"}) \/ (w \in DisputeWord /\ s = "checked")
  BY <1>1 DEF Hearing, Words
<1> QED
  BY <1>1, <1>2, <1>3, <1>4

\* A checkout or refund event is claimed, and grants nothing.
LEMMA QuietClaim ==
    ASSUME PackInv, NEW p \in Packs, NEW w \in SessionWord \cup RefundWord,
           NEW s \in {"unmatched", "handled"},
           event[p][w] \in {"sent", "blind", "checked"}, event' = Becomes(p, w, s),
           UNCHANGED <<grants, took, disputeRows, opening, asked, marks, stripe>>,
           NEW to \in PackStatus, status' = [status EXCEPT ![p] = to],
           code' \in [Packs -> {"none", "mismatch", "not_completed"}],
           known' \in {known, known \cup {p}}, live' \in {live, live \ {p}},
           status[p] \in Funded => to \in Funded,
           status[p] = "refunded" => to = "refunded",
           to = "refunded" => p \notin live',
           opening[p] = "idle" => to = status[p] /\ known' = known,
           w = "refund_succeeded" /\ s = "handled" => to = "refunded" /\ p \in known
    PROVE  PackInv'
<1> USE DEF disputeRows, marks
<1>0. PackTypeOK /\ PackFacts(p)
  BY DEF PackInv
<1>w. w \in Words /\ w \notin DisputeWord /\ s \in Stage \ {"unsent"}
  BY DEF Words, SessionWord, RefundWord, DisputeWord, Stage
<1>1. /\ event' \in [Packs -> [Words -> Stage]]
      /\ event'[p][w] = s
      /\ \A v \in Words \ {w} : event'[p][v] = event[p][v]
      /\ \A q \in Packs \ {p} : event'[q] = event[q]
      /\ SentFacts(p)'
      /\ UnmatchedOf(p) \subseteq UnmatchedOf(p)'
      /\ Hearing(p, {"checked"})' => Hearing(p, {"checked"})
  BY <1>0, <1>w, ClaimFacts DEF PackFacts
<1>2. status' \in [Packs -> PackStatus] /\ status'[p] = to
      /\ \A q \in Packs \ {p} : status'[q] = status[q]
  BY <1>0 DEF PackTypeOK
<1>3. checkout' = checkout /\ refund' = refund /\ dispute' = dispute
  BY DEF stripe
<1>4. PackTypeOK'
  BY <1>0, <1>1, <1>2, <1>3 DEF PackTypeOK
<1>5. Quiet(p)
  <2>1. \A v \in DisputeWord : Handled(p, v)' <=> Handled(p, v)
    BY <1>1, <1>w DEF Handled, Words
  <2>2. Handled(p, "refund_succeeded")' => Handled(p, "refund_succeeded") \/
            (p \in known' /\ status'[p] = "refunded")
    <3>1. "refund_succeeded" \in Words
      BY DEF Words, RefundWord
    <3> QED
      BY <1>1, <1>2, <3>1 DEF Handled
  <2>3. Hearing(p, {"checked"})' => p \notin ours
    BY <1>0, <1>1 DEF PackFacts, DisputeFacts
  <2>4. /\ opening'[p] = "idle" => status'[p] = "none" /\ p \notin known'
        /\ opening'[p] \in {"idle", "inserted"} => checkout'[p] = "none"
    BY <1>0, <1>2, <1>3 DEF PackFacts, GrantFacts
  <2> QED
    BY <1>1, <1>2, <1>3, <2>1, <2>2, <2>3, <2>4 DEF Quiet
<1>6. \A q \in Packs \ {p} : Same(q)
  BY <1>1, <1>2, <1>3 DEF Same
<1> QED
  BY <1>1, <1>4, <1>5, <1>6, QuietStep

\* A checkout event is of a session that Stripe opened.
LEMMA NewsFacts ==
    ASSUME NEW p \in Packs, SentFacts(p), GrantFacts(p), NEW w \in SessionWord, event[p][w] = "sent"
    PROVE  /\ News(p, w) \in {"paid", "unpaid", "failed", "expired"}
           /\ News(p, w) = "paid" => checkout[p] = "paid"
           /\ opening[p] \notin {"idle", "inserted"}
<1>1. /\ News(p, w) \in {"paid", "unpaid", "failed", "expired"}
      /\ News(p, w) = "paid" => checkout[p] = "paid"
  BY DEF News, SentFacts, SessionWord
<1>2. checkout[p] # "none"
  BY DEF SentFacts, SessionWord
<1> QED
  BY <1>1, <1>2 DEF GrantFacts

LEMMA QuietClaimKeepsInv ==
    ASSUME PackInv, NEW p \in Packs, NEW w \in Words,
           \/ FindsNoOrder(p, w) \/ CheckoutFails(p, w) \/ RecordsUnmatchedRefund(p, w)
           \/ HearsRefund(p, w)
    PROVE  PackInv'
<1> USE DEF orders, letters
<1>0. PackTypeOK /\ PackFacts(p)
  BY DEF PackInv
<1>s. status[p] \in PackStatus /\ status = [status EXCEPT ![p] = status[p]]
  BY <1>0 DEF PackTypeOK
<1>c. code \in [Packs -> {"none", "mismatch", "not_completed"}]
  BY <1>0 DEF PackTypeOK
<1>l. status[p] = "refunded" => p \notin live
  BY <1>0 DEF PackFacts, RefundFacts
<1>1. CASE FindsNoOrder(p, w)
  <2>1. PICK s \in {"unmatched", "handled"} : event' = Becomes(p, w, s)
    BY <1>1 DEF FindsNoOrder
  <2>2. w \in SessionWord /\ w \notin RefundWord /\ event[p][w] = "sent"
        /\ UNCHANGED <<orders, letters, disputeRows, opening, asked, marks, stripe>>
    BY <1>1 DEF FindsNoOrder, SessionWord, RefundWord
  <2>3. w # "refund_succeeded"
    BY <2>2 DEF RefundWord
  <2> QED
    BY <1>s, <1>c, <1>l, <2>1, <2>2, <2>3, QuietClaim
<1>2. CASE RecordsUnmatchedRefund(p, w)
  BY <1>2, <1>s, <1>c, <1>l, QuietClaim DEF RecordsUnmatchedRefund
<1>3. CASE CheckoutFails(p, w)
  <2>1. w \in SessionWord /\ event[p][w] = "sent" /\ event' = Becomes(p, w, "handled")
        /\ known' \in {known, known \cup {p}}
        /\ UNCHANGED <<code, letters, disputeRows, opening, asked, marks, stripe>>
    BY <1>3 DEF CheckoutFails, CheckoutEvent
  <2>2. opening[p] # "idle" /\ w # "refund_succeeded"
    BY <1>0, <2>1, NewsFacts DEF PackFacts, SessionWord
  <2>3. PICK to \in PackStatus : /\ status' = [status EXCEPT ![p] = to]
                                 /\ status[p] \in Funded => to = status[p]
                                 /\ to = "refunded" => to = status[p]
    <3>1. {"payment_failed", "cancelled"} \subseteq PackStatus
      BY DEF PackStatus
    <3>2. Before(p) # "checkout_pending" => status' = [status EXCEPT ![p] = status[p]]
      BY <1>3 DEF CheckoutFails
    <3>3. Before(p) = "checkout_pending" => status[p] \notin Funded
      BY DEF Before, Funded
    <3>4. Before(p) = "checkout_pending" =>
             \/ status' = [status EXCEPT ![p] = "payment_failed"]
             \/ status' = [status EXCEPT ![p] = "cancelled"]
      BY <1>3 DEF CheckoutFails
    <3> QED
      BY <1>s, <3>1, <3>2, <3>3, <3>4
  <2>4. /\ code' \in [Packs -> {"none", "mismatch", "not_completed"}]
        /\ UNCHANGED <<grants, took, disputeRows, opening, asked, marks, stripe>>
        /\ live' = live
    BY <1>c, <2>1
  <2>5. /\ status[p] \in Funded => to \in Funded
        /\ status[p] = "refunded" => to = "refunded"
        /\ to = "refunded" => p \notin live
    BY <1>l, <2>3 DEF Funded
  <2> QED
    BY <2>1, <2>2, <2>3, <2>4, <2>5, QuietClaim
<1>4. CASE HearsRefund(p, w)
  <2> DEFINE acts == CompletesThePayment(p, w) /\ status[p] # "refunded"
             done == acts /\ w = "refund_succeeded"
             to == IF done THEN "refunded" ELSE IF acts THEN "refund_pending" ELSE status[p]
  <2>1. /\ w \in RefundWord /\ event[p][w] = "sent" /\ p \in known
        /\ event' = Becomes(p, w, "handled") /\ known' = known
        /\ UNCHANGED <<grants, took, disputeRows, opening, asked, marks, stripe>>
        /\ live' = IF done THEN live \ {p} ELSE live
    BY <1>4 DEF HearsRefund, Revokes
  <2>2. status' = [status EXCEPT ![p] = to]
    BY <1>4 DEF HearsRefund
  <2>3. code' \in [Packs -> {"none", "mismatch", "not_completed"}]
    BY <1>4, <1>c DEF HearsRefund
  <2>4. to \in PackStatus /\ (status[p] \in Funded => to \in Funded)
    <3>1. {"refunded", "refund_pending"} \subseteq PackStatus \cap Funded
      BY DEF PackStatus, Funded
    <3> QED
      BY <1>s, <3>1
  <2>5. w = "refund_succeeded" => to = "refunded"
    BY DEF CompletesThePayment
  <2>6. to = "refunded" => p \notin live'
    BY <2>1, <1>l
  <2>7. status[p] = "refunded" => to = "refunded"
    OBVIOUS
  <2>8. opening[p] # "idle" \/ to = status[p]
    BY <1>0, <2>1 DEF PackFacts, GrantFacts
  <2> HIDE DEF acts, done, to
  <2> QED
    BY <2>1, <2>2, <2>3, <2>4, <2>5, <2>6, <2>7, <2>8, QuietClaim
<1> QED
  BY <1>1, <1>2, <1>3, <1>4

-----------------------------------------------------------------------------
(* The steps that bring letters or move the dispute's row. *)

LEMMA TransitionPaidCheckoutKeepsInv ==
    ASSUME PackInv, NEW p \in Packs, NEW w \in Words, TransitionPaidCheckout(p, w)
    PROVE  PackInv'
<1> USE DEF orders, letters, disputeRows, marks
<1> DEFINE paid == News(p, w) = "paid" /\ Before(p) \notin Funded
           grant == paid /\ p \notin odd
           to == IF grant THEN "fulfilled" ELSE IF paid THEN "refund_pending" ELSE Before(p)
<1>0. PackTypeOK /\ PackFacts(p)
  BY DEF PackInv
<1>1. /\ w \in SessionWord /\ event[p][w] = "sent" /\ UnmatchedOf(p) = {}
      /\ status' = [status EXCEPT ![p] = to]
      /\ code' = [code EXCEPT ![p] = IF grant THEN "none" ELSE IF paid THEN "mismatch" ELSE @]
      /\ known' = known \cup {p}
      /\ grants' = [grants EXCEPT ![p] = IF grant THEN @ + 1 ELSE @]
      /\ live' = IF grant THEN live \cup {p} ELSE live
      /\ event' = Becomes(p, w, "handled")
      /\ UNCHANGED <<took, disputeRows, opening, asked, marks, stripe>>
  BY DEF TransitionPaidCheckout, CheckoutEvent
<1>2. /\ News(p, w) = "paid" => checkout[p] = "paid"
      /\ opening[p] \notin {"idle", "inserted"}
  BY <1>0, <1>1, NewsFacts DEF PackFacts
<1>3. Before(p) \in PackStatus /\ (status[p] \in Funded => Before(p) = status[p])
      /\ (Before(p) \in Funded => Before(p) = status[p])
  BY <1>0 DEF Before, PackTypeOK, PackStatus, Funded
<1>4. code' \in [Packs -> {"none", "mismatch", "not_completed"}]
  BY <1>0, <1>1 DEF PackTypeOK
<1>5. to \in PackStatus
  BY <1>3 DEF PackStatus
<1>6. CASE ~grant
  <2>1. grants' = grants /\ live' = live
    BY <1>0, <1>1, <1>6 DEF PackTypeOK
  <2>2. status[p] = "refunded" => p \notin live
    BY <1>0 DEF PackFacts, RefundFacts
  <2>3. /\ status[p] \in Funded => to \in Funded
        /\ status[p] = "refunded" => to = "refunded"
        /\ to = "refunded" => p \notin live'
    BY <1>3, <1>6, <2>1, <2>2 DEF Funded
  <2>4. w # "refund_succeeded" /\ opening[p] # "idle"
    BY <1>1, <1>2 DEF SessionWord
  <2> HIDE DEF to, grant
  <2> QED
    BY <1>1, <1>4, <1>5, <2>1, <2>3, <2>4, QuietClaim
<1>7. CASE grant
  <2>0. paid /\ p \notin odd /\ to = "fulfilled" /\ status[p] \notin Funded
    BY <1>3, <1>7
  <2>1. grants[p] = 0 /\ p \notin live /\ p \notin took
    BY <1>0, <2>0 DEF PackFacts, GrantFacts
  <2>2. w \in Words /\ w \notin DisputeWord \cup RefundWord /\ "handled" \in Stage
    BY <1>1 DEF Words, SessionWord, RefundWord, DisputeWord, Stage
  <2>3. /\ event' \in [Packs -> [Words -> Stage]]
        /\ event'[p][w] = "handled"
        /\ \A v \in Words \ {w} : event'[p][v] = event[p][v]
        /\ \A q \in Packs \ {p} : event'[q] = event[q]
        /\ SentFacts(p)'
        /\ UnmatchedOf(p) \subseteq UnmatchedOf(p)'
        /\ Hearing(p, {"checked"})' => Hearing(p, {"checked"})
    BY <1>0, <1>1, <2>2, ClaimFacts DEF PackFacts
  <2>4. grants' \in [Packs -> Nat] /\ grants'[p] = 1 /\ \A q \in Packs \ {p} : grants'[q] = grants[q]
    <3>1. grants' = [grants EXCEPT ![p] = grants[p] + 1]
      BY <1>1, <1>7
    <3>2. grants[p] + 1 = 1
      BY <2>1
    <3> QED
      BY <1>0, <3>1, <3>2 DEF PackTypeOK
  <2>5. status' \in [Packs -> PackStatus] /\ status'[p] = "fulfilled"
        /\ \A q \in Packs \ {p} : status'[q] = status[q]
    BY <1>0, <1>1, <1>5, <2>0 DEF PackTypeOK
  <2>6. live' = live \cup {p}
    BY <1>1, <1>7
  <2>7. checkout' = checkout /\ refund' = refund /\ dispute' = dispute
    BY <1>1 DEF stripe
  <2> HIDE DEF paid, grant, to
  <2>8. PackTypeOK'
    BY <1>0, <1>1, <1>4, <2>3, <2>4, <2>5, <2>6, <2>7 DEF PackTypeOK
  <2>9. checkout[p] = "paid"
    BY <1>2, <2>0 DEF paid
  <2>10. p \in ours => p \in late
    BY <1>0, <1>1, <2>0 DEF PackFacts, DisputeFacts
  <2>11. \A v \in RefundWord \cup DisputeWord : Handled(p, v)' <=> Handled(p, v)
    BY <2>2, <2>3 DEF Handled, Words
  <2>12. GrantFacts(p)'
    BY <1>1, <1>2, <2>0, <2>4, <2>5, <2>6, <2>7, <2>9 DEF GrantFacts, Funded
  <2>13. DisputeFacts(p)'
    BY <1>0, <1>1, <2>3, <2>5, <2>7, <2>11 DEF PackFacts, DisputeFacts, Funded
  <2>14. LossFacts(p)'
    <3>1. p \notin late => ~Handled(p, "opened")' /\ ~Handled(p, "closed")'
      BY <1>0, <2>10, <2>11 DEF PackFacts, DisputeFacts, DisputeWord
    <3> QED
      BY <1>1, <2>10, <3>1 DEF LossFacts
  <2>15. RefundFacts(p)'
    <3>1. ~Handled(p, "refund_succeeded")'
      BY <1>0, <2>0, <2>11 DEF PackFacts, RefundFacts, RefundWord
    <3> QED
      BY <2>5, <3>1 DEF RefundFacts
  <2>16. PackFacts(p)'
    BY <2>3, <2>12, <2>13, <2>14, <2>15 DEF PackFacts
  <2>17. SomeLoss'
    BY <1>1 DEF PackInv, SomeLoss
  <2>18. \A q \in Packs \ {p} : Same(q)
    BY <1>1, <2>3, <2>4, <2>5, <2>6, <2>7 DEF Same
  <2> QED
    BY <1>1, <2>8, <2>16, <2>17, <2>18, OnePackStep
<1> QED
  BY <1>6, <1>7

LEMMA RecordsUnmatchedDisputeKeepsInv ==
    ASSUME PackInv, NEW p \in Packs, NEW w \in Words, RecordsUnmatchedDispute(p, w)
    PROVE  PackInv'
<1> USE DEF orders, letters, marks
<1>0. PackTypeOK /\ PackFacts(p)
  BY DEF PackInv
<1>1. /\ w \in DisputeWord /\ event[p][w] = "checked" /\ "unmatched" \in Stage
      /\ row' = [row EXCEPT ![p] = Kept(p, w)] /\ event' = Becomes(p, w, "unmatched")
      /\ UNCHANGED <<orders, letters, ours, blocked, opening, asked, marks, stripe>>
  BY DEF RecordsUnmatchedDispute, Stage
<1>2. checkout' = checkout /\ refund' = refund /\ dispute' = dispute
  BY <1>1 DEF stripe
<1>3. /\ event' \in [Packs -> [Words -> Stage]]
      /\ event'[p][w] = "unmatched"
      /\ \A v \in Words \ {w} : event'[p][v] = event[p][v]
      /\ \A q \in Packs \ {p} : event'[q] = event[q]
      /\ SentFacts(p)'
      /\ UnmatchedOf(p) \subseteq UnmatchedOf(p)'
  BY <1>0, <1>1, ClaimFacts DEF PackFacts
<1>4. p \notin ours
  BY <1>0, <1>1 DEF PackFacts, DisputeFacts, Hearing
<1>5. p \notin took
  BY <1>0, <1>4 DEF PackFacts, DisputeFacts
<1>6. /\ Kept(p, w) \in DisputeState
      /\ Kept(p, w) \in Loss => dispute[p] \in {"open", "won", "lost"}
      /\ Kept(p, w) \in Closed => Kept(p, w) = dispute[p]
  <2>1. row[p] \in DisputeState /\ dispute[p] \in DisputeState
    BY <1>0 DEF PackTypeOK
  <2>2. SentFacts(p) /\ DisputeFacts(p)
    BY <1>0 DEF PackFacts
  <2> QED
    BY <1>1, <2>1, <2>2 DEF Kept, Says, SettledBefore, PriorLoss, SentFacts, DisputeFacts,
       DisputeWord, DisputeState, Loss, Closed
<1>7. row' \in [Packs -> DisputeState] /\ row'[p] = Kept(p, w)
      /\ \A q \in Packs \ {p} : row'[q] = row[q]
  BY <1>0, <1>1, <1>6 DEF PackTypeOK
<1>8. PackTypeOK'
  BY <1>0, <1>1, <1>2, <1>3, <1>7 DEF PackTypeOK
<1>9. \A v \in Words : Handled(p, v)' <=> Handled(p, v)
  BY <1>1, <1>3 DEF Handled
<1>10. GrantFacts(p)'
  BY <1>0, <1>1, <1>2 DEF PackFacts, GrantFacts
<1>11. DisputeFacts(p)'
  <2>1. w \in UnmatchedOf(p)' \cap DisputeWord
    BY <1>1, <1>3 DEF UnmatchedOf, Words
  <2>2. p \notin ours' /\ p \notin took'
    BY <1>1, <1>4, <1>5
  <2>3. \A v \in DisputeWord : ~Handled(p, v)'
    BY <1>0, <1>4, <1>9 DEF PackFacts, DisputeFacts, Words
  <2> QED
    BY <1>2, <1>6, <1>7, <2>1, <2>2, <2>3 DEF DisputeFacts
<1>12. LossFacts(p)'
  <2>1. p \in live \ late => ~Handled(p, "opened") /\ ~Handled(p, "closed")
    BY <1>0, <1>4 DEF PackFacts, LossFacts
  <2> QED
    BY <1>1, <1>4, <1>9, <2>1 DEF LossFacts, Words, DisputeWord
<1>13. RefundFacts(p)'
  BY <1>0, <1>1, <1>9 DEF PackFacts, RefundFacts, Words, DisputeWord, RefundWord
<1>14. SomeLoss'
  BY <1>0, <1>1, <1>4, <1>7 DEF PackInv, SomeLoss, PackTypeOK
<1>15. \A q \in Packs \ {p} : Same(q)
  BY <1>1, <1>2, <1>3, <1>7 DEF Same
<1> QED
  BY <1>1, <1>3, <1>8, <1>10, <1>11, <1>12, <1>13, <1>14, <1>15, OnePackStep DEF PackFacts

LEMMA RecoversMoneyKeepsInv ==
    ASSUME PackInv, NEW p \in Packs, NEW w \in Words, RecoversMoney(p, w)
    PROVE  PackInv'
<1> USE DEF orders, letters, marks
<1> DEFINE disputed == UnmatchedOf(p) \cap DisputeWord # {}
           taken == disputed /\ p \notin ours
           loss == taken /\ row[p] \in Loss
           to == IF disputed THEN "disputed" ELSE "refund_pending"
           heard == UnmatchedOf(p) \cup {w}
<1>0. PackTypeOK /\ PackFacts(p)
  BY DEF PackInv
<1>1. /\ w \in SessionWord /\ event[p][w] = "sent" /\ UnmatchedOf(p) # {}
      /\ disputed => DisputeIsFree(p)
      /\ status' = [status EXCEPT ![p] = to]
      /\ code' = [code EXCEPT ![p] = IF @ = "mismatch" THEN @ ELSE "none"]
      /\ known' = known \cup {p}
      /\ event' = [event EXCEPT ![p] = [v \in Words |->
             IF v = w \/ v \in UnmatchedOf(p) THEN "handled" ELSE event[p][v]]]
      /\ ours' = IF taken THEN ours \cup {p} ELSE ours
      /\ blocked' = (blocked \/ loss)
      /\ IF loss /\ Before(p) # "checkout_pending" THEN Revokes(p, TRUE) ELSE UNCHANGED letters
      /\ late' = IF p \in known THEN late \cup {p} ELSE late
      /\ UNCHANGED <<row, opening, asked, odd, stripe>>
  BY DEF RecoversMoney, TakesOver, CheckoutEvent
<1>2. checkout' = checkout /\ refund' = refund /\ dispute' = dispute
  BY <1>1 DEF stripe
<1>3. opening[p] \notin {"idle", "inserted"}
  BY <1>0, <1>1, NewsFacts DEF PackFacts
<1>4. /\ event' \in [Packs -> [Words -> Stage]]
      /\ \A v \in heard : event'[p][v] = "handled"
      /\ \A v \in Words \ heard : event'[p][v] = event[p][v]
      /\ \A q \in Packs \ {p} : event'[q] = event[q]
  <2>1. "handled" \in Stage /\ heard \subseteq Words
    BY DEF Stage, UnmatchedOf
  <2> QED
    BY <1>0, <1>1, <2>1 DEF PackTypeOK
<1>5. UnmatchedOf(p)' = {}
  BY <1>4 DEF UnmatchedOf
<1>6. SentFacts(p)'
  <2>1. \A v \in heard : event[p][v] # "unsent"
    BY <1>1 DEF UnmatchedOf
  <2>2. \A v \in Words : event'[p][v] # "unsent" <=> event[p][v] # "unsent"
    BY <1>4, <2>1
  <2> QED
    BY <1>0, <1>2, <2>2 DEF PackFacts, SentFacts, Words, SessionWord, RefundWord, DisputeWord
<1>7. /\ took \subseteq took' /\ live' \subseteq live
      /\ took' \subseteq took \cup ({p} \cap live)
      /\ p \in took' \ took => loss
      /\ grants' = grants
      /\ loss /\ Before(p) # "checkout_pending" => p \notin live'
      /\ \A q \in Packs \ {p} : (q \in live' <=> q \in live) /\ (q \in took' <=> q \in took)
  BY <1>1 DEF Revokes
<1>8. status' \in [Packs -> PackStatus] /\ status'[p] = to /\ to \in Funded \ {"refunded"}
      /\ \A q \in Packs \ {p} : status'[q] = status[q]
  BY <1>0, <1>1 DEF PackTypeOK, PackStatus, Funded
<1>9. code' \in [Packs -> {"none", "mismatch", "not_completed"}]
  BY <1>0, <1>1 DEF PackTypeOK
<1>u. row' = row /\ opening' = opening /\ asked' = asked /\ odd' = odd
  BY <1>1
<1>ours. /\ ours \subseteq ours' /\ ours' \subseteq ours \cup {p}
         /\ p \in ours' <=> p \in ours \/ disputed
         /\ \A q \in Packs \ {p} : q \in ours' <=> q \in ours
  BY <1>1
<1>late. p \in late' <=> p \in late \/ p \in known
  BY <1>1
<1>lates. late' \subseteq late \cup {p} /\ \A q \in Packs \ {p} : q \in late' <=> q \in late
  BY <1>1
<1>k. known' = known \cup {p}
  BY <1>1
<1>b. blocked' = (blocked \/ loss)
  BY <1>1
<1> HIDE DEF to
<1>10. PackTypeOK'
  BY <1>0, <1>2, <1>4, <1>7, <1>8, <1>9, <1>u, <1>ours, <1>lates, <1>k, <1>b DEF PackTypeOK
<1>11. GrantFacts(p)'
  BY <1>0, <1>2, <1>3, <1>7, <1>8, <1>u, <1>k DEF PackFacts, GrantFacts
<1>d. w \notin DisputeWord \cup RefundWord /\ DisputeWord \cup RefundWord \subseteq Words
  BY <1>1 DEF SessionWord, DisputeWord, RefundWord, Words
<1>12. DisputeFacts(p)'
  <2>1. Hearing(p, {"checked"})' => p \notin ours'
    <3>1. Hearing(p, {"checked"})' => Hearing(p, {"checked"})
      BY <1>4, <1>d DEF Hearing
    <3>2. disputed => ~Hearing(p, {"checked"})
      BY <1>1 DEF DisputeIsFree, Hearing
    <3> QED
      BY <1>0, <1>ours, <3>1, <3>2 DEF PackFacts, DisputeFacts
  <2>2. p \notin ours' => ~disputed /\ p \notin ours /\ row[p] = "none"
    BY <1>0, <1>ours DEF PackFacts, DisputeFacts
  <2>3. p \notin ours' => \A v \in DisputeWord : ~Handled(p, v)'
    <3> SUFFICES ASSUME p \notin ours', NEW v \in DisputeWord PROVE ~Handled(p, v)'
      OBVIOUS
    <3>1. v \notin heard
      BY <1>d, <2>2
    <3>2. ~Handled(p, v)
      BY <1>0, <2>2 DEF PackFacts, DisputeFacts
    <3> QED
      BY <1>4, <1>d, <3>1, <3>2 DEF Handled
  <2>4. p \in took' => p \in ours' /\ row[p] \in {"open", "lost", "won"}
    BY <1>0, <1>7, <1>ours DEF PackFacts, DisputeFacts, Loss
  <2>5. DisputeFacts(p)
    BY <1>0 DEF PackFacts
  <2>6. row'[p] = row[p] /\ dispute'[p] = dispute[p] /\ p \in known'
    BY <1>u, <1>2, <1>k
  <2> QED
    BY <1>8, <2>1, <2>2, <2>3, <2>4, <2>5, <2>6 DEF DisputeFacts
<1>13. p \notin known => p \notin live /\ p \notin took /\ p \notin ours
  BY <1>0 DEF PackFacts, GrantFacts, DisputeFacts
<1>14. LossFacts(p)'
  <2>1. ASSUME p \in ours', row[p] \in Loss PROVE (blocked' /\ p \notin live') \/ p \in late'
    <3>1. CASE p \in ours
      BY <3>1, <1>13, <1>late
    <3>2. CASE p \notin ours
      <4>1. loss
        BY <2>1, <3>2, <1>ours
      <4>2. Before(p) = "checkout_pending" => p \notin live
        BY <1>0 DEF PackFacts, GrantFacts, Before, Funded
      <4> QED
        BY <4>1, <4>2, <1>7, <1>b
    <3> QED
      BY <3>1, <3>2
  <2>2. p \in live' => p \in late'
    BY <1>7, <1>13, <1>late
  <2> QED
    BY <1>u, <2>1, <2>2 DEF LossFacts
<1>15. RefundFacts(p)'
  <2>1. p \notin late' => p \notin live' /\ p \notin took'
    BY <1>7, <1>13, <1>late
  <2> QED
    BY <1>8, <1>k, <2>1 DEF RefundFacts
<1>16. SomeLoss'
  <2>1. loss => p \in ours' /\ row[p] \in Loss
    BY <1>ours
  <2>2. blocked => \E q \in ours : row[q] \in Loss
    BY DEF PackInv, SomeLoss
  <2> QED
    BY <1>b, <1>u, <1>ours, <2>1, <2>2 DEF SomeLoss
<1>17. \A q \in Packs \ {p} : Same(q)
  BY <1>2, <1>4, <1>7, <1>8, <1>u, <1>ours, <1>lates, <1>k DEF Same
<1> QED
  BY <1>b, <1>6, <1>10, <1>11, <1>12, <1>14, <1>15, <1>16, <1>17, OnePackStep DEF PackFacts

\* What a dispute event makes of the dispute's row, and when it acts.
LEMMA KeptFacts ==
    ASSUME PackTypeOK, NEW p \in Packs, SentFacts(p), DisputeFacts(p), NEW w \in DisputeWord,
           event[p][w] \notin {"unsent", "handled"}
    PROVE  /\ Kept(p, w) \in DisputeState
           /\ Kept(p, w) \in Loss => dispute[p] \in {"open", "won", "lost"}
           /\ Kept(p, w) \in Closed => Kept(p, w) = dispute[p]
           /\ ~RecordedOnly(p, w) => Kept(p, w) = Says(p, w)
           /\ RecordedOnly(p, w) =>
                 /\ row[p] \in Loss <=> Kept(p, w) \in Loss
                 /\ row[p] # "none" /\ w # "closed"
                 /\ row[p] \in {"open", "lost", "won"} => Kept(p, w) \in {"open", "lost", "won"}
           /\ w = "closed" => Kept(p, w) = dispute[p] /\ Kept(p, w) \in Closed
           /\ w = "opened" => Says(p, w) \in Loss /\ Kept(p, w) \in {"open"} \cup Closed
           /\ p \in took /\ ~RecordedOnly(p, w) => w = "closed" /\ Says(p, w) \in {"won", "lost"}
           /\ p \in ours /\ row[p] \in Loss /\ ~RecordedOnly(p, w) =>
                 w = "closed" /\ Says(p, w) \in {"won", "lost"}
           /\ p \in ours /\ row[p] \in {"open"} \cup Closed => Kept(p, w) \in {"open"} \cup Closed
           /\ row[p] \in Closed => Kept(p, w) = row[p]
<1>1. row[p] \in DisputeState /\ dispute[p] \in DisputeState
  BY DEF PackTypeOK
<1>2. CASE w = "inquiry"
  BY <1>1, <1>2 DEF Kept, Says, RecordedOnly, SettledBefore, PriorLoss, SentFacts, DisputeFacts,
     DisputeWord, DisputeState, Loss, Closed
<1>3. CASE w = "opened"
  BY <1>1, <1>3 DEF Kept, Says, RecordedOnly, SettledBefore, PriorLoss, SentFacts, DisputeFacts,
     DisputeWord, DisputeState, Loss, Closed
<1>4. CASE w = "closed"
  BY <1>1, <1>4 DEF Kept, Says, RecordedOnly, SettledBefore, PriorLoss, SentFacts, DisputeFacts,
     DisputeWord, DisputeState, Loss, Closed
<1> QED
  BY <1>2, <1>3, <1>4 DEF DisputeWord

LEMMA HearsDisputeKeepsInv ==
    ASSUME PackInv, NEW p \in Packs, NEW w \in Words, HearsDispute(p, w)
    PROVE  PackInv'
<1> USE DEF orders, letters, marks
<1> DEFINE acts == ~RecordedOnly(p, w)
           loss == acts /\ Says(p, w) \in Loss
           won == acts /\ Says(p, w) = "won"
           back == ~loss /\ won /\ p \in took /\ status[p] \notin {"refunded", "refund_pending"}
           to == IF acts THEN "disputed" ELSE status[p]
<1>0. PackTypeOK /\ PackFacts(p) /\ SentFacts(p) /\ DisputeFacts(p)
  BY DEF PackInv, PackFacts
<1>1. /\ w \in DisputeWord /\ event[p][w] = "sent" /\ p \in known
      /\ ~Hearing(p, {"blind", "checked"})
      /\ row' = [row EXCEPT ![p] = Kept(p, w)]
      /\ ours' = ours \cup {p}
      /\ status' = [status EXCEPT ![p] = to]
      /\ blocked' = IF loss THEN TRUE ELSE IF won THEN Unblocked(p) ELSE blocked
      /\ IF loss THEN Revokes(p, TRUE)
         ELSE IF won /\ p \in took /\ status[p] \notin {"refunded", "refund_pending"}
         THEN live' = live \cup {p} /\ took' = took \ {p} /\ UNCHANGED grants
         ELSE UNCHANGED letters
      /\ event' = Becomes(p, w, "handled")
      /\ UNCHANGED <<code, known, opening, asked, marks, stripe>>
  BY DEF HearsDispute, Compensable
<1>2. checkout' = checkout /\ refund' = refund /\ dispute' = dispute
  BY <1>1 DEF stripe
<1>3. /\ event' \in [Packs -> [Words -> Stage]]
      /\ event'[p][w] = "handled"
      /\ \A v \in Words \ {w} : event'[p][v] = event[p][v]
      /\ \A q \in Packs \ {p} : event'[q] = event[q]
      /\ SentFacts(p)'
      /\ UnmatchedOf(p) \subseteq UnmatchedOf(p)'
      /\ Hearing(p, {"checked"})' => Hearing(p, {"checked"})
  <2>1. "handled" \in Stage \ {"unsent"}
    BY DEF Stage
  <2> QED
    BY <1>0, <1>1, <2>1, ClaimFacts
<1>4. /\ loss => p \notin live' /\ took' = took \cup ({p} \cap live) /\ live' = live \ {p}
      /\ back => live' = live \cup {p} /\ took' = took \ {p}
      /\ ~loss /\ ~back => live' = live /\ took' = took
      /\ grants' = grants
  BY <1>1 DEF Revokes
<1>k. /\ Kept(p, w) \in DisputeState
      /\ Kept(p, w) \in Loss => dispute[p] \in {"open", "won", "lost"}
      /\ Kept(p, w) \in Closed => Kept(p, w) = dispute[p]
      /\ acts => Kept(p, w) = Says(p, w)
      /\ ~acts => /\ row[p] \in Loss <=> Kept(p, w) \in Loss
                  /\ row[p] # "none" /\ w # "closed"
                  /\ row[p] \in {"open", "lost", "won"} => Kept(p, w) \in {"open", "lost", "won"}
      /\ w = "closed" => Kept(p, w) = dispute[p] /\ Kept(p, w) \in Closed
      /\ w = "opened" => Says(p, w) \in Loss /\ Kept(p, w) \in {"open"} \cup Closed
      /\ p \in took /\ acts => w = "closed" /\ Says(p, w) \in {"won", "lost"}
      /\ p \in ours /\ row[p] \in Loss /\ acts => w = "closed" /\ Says(p, w) \in {"won", "lost"}
      /\ p \in ours /\ row[p] \in {"open"} \cup Closed => Kept(p, w) \in {"open"} \cup Closed
      /\ row[p] \in Closed => Kept(p, w) = row[p]
  BY <1>0, <1>1, KeptFacts
<1>5. row' \in [Packs -> DisputeState] /\ row'[p] = Kept(p, w)
      /\ \A q \in Packs \ {p} : row'[q] = row[q]
  BY <1>0, <1>1, <1>k DEF PackTypeOK
<1>6. /\ status' \in [Packs -> PackStatus] /\ status'[p] = to
      /\ \A q \in Packs \ {p} : status'[q] = status[q]
  <2>1. to \in PackStatus
    BY <1>0 DEF PackTypeOK, PackStatus
  <2> QED
    BY <1>0, <1>1, <2>1 DEF PackTypeOK
<1>7. /\ loss => blocked' = TRUE
      /\ ~loss /\ ~won => blocked' = blocked
      /\ won /\ ~loss => (blocked' <=> blocked /\ \E q \in ours \ {p} : row[q] \in Loss)
      /\ blocked' \in BOOLEAN
  <2>1. Unblocked(p) \in BOOLEAN /\ blocked \in BOOLEAN
    BY <1>0 DEF Unblocked, PackTypeOK
  <2> QED
    BY <1>1, <2>1 DEF Unblocked
<1>8. /\ loss => acts /\ Says(p, w) \in Loss /\ ~won
      /\ won => acts /\ Says(p, w) = "won" /\ ~loss
      /\ acts /\ Says(p, w) \in Loss => loss
      /\ acts /\ Says(p, w) = "won" => won
      /\ back => /\ won /\ p \in took /\ p \notin {q \in Packs : status[q] = "refunded"}
                 /\ status[p] # "refunded" /\ Kept(p, w) = "won" /\ w = "closed"
      /\ to = IF acts THEN "disputed" ELSE status[p]
  <2>1. ~("won" \in Loss)
    BY DEF Loss
  <2> QED
    BY <1>k, <2>1
<1>9. /\ known' = known /\ opening' = opening /\ asked' = asked /\ odd' = odd /\ late' = late
      /\ code' = code /\ ours' = ours \cup {p}
  BY <1>1
<1> HIDE DEF acts, loss, won, back, to
<1>10. /\ p \in live' \cup took' => p \in live \cup took
       /\ live' \subseteq Packs /\ took' \subseteq Packs
       /\ \A q \in Packs \ {p} : (q \in live' <=> q \in live) /\ (q \in took' <=> q \in took)
  BY <1>0, <1>4, <1>8 DEF PackTypeOK
<1>11. PackTypeOK'
  BY <1>0, <1>2, <1>3, <1>4, <1>5, <1>6, <1>7, <1>9, <1>10 DEF PackTypeOK
<1>12. GrantFacts(p)'
  BY <1>0, <1>2, <1>4, <1>6, <1>8, <1>9, <1>10, <1>1 DEF PackFacts, GrantFacts, Funded
<1>13. DisputeFacts(p)'
  <2>1. p \in took' => row'[p] \in {"open", "lost", "won"}
    <3>1. p \in took => row[p] \in {"open", "lost", "won"}
      BY <1>0 DEF DisputeFacts
    <3> QED
      BY <1>4, <1>5, <1>8, <1>k, <3>1 DEF Loss
  <2>2. status'[p] \in Funded \/ UnmatchedOf(p)' # {} \/ p \in late'
    <3>1. CASE acts
      BY <3>1, <1>6, <1>8 DEF Funded
    <3>2. CASE ~acts
      BY <3>2, <1>0, <1>3, <1>6, <1>8, <1>9, <1>k DEF DisputeFacts
    <3> QED
      BY <3>1, <3>2
  <2>3. ~Hearing(p, {"checked"})'
    BY <1>1, <1>3 DEF Hearing
  <2> QED
    BY <1>1, <1>2, <1>5, <1>9, <1>k, <2>1, <2>2, <2>3 DEF DisputeFacts
<1>14. LossFacts(p)'
  <2>1. ASSUME row'[p] \in Loss
        PROVE  (blocked' /\ p \notin live') \/ UnmatchedOf(p)' # {} \/ p \in late'
    <3>1. CASE loss
      BY <3>1, <1>4, <1>7
    <3>2. CASE ~loss
      <4>1. ~acts /\ ~won /\ ~back
        BY <2>1, <3>2, <1>5, <1>8, <1>k
      <4>2. row[p] \in Loss /\ live' = live /\ blocked' = blocked
        BY <2>1, <3>2, <4>1, <1>4, <1>5, <1>7, <1>k
      <4>3. p \in ours \/ UnmatchedOf(p) # {}
        BY <1>0, <4>1, <1>k DEF DisputeFacts
      <4> QED
        BY <1>0, <1>3, <1>9, <4>2, <4>3 DEF PackFacts, LossFacts
    <3> QED
      BY <3>1, <3>2
  <2>2. ASSUME p \in live' \ late', Handled(p, "opened")' PROVE row'[p] \in {"open"} \cup Closed
    <3>1. CASE w = "opened"
      BY <3>1, <1>5, <1>k
    <3>2. CASE w = "closed"
      BY <3>2, <1>5, <1>k
    <3>3. CASE w # "opened" /\ w # "closed"
      <4>1. p \in live /\ Handled(p, "opened")
        BY <3>3, <2>2, <1>3, <1>4, <1>8 DEF Handled, Words, DisputeWord
      <4> QED
        BY <4>1, <2>2, <1>0, <1>5, <1>9, <1>k DEF PackFacts, LossFacts
    <3> QED
      BY <3>1, <3>2, <3>3
  <2>3. ASSUME p \in live' \ late', Handled(p, "closed")' PROVE row'[p] = dispute'[p]
    <3>1. CASE w = "closed"
      BY <3>1, <1>2, <1>5, <1>k
    <3>2. CASE w # "closed"
      <4>1. p \in live /\ Handled(p, "closed")
        BY <3>2, <2>3, <1>3, <1>4, <1>8 DEF Handled, Words, DisputeWord
      <4>2. row[p] = dispute[p] /\ dispute[p] \in Closed
        BY <4>1, <2>3, <1>0, <1>9 DEF PackFacts, LossFacts, SentFacts, Handled
      <4> QED
        BY <4>2, <1>2, <1>5, <1>k
    <3> QED
      BY <3>1, <3>2
  <2> QED
    BY <1>9, <2>1, <2>2, <2>3 DEF LossFacts
<1>15. RefundFacts(p)'
  <2>1. Handled(p, "refund_succeeded")' <=> Handled(p, "refund_succeeded")
    BY <1>1, <1>3 DEF Handled, Words, RefundWord, DisputeWord
  <2>2. status[p] \in Funded => status'[p] \in Funded
    BY <1>6, <1>8 DEF Funded
  <2>3. status'[p] = "refunded" => p \notin live'
    <3>1. status'[p] = "refunded" => ~acts /\ status[p] = "refunded"
      BY <1>6, <1>8
    <3> QED
      BY <3>1, <1>0, <1>4, <1>8 DEF PackFacts, RefundFacts
  <2>4. ASSUME Handled(p, "refund_succeeded"), p \notin late
        PROVE  p \notin live' /\ (status'[p] = "refunded" \/ p \notin took' \/ Handled(p, "closed")')
    <3>1. /\ p \notin live
          /\ status[p] = "refunded" \/ p \notin took \/ Handled(p, "closed")
      BY <1>0, <2>4 DEF PackFacts, RefundFacts
    <3>2. Handled(p, "closed") => Handled(p, "closed")' /\ w # "closed"
      BY <1>1, <1>3 DEF Handled, Words, DisputeWord
    <3>3. w = "closed" => Handled(p, "closed")'
      BY <1>3 DEF Handled
    <3>4. ~back
      BY <3>1, <3>2, <1>8
    <3>5. p \notin live' /\ (p \in took' => p \in took)
      BY <3>1, <3>4, <1>4
    <3>6. p \in took /\ w # "closed" => ~acts
      BY <1>k
    <3> QED
      BY <3>1, <3>2, <3>3, <3>5, <3>6, <1>6, <1>8
  <2> QED
    BY <1>0, <1>1, <1>9, <2>1, <2>2, <2>3, <2>4 DEF PackFacts, RefundFacts
<1>16. SomeLoss'
  <2>1. CASE loss
    <3>1. row'[p] \in Loss /\ p \in ours'
      BY <2>1, <1>5, <1>8, <1>9, <1>k
    <3> QED
      BY <3>1 DEF SomeLoss
  <2>2. CASE won
    <3>1. blocked' => \E q \in ours \ {p} : row[q] \in Loss
      BY <2>2, <1>7, <1>8
    <3> QED
      BY <3>1, <1>0, <1>5, <1>9 DEF SomeLoss, PackTypeOK
  <2>3. CASE ~loss /\ ~won
    <3>1. blocked' = blocked
      BY <2>3, <1>7
    <3>2. ASSUME NEW q \in ours, row[q] \in Loss PROVE q \in ours' /\ row'[q] \in Loss
      <4>1. CASE q = p
        <5>1. ~acts
          BY <3>2, <4>1, <2>3, <1>8, <1>k DEF Loss
        <5> QED
          BY <3>2, <4>1, <5>1, <1>5, <1>9, <1>k
      <4>2. CASE q # p
        BY <3>2, <4>2, <1>0, <1>5, <1>9 DEF PackTypeOK
      <4> QED
        BY <4>1, <4>2
    <3>3. blocked => \E q \in ours : row[q] \in Loss
      BY DEF PackInv, SomeLoss
    <3> QED
      BY <3>1, <3>2, <3>3 DEF SomeLoss
  <2> QED
    BY <2>1, <2>2, <2>3
<1>17. ASSUME NEW q \in Packs \ {p}
       PROVE  Same(q) /\ (q \in ours /\ row[q] \in Loss /\ blocked => blocked')
  <2>1. Same(q)
    BY <1>2, <1>3, <1>4, <1>5, <1>6, <1>9, <1>10 DEF Same
  <2>2. q \in ours /\ row[q] \in Loss /\ blocked => blocked'
    BY <1>7, <1>8
  <2> QED
    BY <2>1, <2>2
<1> QED
  BY <1>3, <1>11, <1>12, <1>13, <1>14, <1>15, <1>16, <1>17, OnePackStep DEF PackFacts

-----------------------------------------------------------------------------
LEMMA PackNextKeepsInv == PackInv /\ [PackNext]_packVars => PackInv'
<1> SUFFICES ASSUME PackInv, [PackNext]_packVars PROVE PackInv'
  OBVIOUS
<1>1. CASE PackNext
  <2>1. PICK p \in Packs :
          \/ OrderStep(p) \/ OpensSession(p) \/ SweepRetrieves(p)
          \/ Pays(p) \/ PaysLater(p) \/ PaymentArrives(p) \/ PaymentFails(p) \/ SessionExpires(p)
          \/ DashboardRefunds(p) \/ RefundEnds(p) \/ SweepAsks(p)
          \/ BankInquires(p) \/ BankDisputes(p) \/ InquiryCloses(p) \/ DisputeCloses(p)
          \/ \E w \in Words :
               \/ FindsNoOrder(p, w) \/ RecoversMoney(p, w) \/ CheckoutFails(p, w)
               \/ TransitionPaidCheckout(p, w)
               \/ HearsRefund(p, w) \/ RefundFindsNoOrder(p, w) \/ RecordsUnmatchedRefund(p, w)
               \/ HearsDispute(p, w) \/ DisputeFindsNoOrder(p, w) \/ LooksAgain(p, w)
               \/ RecordsUnmatchedDispute(p, w) \/ DeliveryFails(p, w)
    BY <1>1 DEF PackNext, OrderStep
  <2>2. CASE OrderStep(p) \/ OpensSession(p)
    BY <2>2, OrderStepKeepsInv, OpensSessionKeepsInv
  <2>3. CASE SweepRetrieves(p)
    <3>1. "reconciled" \in Words
      BY DEF Words, SessionWord
    <3> QED
      BY <2>3, <3>1, WaitingStepKeepsInv
  <2>4. CASE Pays(p) \/ PaysLater(p) \/ PaymentArrives(p) \/ PaymentFails(p) \/ SessionExpires(p)
    BY <2>4, SessionStepKeepsInv
  <2>5. CASE DashboardRefunds(p) \/ RefundEnds(p) \/ SweepAsks(p)
    BY <2>5, RefundStepKeepsInv
  <2>6. CASE BankInquires(p) \/ BankDisputes(p) \/ InquiryCloses(p) \/ DisputeCloses(p)
    BY <2>6, DisputeMoveKeepsInv
  <2>7. ASSUME NEW w \in Words,
               RefundFindsNoOrder(p, w) \/ DisputeFindsNoOrder(p, w) \/ LooksAgain(p, w)
                 \/ DeliveryFails(p, w)
        PROVE  PackInv'
    BY <2>7, WaitingStepKeepsInv
  <2>8. ASSUME NEW w \in Words,
               FindsNoOrder(p, w) \/ CheckoutFails(p, w) \/ RecordsUnmatchedRefund(p, w)
                 \/ HearsRefund(p, w)
        PROVE  PackInv'
    BY <2>8, QuietClaimKeepsInv
  <2>9. ASSUME NEW w \in Words,
               RecoversMoney(p, w) \/ TransitionPaidCheckout(p, w) \/ HearsDispute(p, w)
                 \/ RecordsUnmatchedDispute(p, w)
        PROVE  PackInv'
    BY <2>9, RecoversMoneyKeepsInv, TransitionPaidCheckoutKeepsInv, HearsDisputeKeepsInv,
       RecordsUnmatchedDisputeKeepsInv
  <2> QED
    BY <2>1, <2>2, <2>3, <2>4, <2>5, <2>6, <2>7, <2>8, <2>9
<1>2. CASE UNCHANGED packVars
  <2>1. /\ status' = status /\ code' = code /\ known' = known /\ grants' = grants /\ live' = live
        /\ took' = took /\ row' = row /\ ours' = ours /\ blocked' = blocked /\ opening' = opening
        /\ asked' = asked /\ event' = event /\ odd' = odd /\ late' = late
        /\ checkout' = checkout /\ refund' = refund /\ dispute' = dispute
    BY <1>2 DEF packVars, orders, letters, disputeRows, marks, stripe
  <2>2. PackTypeOK'
    BY <2>1 DEF PackInv, PackTypeOK
  <2>3. ASSUME NEW q \in Packs PROVE PackFacts(q)'
    BY <2>1, SameKeepsFacts DEF PackInv, Same
  <2>4. SomeLoss'
    BY <2>1 DEF PackInv, SomeLoss
  <2> QED
    BY <2>2, <2>3, <2>4 DEF PackInv
<1> QED
  BY <1>1, <1>2

LEMMA PackInvariant == PackSpec => []PackInv
<1>1. PackInit => PackInv
  BY PackInitInv
<1>2. PackInv /\ [PackNext]_packVars => PackInv'
  BY PackNextKeepsInv
<1> QED
  BY <1>1, <1>2, PTL DEF PackSpec

\* A checkout told paid by two events, the webhook's and the sweep's, is granted once, and
\* only for a payment of the pack's price, whatever was heard of the money before.
THEOREM PackIsGrantedOnce == PackSpec => []GrantedOnce
<1>1. PackInv => GrantedOnce
  BY DEF PackInv, PackFacts, GrantFacts, GrantedOnce
<1> QED
  BY <1>1, PackInvariant, PTL

\* A loss recorded for the account has blocked it and revoked its pack, on whichever of the
\* two paths the dispute came to have an order, and an account is blocked by a loss only.
THEOREM PackLossesStand == PackSpec => []LossesStand
<1>1. PackInv => LossesStand
  <2> SUFFICES ASSUME PackInv PROVE LossesStand
    OBVIOUS
  <2>1. \A p \in ours : row[p] \in Loss =>
          (blocked /\ p \notin live) \/ UnmatchedOf(p) # {} \/ p \in late
    BY DEF PackInv, PackTypeOK, PackFacts, LossFacts
  <2> QED
    BY <2>1 DEF PackInv, SomeLoss, LossesStand
<1> QED
  BY <1>1, PackInvariant, PTL

\* Letters do not outlive their money: a refund that succeeded or a chargeback has taken
\* them, an event on its way still will, or an alert that found no order tells of it; except
\* the packs in late, whose alert a second checkout event resolved.
THEOREM LettersFollowTheMoney == PackSpec => []MoneyBackTakesLetters
<1>1. PackInv => MoneyBackTakesLetters
  <2> SUFFICES ASSUME PackInv, NEW p \in live, refund[p] = "succeeded" \/ dispute[p] \in Loss,
                      \A w \in RefundWord \cup DisputeWord :
                          event[p][w] \notin {"sent", "blind", "checked"},
                      UnmatchedOf(p) = {}, p \notin late
               PROVE  FALSE
    BY DEF MoneyBackTakesLetters
  <2>0. p \in Packs /\ PackFacts(p) /\ event[p] \in [Words -> Stage] /\ dispute[p] \in DisputeState
    BY DEF PackInv, PackTypeOK
  <2>1. ASSUME NEW w \in RefundWord \cup DisputeWord, event[p][w] # "unsent" PROVE Handled(p, w)
    <3>1. w \in Words /\ event[p][w] \in Stage
      BY <2>0 DEF Words
    <3> QED
      BY <2>1, <3>1 DEF Handled, UnmatchedOf, Stage
  <2>2. CASE refund[p] = "succeeded"
    <3>1. Handled(p, "refund_succeeded")
      BY <2>0, <2>1, <2>2 DEF PackFacts, SentFacts, RefundWord
    <3> QED
      BY <2>0, <3>1 DEF PackFacts, RefundFacts
  <2>3. CASE dispute[p] \in Loss
    <3>1. Handled(p, "opened") /\ (dispute[p] = "lost" => Handled(p, "closed"))
      BY <2>0, <2>1, <2>3 DEF PackFacts, SentFacts, DisputeWord, Loss, Closed
    <3>2. p \in ours /\ row[p] \in {"open"} \cup Closed /\ (dispute[p] = "lost" => row[p] = "lost")
      BY <2>0, <3>1 DEF PackFacts, LossFacts
    <3>3. row[p] \in Loss
      BY <2>0, <2>3, <3>2 DEF PackFacts, DisputeFacts, Loss, Closed
    <3> QED
      BY <2>0, <3>2, <3>3 DEF PackFacts, LossFacts
  <2> QED
    BY <2>2, <2>3
<1> QED
  BY <1>1, PackInvariant, PTL
=============================================================================
