------------------------------ MODULE PackRefunds ------------------------------
(***************************************************************************)
(* Proportional refunds of one letter pack: "refund N unspent letters".    *)
(*                                                                         *)
(* A command takes the letters in one transaction, asks Stripe for the     *)
(* refund with nothing locked, and records the answer in another.  The     *)
(* answer also comes as webhooks, late and repeated, and a maintenance     *)
(* sweep asks for it.  Whoever hears first settles the command's row.      *)
(***************************************************************************)
EXTENDS Integers, FiniteSets, Functions

CONSTANTS
    Commands,        \* commands an operator may issue, pack_refund_id
    Workers,         \* threads of control: the command's own, maintenance runs
    PackLetters,     \* letters of the pack; the payment, at one unit a letter
    AttemptLimit,    \* PACK_REFUND_STRIPE_ATTEMPT_LIMIT
    OneRefunder      \* whether operators keep the dashboard's refunds apart from the commands

ASSUME PackRefundAssumption ==
    /\ IsFiniteSet(Commands) /\ "none" \notin Commands
    /\ PackLetters \in Nat \ {0} /\ AttemptLimit \in Nat \ {0}
    /\ OneRefunder \in BOOLEAN

VARIABLES
    order,    \* orders.status of the pack
    left,     \* letters on the pack's live lots
    spent,    \* letters sent from it
    taken,    \* letters a dispute or the full refund took
    back,     \* orders.credits_refunded, in letters
    money,    \* orders.amount_refunded_cents, in the price of a letter
    row,      \* commerce_pack_refunds: status, letters, stripe_refund_id, stripe_attempts
    alert,    \* open pack_refund_failed alerts: <<command, kind>>
    unmatched,\* whether a partial refund nobody issued is on record as an alert
    aged,     \* the commands waiting for more than a day
    had,      \* Stripe: the statuses each refund has had
    key,      \* Stripe: the refund the command's idempotency key answers with
    rest,     \* Stripe: what an operator refunded in the dashboard
    worker    \* what each worker is doing, for which command, and what Stripe told it

rows == <<order, left, spent, taken, back, money, row, alert, unmatched>>
stripe == <<had, key, rest>>
vars == <<order, left, spent, taken, back, money, row, alert, unmatched, aged, had, key, rest, worker>>

-----------------------------------------------------------------------------
(* Stripe. *)

\* The refunds that can come to be for a command: one for each life of its key.
Refunds == Commands \X {1, 2}
NoRefund == <<"none", 0>>
RefundsOf(c) == {<<c, 1>>, <<c, 2>>}

NowStatus(r) == IF "failed" \in had[r] THEN "failed"
                ELSE IF "succeeded" \in had[r] THEN "succeeded"
                ELSE IF "pending" \in had[r] THEN "pending" ELSE "none"

\* What a repeated request is answered: the refund as it was when it was made.
BornAs(r) == IF "pending" \in had[r] THEN "pending" ELSE "succeeded"

Exists(r) == had[r] # {}
IsLive(r) == NowStatus(r) \in {"pending", "succeeded"}

-----------------------------------------------------------------------------
(* The rows. *)

RowStatus == {"none", "letters_revoked", "stripe_pending", "succeeded", "failed", "compensated"}
UnderWay == {"letters_revoked", "stripe_pending"}

Idle == [pc |-> "idle", c |-> "none", r |-> NoRefund, status |-> "none"]
Doing(pc, c) == [Idle EXCEPT !.pc = pc, !.c = c]
Told(c, r, s) == [pc |-> "answered", c |-> c, r |-> r, status |-> s]

Init ==
    /\ order = "fulfilled" /\ left = PackLetters /\ spent = 0 /\ taken = 0
    /\ back = 0 /\ money = 0 /\ alert = {} /\ unmatched = FALSE /\ aged = {}
    /\ row = [c \in Commands |-> [status |-> "none", letters |-> 0, refund |-> NoRefund, attempts |-> 0]]
    /\ had = [r \in Refunds |-> {}]
    /\ key = [c \in Commands |-> NoRefund] /\ rest = 0
    /\ worker = [w \in Workers |-> Idle]

Letters(c) == row[c].letters
SumLetters(S) == SumFunctionOnSet([c \in Commands |-> Letters(c)], S)

\* What is left of the payment, at Stripe.
Unrefunded ==
    LET paid == [c \in Commands |-> Letters(c) * Cardinality({r \in RefundsOf(c) : IsLive(r)})]
    IN  PackLetters - rest - SumFunctionOnSet(paid, Commands)

\* knownRefundedCents: confirmed, or about to leave
Known == money + SumLetters({c \in Commands : row[c].status \in UnderWay})

\* sends_blocked_reason, of the one dispute of this payment
Blocked == order = "disputed"

-----------------------------------------------------------------------------
(* Settling a row.  Each of these is part of a transaction that holds the  *)
(* order's lock, then the row's.                                           *)

Resolved(c) == alert \ {<<c, "unconfirmed">>}

\* compensatePackRefund: the letters come back as new lots, unless a dispute governs them.
Compensate(c, r) ==
    IF order = "disputed"
    THEN /\ row' = [row EXCEPT ![c].status = "failed",
                               ![c].refund = IF r = NoRefund THEN @ ELSE r]
         /\ alert' = Resolved(c) \cup {<<c, "failed">>}
         /\ UNCHANGED <<left, back, money>>
    ELSE /\ row' = [row EXCEPT ![c].status = "compensated",
                               ![c].refund = IF r = NoRefund THEN @ ELSE r]
         /\ left' = left + Letters(c)
         /\ back' = back - Letters(c)
         /\ money' = IF row[c].status = "succeeded" THEN money - Letters(c) ELSE money
         /\ alert' = Resolved(c) \cup {<<c, "failed">>}

OtherRefund(c, r) == row[c].refund # NoRefund /\ row[c].refund # r

\* What a success closes: nothing (the money is counted), or the alert that tells of it.
SettleSuccess(c, r) ==
    IF row[c].status \in UnderWay
    THEN /\ money + Letters(c) <= PackLetters      \* CHECK valid_order_amount_refunded
         /\ row' = [row EXCEPT ![c].status = "succeeded", ![c].refund = r]
         /\ money' = money + Letters(c)
         /\ alert' = Resolved(c)
         /\ UNCHANGED <<left, back>>
    ELSE /\ alert' = alert \cup (CASE row[c].status = "compensated" -> {<<c, "both">>}
                                 [] row[c].status = "failed"        -> {<<c, "withheld">>}
                                 [] OTHER                           -> {})
         /\ UNCHANGED <<row, left, back, money>>

SettleFailureOnceMutant(c, r) ==
    IF row[c].status \in {"succeeded", "failed", "compensated"}
    THEN UNCHANGED <<row, left, back, money, alert>>
    ELSE Compensate(c, r)

SettleFailure(c, r) ==
    IF row[c].status \in {"failed", "compensated"}
    THEN UNCHANGED <<row, left, back, money, alert>>
    ELSE Compensate(c, r)

SettlePending(c, r) ==
    IF row[c].status = "letters_revoked"
    THEN /\ row' = [row EXCEPT ![c].status = "stripe_pending", ![c].refund = r]
         /\ alert' = Resolved(c)
         /\ UNCHANGED <<left, back, money>>
    ELSE UNCHANGED <<row, left, back, money, alert>>

\* settlePackRefund
Settle(c, r, s) ==
    /\ UNCHANGED <<order, spent, taken, unmatched>>
    /\ \/ OtherRefund(c, r) /\ UNCHANGED <<row, left, back, money, alert>>
       \/ ~OtherRefund(c, r) /\ s = "succeeded" /\ SettleSuccess(c, r)
       \/ ~OtherRefund(c, r) /\ s = "failed" /\ SettleFailure(c, r)
       \/ ~OtherRefund(c, r) /\ s = "pending" /\ SettlePending(c, r)

-----------------------------------------------------------------------------
(* The command. *)

\* refundPackLetters, its first transaction
RefundPackLetters(w, c, n) ==
    /\ worker[w].pc = "idle" /\ row[c].status = "none"
    /\ order = "fulfilled" /\ ~Blocked
    /\ \A d \in Commands : row[d].status \notin UnderWay \cup {"succeeded"}
    /\ n <= left /\ money + n < PackLetters
    /\ OneRefunder => rest = 0
    /\ row' = [row EXCEPT ![c].status = "letters_revoked", ![c].letters = n]
    /\ left' = left - n
    /\ back' = back + n
    /\ worker' = [worker EXCEPT ![w] = Doing("creating", c)]
    /\ UNCHANGED <<order, spent, taken, money, alert, unmatched, aged, stripe>>

AtStripe(c) == {r \in RefundsOf(c) : Exists(r)}

\* The refund a request makes: the next of the command's, for as much as Stripe still has.
CanMake(c, r) ==
    /\ key[c] = NoRefund /\ r \in RefundsOf(c) /\ ~Exists(r)
    /\ r[2] = Cardinality(AtStripe(c)) + 1
    /\ Letters(c) <= Unrefunded

\* createPartialPaymentRefund, at Stripe: a refund comes to be, and the answer may be lost.
StripeMakes(w, r, s, heard) ==
    LET c == worker[w].c IN
    /\ worker[w].pc = "creating" /\ CanMake(c, r)
    /\ had' = [had EXCEPT ![r] = {s}]
    /\ key' = [key EXCEPT ![c] = r]
    /\ worker' = [worker EXCEPT ![w] = IF heard THEN Told(c, r, s) ELSE Doing("unclear", c)]
    /\ UNCHANGED <<rows, aged, rest>>

\* The key was used before: the same refund, as it was then.
StripeRepeats(w) ==
    LET c == worker[w].c IN
    /\ worker[w].pc = "creating" /\ key[c] # NoRefund
    /\ worker' = [worker EXCEPT ![w] = Told(c, key[c], BornAs(key[c]))]
    /\ UNCHANGED <<rows, aged, stripe>>

\* It makes nothing: for a reason no retry clears, or for one that may pass.
StripeFails(w, how) ==
    /\ worker[w].pc = "creating"
    /\ worker' = [worker EXCEPT ![w].pc = how]
    /\ UNCHANGED <<rows, aged, stripe>>

\* finalizeWithStripe
Finalize(w) ==
    /\ worker[w].pc = "answered"
    /\ Settle(worker[w].c, worker[w].r, worker[w].status)
    /\ worker' = [worker EXCEPT ![w] = Idle]
    /\ UNCHANGED <<aged, stripe>>

CompensateUncheckedMutant(w) ==
    /\ Compensate(worker[w].c, NoRefund)
    /\ worker' = [worker EXCEPT ![w] = Idle]
    /\ UNCHANGED <<order, spent, taken, unmatched, aged, stripe>>

CompensateIfWaiting(w) ==
    LET c == worker[w].c IN
    /\ IF row[c].status = "letters_revoked"
       THEN Compensate(c, NoRefund) ELSE UNCHANGED <<row, left, back, money, alert>>
    /\ worker' = [worker EXCEPT ![w] = Idle]
    /\ UNCHANGED <<order, spent, taken, unmatched, aged, stripe>>

\* handleStripeFailure, of a refusal
HandleRefusal(w) == worker[w].pc = "refused" /\ CompensateIfWaiting(w)

\* handleStripeFailure, of an answer that says nothing.  Attempts are compared with the limit only.
HandleUnclear(w) ==
    LET c == worker[w].c IN
    /\ worker[w].pc = "unclear"
    /\ row' = IF row[c].status = "letters_revoked" /\ row[c].attempts < AttemptLimit
              THEN [row EXCEPT ![c].attempts = @ + 1] ELSE row
    /\ worker' = [worker EXCEPT ![w] = Idle]
    /\ UNCHANGED <<order, left, spent, taken, back, money, alert, unmatched, aged, stripe>>

-----------------------------------------------------------------------------
(* The sweep. *)

BestOf(S) ==
    LET ok(s) == {r \in S : NowStatus(r) \in s}
        newest(R) == CHOOSE r \in R : \A q \in R : q[2] <= r[2]
    IN  IF ok({"succeeded"}) # {} THEN newest(ok({"succeeded"}))
        ELSE IF ok({"pending"}) # {} THEN newest(ok({"pending"}))
        ELSE newest(S)

SweepBlindlyMutant(w, c) ==
    /\ worker[w].pc = "idle" /\ row[c].status = "letters_revoked"
    /\ worker' = [worker EXCEPT ![w] = IF row[c].attempts >= AttemptLimit THEN Doing("giving up", c)
                                       ELSE Doing("creating", c)]
    /\ UNCHANGED <<rows, aged, stripe>>

\* reconcilePackRefunds, a row that waits: Stripe is asked what it holds for the command.
SweepLists(w, c) ==
    /\ worker[w].pc = "idle" /\ row[c].status = "letters_revoked"
    /\ worker' = [worker EXCEPT ![w] =
                    IF AtStripe(c) # {} THEN LET r == BestOf(AtStripe(c)) IN Told(c, r, NowStatus(r))
                    ELSE IF row[c].attempts >= AttemptLimit THEN Doing("giving up", c)
                    ELSE Doing("creating", c)]
    /\ UNCHANGED <<rows, aged, stripe>>

\* Stripe could not be asked.
SweepCannotList(w, c) ==
    /\ worker[w].pc = "idle" /\ row[c].status = "letters_revoked"
    /\ worker' = [worker EXCEPT ![w] = [Doing("unlisted", c) EXCEPT
                    !.status = IF row[c].attempts >= AttemptLimit THEN "at limit" ELSE "none"]]
    /\ UNCHANGED <<rows, aged, stripe>>

SweepWaitsAtLimitMutant(w) ==
    LET c == worker[w].c IN
    /\ worker[w].pc = "unlisted"
    /\ alert' = IF row[c].status = "letters_revoked" /\ worker[w].status = "at limit"
                THEN alert \cup {<<c, "unconfirmed">>} ELSE alert
    /\ worker' = [worker EXCEPT ![w] = Idle]
    /\ UNCHANGED <<order, left, spent, taken, back, money, row, unmatched, aged, stripe>>

SweepWaits(w) ==
    LET c == worker[w].c IN
    /\ worker[w].pc = "unlisted"
    /\ alert' = IF row[c].status = "letters_revoked" /\ (worker[w].status = "at limit" \/ c \in aged)
                THEN alert \cup {<<c, "unconfirmed">>} ELSE alert
    /\ worker' = [worker EXCEPT ![w] = Idle]
    /\ UNCHANGED <<order, left, spent, taken, back, money, row, unmatched, aged, stripe>>

SweepGivesUp(w) == worker[w].pc = "giving up" /\ CompensateIfWaiting(w)

\* A row that has been pending for thirty days: its refund is read again.
SweepPending(w, c) ==
    /\ worker[w].pc = "idle" /\ row[c].status = "stripe_pending"
    /\ worker' = [worker EXCEPT ![w] = Told(c, row[c].refund, NowStatus(row[c].refund))]
    /\ UNCHANGED <<rows, aged, stripe>>

-----------------------------------------------------------------------------
(* Webhooks: any status a refund has had, at any time after, any number of *)
(* times.                                                                  *)

\* processRefundEvent, of a refund that names a command
RefundEvent(c, r, s) ==
    /\ r \in RefundsOf(c) /\ s \in had[r]
    /\ IF OtherRefund(c, r)
       THEN unmatched' = TRUE /\ UNCHANGED <<order, left, spent, taken, back, money, row, alert>>
       ELSE Settle(c, r, s)
    /\ UNCHANGED <<aged, stripe, worker>>

\* processRefundEvent, of a refund that completes the payment
CompleteRefund ==
    IF order = "refunded" THEN UNCHANGED rows
    ELSE /\ order' = "refunded" /\ money' = PackLetters
         /\ taken' = taken + left /\ left' = 0
         /\ UNCHANGED <<spent, back, row, alert, unmatched>>

AlertUnmatched == unmatched' = TRUE /\ UNCHANGED <<order, left, spent, taken, back, money, row, alert>>

\* The dashboard's refund
RestEvent ==
    /\ rest > 0
    /\ IF Known + rest >= PackLetters THEN CompleteRefund ELSE AlertUnmatched
    /\ UNCHANGED <<aged, stripe, worker>>

\* charge.refunded carries what the charge has refunded altogether: what it had when one
\* refund succeeded, or what it has now.
ChargeEvent(S, all) ==
    LET price == [r \in Refunds |-> Letters(r[1])]
        amount == SumFunctionOnSet(price, S) + (IF all THEN rest ELSE 0)
    IN  /\ \/ S = {r \in Refunds : NowStatus(r) = "succeeded"}
           \/ ~all /\ \E r \in Refunds : S = {r} /\ "succeeded" \in had[r]
        /\ amount > 0
        /\ IF amount >= PackLetters THEN CompleteRefund
           ELSE IF amount <= Known THEN UNCHANGED rows ELSE AlertUnmatched
        /\ UNCHANGED <<aged, stripe, worker>>

\* processDisputeEvent: a loss takes what is left of the pack and blocks the account, for as
\* long as this model looks: its order stays disputed, won or lost.
Dispute ==
    /\ order = "fulfilled"
    /\ order' = "disputed" /\ taken' = taken + left /\ left' = 0
    /\ UNCHANGED <<spent, back, money, row, alert, unmatched, aged, stripe, worker>>

-----------------------------------------------------------------------------
(* What others do. *)

Send ==
    /\ left > 0 /\ ~Blocked
    /\ left' = left - 1 /\ spent' = spent + 1
    /\ UNCHANGED <<order, taken, back, money, row, alert, unmatched, aged, stripe, worker>>

\* The bank pays a pending refund, or a refund comes back from it.
StripeMoves(r, s) ==
    /\ \/ NowStatus(r) = "pending" /\ s \in {"succeeded", "failed"}
       \/ NowStatus(r) = "succeeded" /\ s = "failed"
    /\ had' = [had EXCEPT ![r] = @ \cup {s}]
    /\ UNCHANGED <<rows, aged, key, rest, worker>>

\* An operator refunds in the dashboard all that the payment still has.
RefundRest ==
    /\ rest = 0 /\ Unrefunded > 0
    /\ OneRefunder =>
          /\ order = "fulfilled"
          /\ \A c \in Commands : row[c].status \notin UnderWay
          /\ \A c \in Commands : row[c].status = "succeeded" => IsLive(row[c].refund)
    /\ rest' = Unrefunded
    /\ UNCHANGED <<rows, aged, had, key, worker>>

\* Stripe forgets keys after a day: longer than anyone takes from a listing to a request.
KeyExpires(c) ==
    /\ key[c] # NoRefund /\ \A w \in Workers : worker[w].c # c
    /\ <<c, 2>> # key[c]
    /\ key' = [key EXCEPT ![c] = NoRefund]
    /\ UNCHANGED <<rows, aged, had, rest, worker>>

DayPasses(c) ==
    /\ row[c].status = "letters_revoked" /\ c \notin aged
    /\ aged' = aged \cup {c}
    /\ UNCHANGED <<rows, stripe, worker>>

Crash(w) ==
    /\ worker[w].pc # "idle"
    /\ worker' = [worker EXCEPT ![w] = Idle]
    /\ UNCHANGED <<rows, aged, stripe>>

-----------------------------------------------------------------------------
WorkerStep(w) ==
    \/ \E r \in Refunds, s \in {"pending", "succeeded"}, heard \in BOOLEAN : StripeMakes(w, r, s, heard)
    \/ StripeRepeats(w)
    \/ \E how \in {"refused", "unclear"} : StripeFails(w, how)
    \/ Finalize(w) \/ HandleRefusal(w) \/ HandleUnclear(w)
    \/ SweepWaits(w) \/ SweepGivesUp(w)

Sweep(w, c) == SweepLists(w, c) \/ SweepCannotList(w, c) \/ SweepPending(w, c)

Next ==
    \/ \E w \in Workers : WorkerStep(w) \/ Crash(w)
    \/ \E w \in Workers, c \in Commands :
          Sweep(w, c) \/ \E n \in 1..PackLetters : RefundPackLetters(w, c, n)
    \/ \E c \in Commands, r \in Refunds, s \in {"pending", "succeeded", "failed"} : RefundEvent(c, r, s)
    \/ \E S \in SUBSET Refunds, all \in BOOLEAN : ChargeEvent(S, all)
    \/ RestEvent \/ Dispute \/ Send \/ RefundRest
    \/ \E r \in Refunds, s \in {"succeeded", "failed"} : StripeMoves(r, s)
    \/ \E c \in Commands : KeyExpires(c) \/ DayPasses(c)

Spec == Init /\ [][Next]_vars

\* The sweep is hourly, and not every run dies at the same point.  Stripe delivers its webhooks.
Asks(w) == worker[w].pc = "creating" /\ WorkerStep(w)
Records(w) == worker[w].pc # "creating" /\ WorkerStep(w)

Fairness ==
    /\ \A c \in Commands :
          /\ WF_vars(\E w \in Workers : Sweep(w, c))
          /\ WF_vars(DayPasses(c))
          /\ \A r \in RefundsOf(c) : WF_vars(RefundEvent(c, r, "succeeded") \/ RefundEvent(c, r, "failed"))
    /\ SF_vars(\E w \in Workers : Asks(w))
    /\ \A c \in Commands : SF_vars(\E w \in Workers : worker[w].c = c /\ Records(w))

FairSpec == Spec /\ Fairness

-----------------------------------------------------------------------------
(* Properties. *)

\* Types: the order's figures and the command rows, with their CHECK constraints.
TypeOK ==
    /\ order \in {"fulfilled", "disputed", "refunded"}
    /\ {left, spent, taken, back, money, rest} \subseteq 0..PackLetters
    /\ row \in [Commands -> [status : RowStatus, letters : 0..PackLetters,
                              refund : Refunds \cup {NoRefund}, attempts : 0..AttemptLimit]]
    /\ alert \subseteq Commands \X {"unconfirmed", "failed", "both", "withheld"}
    /\ unmatched \in BOOLEAN /\ aged \subseteq Commands
    /\ had \in [Refunds -> SUBSET {"pending", "succeeded", "failed"}]
    /\ key \in [Commands -> Refunds \cup {NoRefund}]
    /\ \A w \in Workers : worker[w].c \in Commands \cup {"none"} /\ worker[w].r \in Refunds \cup {NoRefund}

\* Every letter of the pack is in one place: to spend, spent, taken back whole, or taken by a
\* command that was not made good; and the order's count is that of those commands.
LettersAddUp ==
    /\ left + spent + taken + back = PackLetters
    /\ back = SumLetters({c \in Commands : row[c].status \notin {"none", "compensated"}})

\* While nothing else has happened to the payment, the order counts as refunded what the
\* commands that succeeded refunded, and no more: a refund the bank returns comes off again.
MoneyAddsUp ==
    order = "fulfilled" => money = SumLetters({c \in Commands : row[c].status = "succeeded"})

\* The books of a pack, in letters and in money, agree with its commands in every state.
BooksAgree == TypeOK /\ LettersAddUp /\ MoneyAddsUp

\* Stripe never pays one command twice, though its key is forgotten and requests are
\* repeated: two refunds of one command are never both alive.
PaidOnce == \A c \in Commands : ~(IsLive(<<c, 1>>) /\ IsLive(<<c, 2>>))

\* A customer who was paid holds the letters too only if the operator is told.
BothIsTold ==
    \A c \in Commands, r \in Refunds :
        (r \in RefundsOf(c) /\ row[c].status = "compensated" /\ NowStatus(r) = "succeeded")
            ~> (<<c, "both">> \in alert \/ unmatched \/ NowStatus(r) = "failed")

\* Letters taken are paid for, given back, or brought before the operator.
LettersSettle ==
    \A c \in Commands : row[c].status = "letters_revoked" ~>
        (row[c].status # "letters_revoked" \/ <<c, "unconfirmed">> \in alert)

\* A refund the bank returns, whenever it does, does not stay on the books as paid.
ReturnIsNoticed ==
    \A c \in Commands :
        (row[c].status \in {"stripe_pending", "succeeded"} /\ NowStatus(row[c].refund) = "failed")
            ~> row[c].status \in {"compensated", "failed"}

\* However its requests, answers and webhooks fall, a command ends with the letters or the money,
\* or before the operator who must choose, and its books learn of the bank's last word
\* (reconcilePackRefunds, compensatePackRefund).
CommandSettles == LettersSettle /\ BothIsTold /\ ReturnIsNoticed

\* packRefundService.ts:21, "never the customer holding both": once the whole payment went
\* back, no letter is to be spent but one whose refund the bank returned, or one of a command
\* that is to be told as paid for and given back (BothIsTold).  The dashboard's refund of
\* the rest, while a command is under way, breaks it: README.
NeverBoth ==
    LET both == {c \in Commands : row[c].status = "compensated" /\ \E r \in RefundsOf(c) : IsLive(r)}
    IN  order = "refunded" => left <= Unrefunded + SumLetters(both)

\* Money goes back once for what is no longer to spend: no command pays twice, and no letter
\* of a payment that all went back is left (packRefundService.ts:16-22).
MoneyOrLetters == PaidOnce /\ NeverBoth

=============================================================================
