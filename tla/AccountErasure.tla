--------------------------- MODULE AccountErasure ---------------------------
(* Erasing an account: the operator's queued operation, carried out by the hourly     *)
(* maintenance, against the calls, payments, workers, disputes and operators that     *)
(* still act for the account (accountErasureService, adminOperationsQueue).           *)
(*                                                                                    *)
(* One account. The erasure is one transaction and so are a send, a checkout and a    *)
(* fulfilment, but each is opened at the locks it takes: they meet only there. Of a   *)
(* letter the model keeps whether it can still move; what an image or a pack refund   *)
(* under way adds to the gate is one more count there and is left out.                *)
EXTENDS Naturals, FiniteSets

CONSTANTS
    Drafts,          \* each with the letter and the order that may come of it
    Packs,           \* purchases of letter packs, which no draft goes with
    Disputes,        \* of payments for packs bought before
    MaxCrashes,      \* runs that die, and records that fail outside a transaction
    DueMeanwhile     \* whether held mail comes due, or is released, inside an erasure's transaction

ASSUME ErasureAssumption ==
    /\ Drafts \cap Packs = {}
    /\ MaxCrashes \in Nat
    /\ DueMeanwhile \in BOOLEAN

VARIABLES
    account,    \* users: whether it is a tombstone, and why sends are blocked
    op,         \* admin_operations: the newest erasure queued
    run,        \* the erasure's transaction: how far it is and which rows it holds
    draft,      \* letter_drafts: unsent, or gone (consumed, emptied or deleted)
    order,      \* a draft's Pay & Send order, or a pack's; one that ended unpaid counts for none
    mail,       \* the draft's letter and its job
    paused,     \* letters whose job is held for its funding
    dispute,    \* stripe_disputes
    call,       \* where a call or a webhook about the draft or the pack is
    crashes

vars == <<account, op, run, draft, order, mail, paused, dispute, call, crashes>>

MAX_OPERATION_ATTEMPTS == 3

Purchases == Drafts \cup Packs

Idle == [at |-> "idle", todo |-> {}, has |-> {}, rows |-> {}]

TypeOK ==
    /\ account \in [erased : BOOLEAN, block : {"none", "payment_disputed", "account_erased"}]
    /\ op \in [status : {"none", "pending", "succeeded", "failed"},
               attempts : 0 .. MAX_OPERATION_ATTEMPTS, due : BOOLEAN]
    /\ run \in [at : {"idle", "drafts", "rows", "account", "open", "outside"},
                todo : SUBSET Drafts, has : SUBSET Drafts, rows : SUBSET Purchases]
    /\ draft \in [Drafts -> {"none", "unsent", "gone"}]
    /\ order \in [Purchases -> {"none", "open", "paid", "refund", "settled"}]
    /\ mail \in [Drafts -> {"none", "held", "pending", "claimed", "calling", "failed", "over"}]
    /\ paused \in SUBSET Drafts
    /\ dispute \in [Disputes -> {"none", "open", "lost", "won"}]
    /\ call \in [Purchases -> {"idle", "signed_in", "sending", "buying", "fulfilling"}]
    /\ crashes \in 0 .. MaxCrashes

Init ==
    /\ account = [erased |-> FALSE, block |-> "none"]
    /\ op = [status |-> "none", attempts |-> 0, due |-> FALSE]
    /\ run = Idle
    /\ draft = [d \in Drafts |-> "none"]
    /\ order = [p \in Purchases |-> "none"]
    /\ mail = [d \in Drafts |-> "none"]
    /\ paused = {}
    /\ dispute = [x \in Disputes |-> "none"]
    /\ call = [p \in Purchases |-> "idle"]
    /\ crashes = 0

\* The account's row is free. The run holds it FOR UPDATE; every other holder takes it in
\* the statement sequence that ends its transaction.
AccountIsFree == run.at \notin {"account", "open"}

\* The rows of p's order, letter and job are not the run's.
RowsAreFree(p) == p \notin run.rows

\* A call or a fulfilment holds the draft.
HoldsDraft(d) == call[d] \in {"sending", "buying", "fulfilling"}

\* heldMailJobSql and fundingHeldJobSql, of prepaid and gift mail only.
HeldMail(d) ==
    /\ order[d] \notin {"paid", "refund", "settled"}
    /\ mail[d] = "held" \/ (mail[d] = "pending" /\ d \in paused)

\* readErasureBlockers: what still moves.
Blocker(p) ==
    \/ order[p] \in {"open", "paid", "refund"}
    \/ p \in Drafts /\ mail[p] \in {"held", "pending", "claimed", "calling"} /\ ~HeldMail(p)

ErasureBlocked ==
    \/ \E p \in Purchases : Blocker(p)
    \/ \E x \in Disputes : dispute[x] = "open"

\* The block a dispute or an erasure sets keeps the reason of an earlier one (COALESCE).
BlockedFor(reason) == IF account.block = "none" THEN reason ELSE account.block

-----------------------------------------------------------------------------
(* The customer's calls and Stripe's payments. *)

\* getOrCreateUser and refuseErasedAccount: an account that is not erased gets past
\* sign-in; what the call does there comes later.
SignsIn(p) ==
    /\ call[p] = "idle" /\ ~account.erased
    /\ IF p \in Drafts THEN draft[p] # "gone" ELSE order[p] = "none"
    /\ call' = [call EXCEPT ![p] = "signed_in"]
    /\ UNCHANGED <<account, op, run, draft, order, mail, paused, dispute, crashes>>

\* previewMail's insert: its foreign key waits for the account's row and reads nothing of it.
WritesDraft(d) ==
    /\ call[d] = "signed_in" /\ draft[d] = "none"
    /\ AccountIsFree
    /\ draft' = [draft EXCEPT ![d] = "unsent"]
    /\ call' = [call EXCEPT ![d] = "idle"]
    /\ UNCHANGED <<account, op, run, order, mail, paused, dispute, crashes>>

\* sendDraftWithClient locks the draft, then reads the block, then waits for the account.
LocksForSend(d) ==
    /\ call[d] = "signed_in" /\ draft[d] # "none" /\ d \notin run.has
    /\ call' = [call EXCEPT ![d] =
           IF draft[d] = "unsent" /\ order[d] # "open" /\ account.block = "none"
           THEN "sending" ELSE "idle"]
    /\ UNCHANGED <<account, op, run, draft, order, mail, paused, dispute, crashes>>

Sends(d) ==
    /\ call[d] = "sending" /\ AccountIsFree
    /\ \E m \in {"held", "pending"} : mail' = [mail EXCEPT ![d] = m]
    /\ draft' = [draft EXCEPT ![d] = "gone"]
    /\ call' = [call EXCEPT ![d] = "idle"]
    /\ UNCHANGED <<account, op, run, order, paused, dispute, crashes>>

\* prepareJitOrder locks the draft; an open checkout of it is handed out again.
LocksForCheckout(d) ==
    /\ call[d] = "signed_in" /\ draft[d] # "none" /\ d \notin run.has
    /\ call' = [call EXCEPT ![d] =
           IF draft[d] = "unsent" /\ order[d] # "open" THEN "buying" ELSE "idle"]
    /\ UNCHANGED <<account, op, run, draft, order, mail, paused, dispute, crashes>>

\* createPackCheckout: nothing is locked before the order's insert.
ChecksOutPack(p) ==
    /\ call[p] = "signed_in"
    /\ call' = [call EXCEPT ![p] = "buying"]
    /\ UNCHANGED <<account, op, run, draft, order, mail, paused, dispute, crashes>>

\* A mutant: the account is not read again.
OpensOrderUnreadMutant(p) ==
    /\ call[p] = "buying" /\ AccountIsFree
    /\ order' = [order EXCEPT ![p] = "open"]
    /\ call' = [call EXCEPT ![p] = "idle"]
    /\ UNCHANGED <<account, op, run, draft, mail, paused, dispute, crashes>>

\* The order's insert waits for the account's row, and then the account is read again
\* (assertAccountMayPurchase): an erased or blocked one rolls the insert back.
OpensOrder(p) ==
    /\ call[p] = "buying" /\ AccountIsFree
    /\ order' = IF account.erased \/ account.block # "none"
                THEN order ELSE [order EXCEPT ![p] = "open"]
    /\ call' = [call EXCEPT ![p] = "idle"]
    /\ UNCHANGED <<account, op, run, draft, mail, paused, dispute, crashes>>

\* transitionPaidCheckout locks the draft of a payment Stripe reports,
PaymentArrives(d) ==
    /\ order[d] = "open" /\ call[d] \in {"idle", "signed_in"} /\ d \notin run.has
    /\ call' = [call EXCEPT ![d] = "fulfilling"]
    /\ UNCHANGED <<account, op, run, draft, order, mail, paused, dispute, crashes>>

\* then the order and the account; it mails the draft, or leaves the money to go back.
Fulfils(d) ==
    /\ call[d] = "fulfilling" /\ RowsAreFree(d) /\ AccountIsFree
    /\ \/ /\ order' = [order EXCEPT ![d] = "paid"]
          /\ \E m \in {"held", "pending"} : mail' = [mail EXCEPT ![d] = m]
          /\ draft' = [draft EXCEPT ![d] = "gone"]
       \/ order' = [order EXCEPT ![d] = "refund"] /\ UNCHANGED <<mail, draft>>
    /\ call' = [call EXCEPT ![d] = "idle"]
    /\ UNCHANGED <<account, op, run, paused, dispute, crashes>>

\* A pack's payment grants its letters under the account's lock.
PackIsPaid(p) ==
    /\ order[p] = "open" /\ RowsAreFree(p) /\ AccountIsFree
    /\ order' = [order EXCEPT ![p] = "settled"]
    /\ UNCHANGED <<account, op, run, draft, mail, paused, dispute, call, crashes>>

\* A transaction fails for any reason of its own, or as a deadlock's victim.
RollsBack(p) ==
    /\ call[p] \in {"sending", "buying", "fulfilling"}
    /\ call' = [call EXCEPT ![p] = "idle"]
    /\ UNCHANGED <<account, op, run, draft, order, mail, paused, dispute, crashes>>

\* Stripe closes the session unpaid.
OrderCloses(p) ==
    /\ order[p] = "open" /\ call[p] # "fulfilling" /\ p \notin run.has /\ RowsAreFree(p)
    /\ order' = [order EXCEPT ![p] = "none"]
    /\ UNCHANGED <<account, op, run, draft, mail, paused, dispute, call, crashes>>

\* A payment to give back is refunded.
RefundSettles(d) ==
    /\ order[d] = "refund" /\ RowsAreFree(d)
    /\ order' = [order EXCEPT ![d] = "settled"]
    /\ UNCHANGED <<account, op, run, draft, mail, paused, dispute, call, crashes>>

-----------------------------------------------------------------------------
(* The outbox, disputes and the operator. *)

\* No erasure's transaction is open. One that is reads its own start as the time: to it mail
\* that comes due or is released meanwhile is still held (see ClaimJob).
ClockIsShared == run.at \in {"idle", "outside"}

\* Mail held for its date comes due.
BecomesDue(d) ==
    /\ mail[d] = "held" /\ ClockIsShared
    /\ mail' = [mail EXCEPT ![d] = "pending"]
    /\ UNCHANGED <<account, op, run, draft, order, paused, dispute, call, crashes>>

\* claimJob skips locked rows and mail left for the operator (leftForOperatorSql). Mail
\* that came due since the run began is due to it, and still held to the run.
ClaimJob(d) ==
    /\ mail[d] = "pending" \/ (mail[d] = "held" /\ DueMeanwhile /\ ~ClockIsShared)
    /\ RowsAreFree(d) /\ d \notin paused /\ account.block = "none"
    /\ mail' = [mail EXCEPT ![d] = "claimed"]
    /\ UNCHANGED <<account, op, run, draft, order, paused, dispute, call, crashes>>

\* markProviderDispatch, under the account's lock FOR SHARE; an account blocked since the
\* claim, or a letter held since, goes back to wait for the operator.
MarkProviderDispatch(d) ==
    /\ mail[d] = "claimed" /\ RowsAreFree(d) /\ AccountIsFree
    /\ mail' = [mail EXCEPT ![d] =
           IF d \in paused \/ account.block # "none" THEN "pending" ELSE "calling"]
    /\ UNCHANGED <<account, op, run, draft, order, paused, dispute, call, crashes>>

\* completeJob.
MailTaken(d) ==
    /\ mail[d] = "calling" /\ RowsAreFree(d)
    /\ mail' = [mail EXCEPT ![d] = "over"]
    /\ order' = IF order[d] = "paid" THEN [order EXCEPT ![d] = "settled"] ELSE order
    /\ UNCHANGED <<account, op, run, draft, paused, dispute, call, crashes>>

\* A failure before or at the provider: tried again later, or the last, which gives back
\* what paid for it: a payment through its order, letters at once unless a dispute took them.
MailFails(d) ==
    /\ mail[d] \in {"claimed", "calling"} /\ RowsAreFree(d) /\ AccountIsFree
    /\ \/ mail' = [mail EXCEPT ![d] = "pending"] /\ UNCHANGED order
       \/ /\ order[d] = "paid" /\ order' = [order EXCEPT ![d] = "refund"]
          /\ mail' = [mail EXCEPT ![d] = "failed"]
       \/ /\ order[d] # "paid" /\ UNCHANGED order
          /\ mail' = [mail EXCEPT ![d] =
                 IF \E x \in Disputes : dispute[x] \in {"open", "lost"} THEN "failed" ELSE "over"]
    /\ UNCHANGED <<account, op, run, draft, paused, dispute, call, crashes>>

\* retryLetterJobAsAdmin, of a failure that nothing was given back for.
RetryLetterJob(d) ==
    /\ mail[d] = "failed" /\ order[d] # "settled" /\ RowsAreFree(d)
    /\ mail' = [mail EXCEPT ![d] = "pending"]
    /\ order' = IF order[d] = "refund" THEN [order EXCEPT ![d] = "paid"] ELSE order
    /\ UNCHANGED <<account, op, run, draft, paused, dispute, call, crashes>>

\* Held mail released.
OperatorReleases(d) ==
    /\ HeldMail(d) /\ RowsAreFree(d) /\ (mail[d] = "held" => ClockIsShared)
    /\ mail' = [mail EXCEPT ![d] = "pending"]
    /\ paused' = paused \ {d}
    /\ UNCHANGED <<account, op, run, draft, order, dispute, call, crashes>>

\* Mail held for its date, or left for the operator by its funding or its account's block,
\* is cancelled, and its letters come back.
OperatorCancels(d) ==
    /\ order[d] \notin {"paid", "refund", "settled"}
    /\ mail[d] = "held" \/ (mail[d] = "pending" /\ (d \in paused \/ account.block # "none"))
    /\ RowsAreFree(d) /\ AccountIsFree
    /\ mail' = [mail EXCEPT ![d] = "over"]
    /\ paused' = paused \ {d}
    /\ UNCHANGED <<account, op, run, draft, order, dispute, call, crashes>>

\* The pack's order, its mail and the account are locked by whoever handles its dispute.
DisputeMayRun == run.at \in {"idle", "drafts", "outside"}

\* processDisputeEvent, a chargeback or its loss: the pack's mail waits, the account is blocked.
DisputeTakes(x) ==
    /\ DisputeMayRun
    /\ \/ dispute[x] = "none" /\ \E s \in {"open", "lost"} : dispute' = [dispute EXCEPT ![x] = s]
       \/ dispute[x] = "open" /\ dispute' = [dispute EXCEPT ![x] = "lost"]
    /\ paused' = paused \cup {d \in Drafts : /\ mail[d] \in {"held", "pending", "claimed"}
                                             /\ order[d] \notin {"paid", "refund", "settled"}}
    /\ account' = [account EXCEPT !.block = BlockedFor("payment_disputed")]
    /\ UNCHANGED <<op, run, draft, order, mail, call, crashes>>

\* unblockAccountSends: a block for a dispute, and no other dispute that justifies it.
Unblocks(x) ==
    /\ account.block = "payment_disputed"
    /\ \A y \in Disputes \ {x} : dispute[y] \in {"none", "won"}

\* processDisputeEvent, won: the mail it paused stays with the operator.
DisputeWon(x) ==
    /\ DisputeMayRun /\ dispute[x] = "open"
    /\ dispute' = [dispute EXCEPT ![x] = "won"]
    /\ account' = IF Unblocks(x) THEN [account EXCEPT !.block = "none"] ELSE account
    /\ UNCHANGED <<op, run, draft, order, mail, paused, call, crashes>>

\* account.erase: refused for a tombstone, while one is queued, and while the gate is shut.
\* It writes a row of its own; an attempt of an earlier row left to record is that row's.
QueueErasure ==
    /\ ~account.erased /\ op.status # "pending" /\ ~ErasureBlocked
    /\ run.at = "idle"
    /\ op' = [status |-> "pending", attempts |-> 0, due |-> TRUE]
    /\ UNCHANGED <<account, run, draft, order, mail, paused, dispute, call, crashes>>

-----------------------------------------------------------------------------
(* The run: processAdminOperations, one transaction under a savepoint. *)

\* handleNextOperation claims a due operation; the erasure's first statement then sees the
\* drafts there are.
ClaimOperation ==
    /\ run.at = "idle" /\ op.status = "pending" /\ op.due
    /\ run' = [Idle EXCEPT !.at = "drafts", !.todo = {d \in Drafts : draft[d] # "none"}]
    /\ UNCHANGED <<account, op, draft, order, mail, paused, dispute, call, crashes>>

LocksDraft(d) ==
    /\ run.at = "drafts" /\ d \in run.todo /\ ~HoldsDraft(d)
    /\ run' = [run EXCEPT !.todo = @ \ {d}, !.has = @ \cup {d}]
    /\ UNCHANGED <<account, op, draft, order, mail, paused, dispute, call, crashes>>

\* Orders, letters and jobs, as they are now: their holders never wait with them.
LocksRows ==
    /\ run.at = "drafts" /\ run.todo = {}
    /\ run' = [run EXCEPT !.at = "rows",
                          !.rows = {p \in Purchases :
                                       order[p] # "none" \/ (p \in Drafts /\ mail[p] # "none")}]
    /\ UNCHANGED <<account, op, draft, order, mail, paused, dispute, call, crashes>>

LocksAccount ==
    /\ run.at = "rows"
    /\ run' = [run EXCEPT !.at = "account"]
    /\ UNCHANGED <<account, op, draft, order, mail, paused, dispute, call, crashes>>

\* The gate, read under the account's lock. A refusal is an answer, not a failure.
ReadsGate ==
    /\ run.at = "account"
    /\ \/ ~ErasureBlocked /\ run' = [run EXCEPT !.at = "open"] /\ UNCHANGED op
       \/ ErasureBlocked /\ run' = Idle
          /\ op' = [op EXCEPT !.status = "failed", !.attempts = @ + 1]
    /\ UNCHANGED <<account, draft, order, mail, paused, dispute, call, crashes>>

\* Its writes, which wait for every draft there is, and the operation's outcome with them.
Erases ==
    /\ run.at = "open" /\ \A d \in Drafts : draft[d] = "none" \/ d \in run.has \/ ~HoldsDraft(d)
    /\ mail' = [d \in Drafts |-> IF HeldMail(d) \/ mail[d] = "failed" THEN "over" ELSE mail[d]]
    /\ draft' = [d \in Drafts |-> IF draft[d] = "none" THEN "none" ELSE "gone"]
    /\ account' = [erased |-> TRUE, block |-> BlockedFor("account_erased")]
    /\ op' = [op EXCEPT !.status = "succeeded", !.attempts = @ + 1]
    /\ run' = Idle
    /\ UNCHANGED <<order, paused, dispute, call, crashes>>

\* A deadlock with a call that holds a draft this run does not, and waits for the account:
\* the run is the victim. It is tried again in an hour, at no cost.
LockConflict ==
    /\ run.at = "open"
    /\ \E d \in Drafts : HoldsDraft(d) /\ d \notin run.has
    /\ run' = Idle
    /\ op' = [op EXCEPT !.due = FALSE]
    /\ UNCHANGED <<account, draft, order, mail, paused, dispute, call, crashes>>

\* A mutant: a failure is not counted.
CountedAtClaimMutant(o) == [o EXCEPT !.due = FALSE]

\* One more attempt, the last of which fails the operation.
Counted(o) ==
    [o EXCEPT !.attempts = @ + 1, !.due = FALSE,
              !.status = IF o.attempts + 1 >= MAX_OPERATION_ATTEMPTS THEN "failed" ELSE "pending"]

\* The work fails: back to the savepoint, and the attempt is written in the same transaction.
UnexpectedFailure ==
    /\ run.at \in {"drafts", "rows", "account", "open"}
    /\ run' = Idle
    /\ op' = Counted(op)
    /\ UNCHANGED <<account, draft, order, mail, paused, dispute, call, crashes>>

\* The bookkeeping itself fails: nothing is written, and a statement of its own counts it.
BookkeepingFails ==
    /\ run.at \in {"drafts", "rows", "account", "open"}
    /\ run' = [Idle EXCEPT !.at = "outside"]
    /\ UNCHANGED <<account, op, draft, order, mail, paused, dispute, call, crashes>>

RecordAttemptOutside ==
    /\ run.at = "outside"
    /\ run' = Idle
    /\ op' = Counted(op)
    /\ UNCHANGED <<account, draft, order, mail, paused, dispute, call, crashes>>

\* The run dies at any point, or that statement fails too: nobody counts it.
Dies ==
    /\ run.at # "idle" /\ crashes < MaxCrashes
    /\ run' = Idle
    /\ crashes' = crashes + 1
    /\ UNCHANGED <<account, op, draft, order, mail, paused, dispute, call>>

\* available_at: the hour between two attempts.
HourPasses ==
    /\ op.status = "pending" /\ ~op.due
    /\ op' = [op EXCEPT !.due = TRUE]
    /\ UNCHANGED <<account, run, draft, order, mail, paused, dispute, call, crashes>>

CallEnds(d) == Sends(d) \/ OpensOrder(d) \/ Fulfils(d) \/ RollsBack(d)

RunAdvances == LocksRows \/ LocksAccount \/ ReadsGate \/ Erases \/ LockConflict \/ RecordAttemptOutside

Next ==
    \/ \E d \in Drafts :
          \/ SignsIn(d) \/ WritesDraft(d) \/ LocksForSend(d) \/ LocksForCheckout(d)
          \/ PaymentArrives(d) \/ CallEnds(d) \/ OrderCloses(d) \/ RefundSettles(d)
          \/ BecomesDue(d) \/ ClaimJob(d) \/ MarkProviderDispatch(d) \/ MailTaken(d) \/ MailFails(d)
          \/ RetryLetterJob(d) \/ OperatorReleases(d) \/ OperatorCancels(d) \/ LocksDraft(d)
    \/ \E p \in Packs :
          \/ SignsIn(p) \/ ChecksOutPack(p) \/ OpensOrder(p) \/ RollsBack(p)
          \/ PackIsPaid(p) \/ OrderCloses(p)
    \/ \E x \in Disputes : DisputeTakes(x) \/ DisputeWon(x)
    \/ QueueErasure \/ ClaimOperation \/ RunAdvances
    \/ UnexpectedFailure \/ BookkeepingFails \/ Dies \/ HourPasses

Spec == Init /\ [][Next]_vars

\* The maintenance runs every hour and time passes; a lock is granted in turn, so a run is
\* not passed over for ever at one draft; a call under way ends. Nothing makes a customer,
\* Stripe, the provider or an operator act.
FairSpec ==
    /\ Spec
    /\ WF_vars(ClaimOperation) /\ WF_vars(RunAdvances) /\ WF_vars(HourPasses)
    /\ \A d \in Drafts : SF_vars(LocksDraft(d)) /\ WF_vars(CallEnds(d))

-----------------------------------------------------------------------------
(* Properties *)

\* Nothing of an erased account moves, then or later: no letter that could still be printed,
\* no order or payment left open, no block lifted. It is what the locks, the gate under them
\* and the reads after them are for: a call past sign-in, a payment, a worker, an operator
\* and a dispute's outcome each meet the erasure at another row.
TombstoneIsQuiet ==
    account.erased =>
       /\ op.status = "succeeded" /\ account.block # "none"
       /\ \A p \in Purchases : order[p] \in {"none", "settled"}
       /\ \A d \in Drafts : mail[d] \in {"none", "over"}

\* A queued erasure is answered in the end, done, refused or given up: neither a lock
\* conflict nor a failure that nothing could record leaves it queued for ever.
ErasureIsAnswered == op.status = "pending" ~> op.status # "pending"

=============================================================================
