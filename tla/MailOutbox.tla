----------------------------- MODULE MailOutbox -----------------------------
(***************************************************************************)
(* The transactional outbox that takes a paid letter to the printer:       *)
(* letters, letter_jobs, the Pay & Send orders that fund some of them, and *)
(* the letter packs that fund the others.                                  *)
(*                                                                         *)
(* One action is one database transaction: every transaction of the outbox *)
(* takes its row locks in the canonical order (order, letter, job, user)   *)
(* before it reads what it decides on.  What is NOT one transaction is     *)
(* modelled step by step: a worker claims in one transaction, marks the    *)
(* dispatch in another, calls the provider outside any, and settles in a   *)
(* third; the sweeps read a list of stale jobs first and settle each job   *)
(* in a later transaction.  A worker is any such thread of control: the    *)
(* send's inline dispatch, the maintenance run, or an admin command.       *)
(***************************************************************************)
EXTENDS Naturals

CONSTANTS
    Letters,        \* the letters of the instance
    JitLetters,     \* those paid by their own Pay & Send order; the others by a pack
    Packs,          \* letter pack orders
    Accounts,
    Workers,        \* concurrent processors of the outbox
    Pack,           \* [Letters -> Packs]: the pack a prepaid letter drew on
    Owner,          \* [Letters -> Accounts]
    PackOwner,      \* [Packs -> Accounts]
    MaxAttempts,    \* OUTBOX_MAX_ATTEMPTS
    AttemptBound,   \* bound of the model: operators retry no further than this
    OperatorWaits,  \* whether an operator decides only once the call it is about ended
    NoLetter        \* the letter of a worker with nothing in hand

ASSUME OutboxAssumption ==
    /\ JitLetters \subseteq Letters
    /\ Pack \in [Letters -> Packs]
    /\ Owner \in [Letters -> Accounts]
    /\ PackOwner \in [Packs -> Accounts]
    /\ MaxAttempts \in Nat \ {0}
    /\ AttemptBound \in Nat /\ MaxAttempts <= AttemptBound
    /\ OperatorWaits \in BOOLEAN
    /\ NoLetter \notin Letters

VARIABLES
    letter,     \* letters.status, up to the provider's acceptance
    job,        \* the letter_jobs row of each letter
    order,      \* the Pay & Send order of each letter in JitLetters
    pack,       \* the letter pack orders and their lots
    returned,   \* letters whose payment was re-issued to the customer
    released,   \* letters an operator released since their last funding hold
    piece,      \* the provider's truth: pieces of mail it took, by Idempotency-Key
    worker      \* what each worker is doing, and the row it read when it began

vars == <<letter, job, order, pack, returned, released, piece, worker>>

-----------------------------------------------------------------------------
(* The rows. *)

LetterStatus == {"draft", "queued", "processing", "held", "accepted", "failed", "cancelled"}
JobStatus == {"none", "pending", "processing", "held", "completed", "failed", "cancelled"}
Outcome == {"not_dispatched", "dispatching", "ambiguous", "accepted", "definite_failure"}
HoldReason == {"none", "funding", "provider_outcome_ambiguous", "payment"}
OrderStatus == {"paid", "fulfillment_pending", "fulfilled", "held", "refund_pending",
                "refunded", "disputed"}

\* dated: mail_hold_until is set; due: next_attempt_at has passed; stale: locked_at is
\* older than STALE_LOCK_MINUTES; resolved: operator_resolution is set.
JobRow == [status : JobStatus, outcome : Outcome, attempts : 0..AttemptBound,
           max : MaxAttempts..AttemptBound, hold : HoldReason,
           dated : BOOLEAN, due : BOOLEAN, stale : BOOLEAN, resolved : BOOLEAN]

\* refunding: the refund sweep has claimed it (refund_attempts > 0) or it names a
\* Stripe refund; loss: a dispute that took the money stands against it.
OrderRow == [status : OrderStatus, refunding : BOOLEAN, loss : BOOLEAN]

\* live: lots spendable; refund_pending: a full refund is under way, lots untouched;
\* refunded: by Stripe's event, lots revoked; swept: the same by the refund sweep;
\* disputed: lost for now, lots revoked; won: the dispute was won, lots still revoked.
PackState == {"live", "refund_pending", "refunded", "swept", "disputed", "won"}

\* pc says what a worker does next, to the letter and with the row it read.
WorkerPc == {"idle", "claimed", "prefail", "calling", "accepted", "rejected", "recovering", "holding"}
WorkerState == [pc : WorkerPc, l : Letters \cup {NoLetter}, attempts : 0..AttemptBound,
                retryable : BOOLEAN]

IdleWorker == [pc |-> "idle", l |-> NoLetter, attempts |-> 0, retryable |-> FALSE]
Working(pc, l) == [pc |-> pc, l |-> l, attempts |-> job[l].attempts,
                   retryable |-> job[l].attempts < job[l].max]

NoJob == [status |-> "none", outcome |-> "not_dispatched", attempts |-> 0,
          max |-> MaxAttempts, hold |-> "none",
          dated |-> FALSE, due |-> FALSE, stale |-> FALSE, resolved |-> FALSE]

Init ==
    /\ letter = [l \in Letters |-> "draft"]
    /\ job = [l \in Letters |-> NoJob]
    /\ order = [l \in JitLetters |-> [status |-> "paid", refunding |-> FALSE, loss |-> FALSE]]
    /\ pack = [p \in Packs |-> "live"]
    /\ returned = {}
    /\ released = {}
    /\ piece = {}
    /\ worker = [w \in Workers |-> IdleWorker]

-----------------------------------------------------------------------------
(* The conditions the code shares between its statements. *)

Revoked(p) == pack[p] \in {"refunded", "swept", "disputed", "won"}

\* sends_blocked_reason of the account: set by the first loss, cleared when no loss stands.
Blocked(a) ==
    \/ \E p \in Packs : PackOwner[p] = a /\ pack[p] = "disputed"
    \/ \E l \in JitLetters : Owner[l] = a /\ order[l].loss

FundingHeld(l) == job[l].outcome = "not_dispatched" /\ job[l].hold = "funding"

LeftForOperator(l) == FundingHeld(l) \/ Blocked(Owner[l])

\* What returnConsumedCreditsForLetter and returnGiftLetterForFailedSendWithClient do,
\* inside the caller's transaction: nothing comes back for a Pay & Send letter, nor
\* from a revoked lot.
ReturnPrepaid(l) ==
    returned' = IF l \in JitLetters \/ Revoked(Pack[l]) THEN returned ELSE returned \cup {l}

CompensatedByRefundOnlyMutant(l) == l \notin JitLetters /\ Revoked(Pack[l])

\* isLetterAlreadyCompensated
Compensated(l) == l \in returned \/ (l \notin JitLetters /\ Revoked(Pack[l]))

JobIs(l, s, o) == job[l].status = s /\ job[l].outcome = o

MoveOrderUnguardedMutant(l, from, to) ==
    order' = IF l \in JitLetters THEN [order EXCEPT ![l].status = to] ELSE order

\* order[l] moved from one status to another, where it has it; untouched for prepaid mail.
MoveOrder(l, from, to) ==
    order' = IF l \in JitLetters /\ order[l].status = from
             THEN [order EXCEPT ![l].status = to] ELSE order

CallInFlight(l) ==
    \E w \in Workers : worker[w].pc \in {"calling", "rejected", "accepted"} /\ worker[w].l = l

Finish(w) == worker' = [worker EXCEPT ![w] = IdleWorker]
Goto(w, pc) == worker' = [worker EXCEPT ![w].pc = pc]

-----------------------------------------------------------------------------
(* The send: createLetterJobWithClient, inside createMailOrderFromDraftWithClient. *)

Send(l, dated) ==
    /\ letter[l] = "draft" /\ job[l] = NoJob
    /\ IF l \in JitLetters
       THEN order[l].status = "paid"
       ELSE ~Blocked(Owner[l]) /\ pack[Pack[l]] \in {"live", "refund_pending"}
    /\ letter' = [letter EXCEPT ![l] = "queued"]
    /\ job' = [job EXCEPT ![l] = [NoJob EXCEPT !.status = "pending", !.dated = dated, !.due = ~dated]]
    /\ MoveOrder(l, "paid", "fulfillment_pending")
    /\ UNCHANGED <<pack, returned, released, piece, worker>>

\* The clock reaches next_attempt_at.
BecomesDue(l) ==
    /\ job[l].status \in {"pending", "failed"} /\ ~job[l].due
    /\ job' = [job EXCEPT ![l].due = TRUE]
    /\ UNCHANGED <<letter, order, pack, returned, released, piece, worker>>

\* STALE_LOCK_MINUTES pass on a claimed job; nothing renews locked_at.
LockAges(l) ==
    /\ job[l].status = "processing" /\ ~job[l].stale
    /\ job' = [job EXCEPT ![l].stale = TRUE]
    /\ UNCHANGED <<letter, order, pack, returned, released, piece, worker>>

-----------------------------------------------------------------------------
(* One worker, one job: claim, mark, call, settle. *)

Waiting(l) == job[l].status \in {"pending", "failed"} /\ job[l].due /\ ~LeftForOperator(l)
Abandoned(l) == job[l].status = "processing" /\ job[l].stale

\* The candidates of claimJob: waiting jobs, and claims a crash left behind.
Claimable(l) ==
    /\ job[l].attempts < job[l].max
    /\ job[l].outcome = "not_dispatched"
    /\ Waiting(l) \/ Abandoned(l)

\* claimJob: the inline dispatch of one send, and the loop of processDueLetterJobs.
ClaimJob(w, l) ==
    /\ worker[w].pc = "idle"
    /\ Claimable(l)
    /\ job' = [job EXCEPT ![l].status = "processing", ![l].attempts = @ + 1, ![l].stale = FALSE]
    /\ worker' = [worker EXCEPT ![w] =
                    [pc |-> "claimed", l |-> l, attempts |-> job[l].attempts + 1,
                     retryable |-> job[l].attempts + 1 < job[l].max]]
    /\ UNCHANGED <<letter, order, pack, returned, released, piece>>

\* loadLetter or resolveProviderForLetter throws: no provider was contacted.
ProviderUnavailable(w) ==
    /\ worker[w].pc = "claimed"
    /\ Goto(w, "prefail")
    /\ UNCHANGED <<letter, job, order, pack, returned, released, piece>>

StillThisClaimMarkedMutant(w) ==
    LET l == worker[w].l IN
    /\ l \in JitLetters => order[l].status = "fulfillment_pending"
    /\ job[l].status = "processing" /\ job[l].attempts = worker[w].attempts
    /\ letter[l] \in {"queued", "processing"}

\* What markProviderDispatch asks of the rows before it may mark or put back.
StillThisClaim(w) ==
    LET l == worker[w].l IN
    /\ l \in JitLetters => order[l].status = "fulfillment_pending"
    /\ JobIs(l, "processing", "not_dispatched") /\ job[l].attempts = worker[w].attempts
    /\ letter[l] \in {"queued", "processing"}

PutBackSpentMutant(row) == [row EXCEPT !.status = "pending", !.stale = FALSE]

\* The statement that gives the attempt of a job left for the operator back.
PutBackRow(row) ==
    [row EXCEPT !.status = "pending", !.stale = FALSE, !.attempts = IF @ = 0 THEN 0 ELSE @ - 1]
PutBack(l) == job' = [job EXCEPT ![l] = PutBackRow(@)]

\* markProviderDispatch throws: back to failBeforeDispatch.
MarkRefused(w) ==
    /\ worker[w].pc = "claimed" /\ ~StillThisClaim(w)
    /\ Goto(w, "prefail")
    /\ UNCHANGED <<letter, job, order, pack, returned, released, piece>>

\* markProviderDispatch: held for its funding, or the account blocked, since the claim.
MarkPutsBack(w) ==
    /\ worker[w].pc = "claimed" /\ StillThisClaim(w)
    /\ job[worker[w].l].hold = "funding" \/ Blocked(Owner[worker[w].l])
    /\ PutBack(worker[w].l)
    /\ Finish(w)
    /\ UNCHANGED <<letter, order, pack, returned, released, piece>>

\* markProviderDispatch: the durable marker, after which the provider may be called.
MarkProviderDispatch(w) ==
    LET l == worker[w].l IN
    /\ worker[w].pc = "claimed" /\ StillThisClaim(w)
    /\ job[l].hold # "funding" /\ ~Blocked(Owner[l])
    /\ job' = [job EXCEPT ![l].outcome = "dispatching"]
    /\ letter' = [letter EXCEPT ![l] = "processing"]
    /\ Goto(w, "calling")
    /\ UNCHANGED <<order, pack, returned, released, piece>>

\* submitToProvider.  The Idempotency-Key is the letter's id, so the provider answers a
\* second request for a piece it took with that piece, and never refuses it.  An answer
\* that is lost, or says nothing definite, is an error: held, whatever the truth is.
ProviderAnswers(w) ==
    LET l == worker[w].l IN
    /\ worker[w].pc = "calling"
    /\ \/ piece' = piece \cup {l} /\ Goto(w, "accepted")
       \/ piece' = piece \cup {l} /\ Goto(w, "holding")
       \/ l \notin piece /\ piece' = piece /\ Goto(w, "rejected")
       \/ piece' = piece /\ Goto(w, "holding")
    /\ UNCHANGED <<letter, job, order, pack, returned, released>>

\* completeJob
CompleteJob(w) ==
    LET l == worker[w].l
        done == JobIs(l, "completed", "accepted")
        eligible == /\ JobIs(l, "processing", "dispatching") \/ JobIs(l, "held", "ambiguous")
                    /\ letter[l] \in {"processing", "held"}
    IN
    /\ worker[w].pc = "accepted"
    /\ \/ done /\ Finish(w) /\ UNCHANGED <<letter, job, order>>
       \/ /\ ~done /\ eligible
          /\ letter' = [letter EXCEPT ![l] = "accepted"]
          /\ job' = [job EXCEPT ![l].status = "completed", ![l].outcome = "accepted",
                                ![l].stale = FALSE]
          /\ MoveOrder(l, "fulfillment_pending", "fulfilled")
          /\ Finish(w)
       \/ ~done /\ ~eligible /\ Goto(w, "recovering") /\ UNCHANGED <<letter, job, order>>
    /\ UNCHANGED <<pack, returned, released, piece>>

\* The settling transaction itself fails (a lost connection): the acceptance goes to
\* recoverProviderAcceptancePersistence, a rejection to processClaimedJob's catch.
SettleFails(w) ==
    /\ \/ worker[w].pc = "accepted" /\ Goto(w, "recovering")
       \/ worker[w].pc = "rejected" /\ Goto(w, "holding")
    /\ UNCHANGED <<letter, job, order, pack, returned, released, piece>>

\* recoverProviderAcceptancePersistence: its read, before the hold's own transaction.
RecoverAcceptance(w) ==
    /\ worker[w].pc = "recovering"
    /\ IF job[worker[w].l].status = "completed" THEN Finish(w) ELSE Goto(w, "holding")
    /\ UNCHANGED <<letter, job, order, pack, returned, released, piece>>

\* holdAmbiguousDispatch: the job's predicate and the letter's are independent.
HoldAmbiguousDispatch(w) ==
    LET l == worker[w].l IN
    /\ worker[w].pc = "holding"
    /\ job' = IF job[l].status \in {"completed", "failed"} THEN job
              ELSE [job EXCEPT ![l].status = "held", ![l].outcome = "ambiguous",
                               ![l].hold = "provider_outcome_ambiguous", ![l].stale = FALSE]
    /\ letter' = IF letter[l] \in {"accepted", "failed"} THEN letter
                 ELSE [letter EXCEPT ![l] = "held"]
    /\ MoveOrder(l, "fulfillment_pending", "held")
    /\ Finish(w)
    /\ UNCHANGED <<pack, returned, released, piece>>

\* The predicate of failOrRescheduleJob's write: not the attempts of the dispatch.
OwnsDispatch(w, l) == JobIs(l, "processing", "dispatching")

\* failOrRescheduleJob: a definite rejection is always terminal.
FailOrRescheduleJob(w) ==
    LET l == worker[w].l IN
    /\ worker[w].pc = "rejected"
    /\ Finish(w)
    /\ IF OwnsDispatch(w, l)
       THEN /\ job' = [job EXCEPT ![l].status = "failed", ![l].outcome = "definite_failure",
                                  ![l].stale = FALSE, ![l].due = TRUE]
            /\ letter' = [letter EXCEPT ![l] = "failed"]
            /\ MoveOrder(l, "fulfillment_pending", "refund_pending")
            /\ ReturnPrepaid(l)
       ELSE UNCHANGED <<letter, job, order, returned>>
    /\ UNCHANGED <<pack, released, piece>>

HoldsClaimUnmarkedMutant(w, l) ==
    job[l].status = "processing" /\ job[l].attempts = worker[w].attempts

\* failBeforeDispatch's predicate: this claimant still holds the job.
HoldsClaim(w, l) ==
    JobIs(l, "processing", "not_dispatched") /\ job[l].attempts = worker[w].attempts

\* failBeforeDispatch
FailBeforeDispatch(w) ==
    LET l == worker[w].l
        putBack == job[l].hold = "funding" \/ Blocked(Owner[l])
    IN
    /\ worker[w].pc = "prefail"
    /\ Finish(w)
    /\ \/ ~HoldsClaim(w, l) /\ UNCHANGED <<letter, job, order, returned>>
       \/ HoldsClaim(w, l) /\ putBack /\ PutBack(l) /\ UNCHANGED <<letter, order, returned>>
       \/ /\ HoldsClaim(w, l) /\ ~putBack
          /\ job' = [job EXCEPT ![l].status = IF worker[w].retryable THEN "pending" ELSE "failed",
                                ![l].due = FALSE, ![l].stale = FALSE]
          /\ letter' = IF letter[l] \in {"held", "cancelled"} THEN letter
                       ELSE [letter EXCEPT ![l] = IF worker[w].retryable THEN "queued" ELSE "failed"]
          /\ IF worker[w].retryable THEN UNCHANGED <<order, returned>>
             ELSE MoveOrder(l, "fulfillment_pending", "refund_pending") /\ ReturnPrepaid(l)
    /\ UNCHANGED <<pack, released, piece>>

\* The process dies, or the settling transaction throws out of the run.
Crash(w) ==
    /\ worker[w].pc # "idle"
    /\ Finish(w)
    /\ UNCHANGED <<letter, job, order, pack, returned, released, piece>>

-----------------------------------------------------------------------------
(* The sweeps at the start of processDueLetterJobs. *)

\* A crash after the marker: the list is read here, each job is held in a later transaction.
SweepStaleDispatched(w, l) ==
    /\ worker[w].pc = "idle"
    /\ JobIs(l, "processing", "dispatching") /\ job[l].stale
    /\ worker' = [worker EXCEPT ![w] = Working("holding", l)]
    /\ UNCHANGED <<letter, job, order, pack, returned, released, piece>>

StaleUndispatchedOffByOneMutant(l) ==
    JobIs(l, "processing", "not_dispatched") /\ job[l].stale /\ job[l].attempts > job[l].max

\* What both sweeps of claims left on their last attempt look for.
StaleUndispatched(l) ==
    JobIs(l, "processing", "not_dispatched") /\ job[l].stale /\ job[l].attempts >= job[l].max

\* A crash before the marker on the last attempt, of mail left for the operator: one UPDATE.
SweepPutsBack ==
    LET stale == {l \in Letters : StaleUndispatched(l) /\ LeftForOperator(l)} IN
    /\ stale # {}
    /\ job' = [l \in Letters |-> IF l \in stale THEN PutBackRow(job[l]) ELSE job[l]]
    /\ UNCHANGED <<letter, order, pack, returned, released, piece, worker>>

\* The same crash otherwise: the list is read here, each job is failed in a later transaction.
SweepStaleUndispatched(w, l) ==
    /\ worker[w].pc = "idle"
    /\ StaleUndispatched(l) /\ ~LeftForOperator(l)
    /\ worker' = [worker EXCEPT ![w] = Working("prefail", l)]
    /\ UNCHANGED <<letter, job, order, pack, returned, released, piece>>

-----------------------------------------------------------------------------
(* The operator and the customer. *)

\* Raising max_attempts to allow one more claim: GREATEST(max_attempts, attempts + 1).
OneMore(l) == IF job[l].max > job[l].attempts THEN job[l].max ELSE job[l].attempts + 1

Resolvable(l) ==
    /\ letter[l] = "held" /\ JobIs(l, "held", "ambiguous")
    /\ OperatorWaits => ~CallInFlight(l)

\* resolveAmbiguousLetterJobAsAdmin, decision accepted: the provider has the piece.
ResolveAccepted(l) ==
    /\ Resolvable(l) /\ l \in piece /\ ~Compensated(l)
    /\ letter' = [letter EXCEPT ![l] = "accepted"]
    /\ job' = [job EXCEPT ![l].status = "completed", ![l].outcome = "accepted",
                          ![l].resolved = TRUE, ![l].hold = "none"]
    /\ MoveOrder(l, "held", "fulfilled")
    /\ UNCHANGED <<pack, returned, released, piece, worker>>

\* decision retry: the provider does not have it.  No attempts left for the bound of the
\* model is no limit of the code.
ResolveRetry(l) ==
    /\ Resolvable(l) /\ l \notin piece /\ ~Compensated(l)
    /\ l \in JitLetters => order[l].status = "held"
    /\ OneMore(l) <= AttemptBound
    /\ letter' = [letter EXCEPT ![l] = "queued"]
    /\ job' = [job EXCEPT ![l].status = "pending", ![l].outcome = "not_dispatched",
                          ![l].max = OneMore(l), ![l].due = TRUE,
                          ![l].resolved = TRUE, ![l].hold = "none"]
    /\ MoveOrder(l, "held", "fulfillment_pending")
    /\ UNCHANGED <<pack, returned, released, piece, worker>>

\* decision rejected: the provider refused it.
ResolveRejected(l) ==
    /\ Resolvable(l) /\ l \notin piece
    /\ letter' = [letter EXCEPT ![l] = "failed"]
    /\ job' = [job EXCEPT ![l].status = "failed", ![l].outcome = "definite_failure",
                          ![l].attempts = job[l].max, ![l].resolved = TRUE, ![l].hold = "none"]
    /\ ReturnPrepaid(l)
    /\ MoveOrder(l, "held", "refund_pending")
    /\ UNCHANGED <<pack, released, piece, worker>>

RetryableJitRefundStartedMutant(l) == order[l].status = "refund_pending"

\* A Pay & Send order whose refund nobody has started.  The only refund_pending order of
\* an unresolved, definitely failed job is the one PROVIDER_SUBMISSION_FAILED put there.
RetryableJitRefund(l) == order[l].status = "refund_pending" /\ ~order[l].refunding

\* retryLetterJobAsAdmin
RetryLetterJob(l) ==
    /\ JobIs(l, "failed", "definite_failure") /\ ~job[l].resolved /\ letter[l] = "failed"
    /\ l \in JitLetters => order[l].status = "fulfillment_pending" \/ RetryableJitRefund(l)
    /\ ~Compensated(l)
    /\ OneMore(l) <= AttemptBound
    /\ job' = [job EXCEPT ![l].status = "pending", ![l].outcome = "not_dispatched",
                          ![l].max = OneMore(l), ![l].due = TRUE]
    /\ letter' = [letter EXCEPT ![l] = "queued"]
    /\ MoveOrder(l, "refund_pending", "fulfillment_pending")
    /\ UNCHANGED <<pack, returned, released, piece, worker>>

\* releaseHeldLetterJobAsAdmin: mail held to its date is due now; mail held for its
\* funding keeps its date.
ReleaseHeldLetterJob(l) ==
    LET fundingHeld == job[l].hold = "funding" IN
    /\ l \in JitLetters => order[l].status = "fulfillment_pending"
    /\ letter[l] = "queued" /\ JobIs(l, "pending", "not_dispatched")
    /\ IF fundingHeld
       THEN job[l].attempts < job[l].max
       ELSE job[l].attempts = 0 /\ ~job[l].resolved /\ job[l].dated /\ ~job[l].due
    /\ job' = [job EXCEPT ![l].due = @ \/ ~fundingHeld, ![l].hold = "none"]
    /\ released' = IF fundingHeld THEN released \cup {l} ELSE released
    /\ UNCHANGED <<letter, order, pack, returned, piece, worker>>

\* The cancel both cancels of held mail make, and what goes back with it.
CancelPending(l) ==
    /\ letter' = [letter EXCEPT ![l] = "cancelled"]
    /\ ReturnPrepaid(l)
    /\ UNCHANGED <<order, pack, released, piece, worker>>

\* cancelLeftLetterJobAsAdmin
CancelLeftLetterJob(l) ==
    /\ l \notin JitLetters
    /\ letter[l] = "queued" /\ JobIs(l, "pending", "not_dispatched")
    /\ job[l].attempts < job[l].max
    /\ LeftForOperator(l)
    /\ job[l].resolved => FundingHeld(l)
    /\ job' = [job EXCEPT ![l].status = "cancelled", ![l].resolved = TRUE]
    /\ CancelPending(l)

\* cancelScheduledMailWithClient: the customer's own cancel of dated mail.
CancelScheduledMail(l) ==
    /\ l \notin JitLetters /\ job[l].dated
    /\ letter[l] = "queued" /\ JobIs(l, "pending", "not_dispatched")
    /\ job' = [job EXCEPT ![l].status = "cancelled"]
    /\ CancelPending(l)

-----------------------------------------------------------------------------
(* The money: Stripe's events, and the app's own refund sweep. *)

\* stopFundedMailBeforeFinancialReversal, of a Pay & Send order.
StopFundedMail(l) ==
    CASE job[l].status = "none" -> UNCHANGED <<letter, job>>
      [] job[l].status # "none" /\ job[l].outcome = "not_dispatched" ->
           /\ job' = [job EXCEPT ![l].status = "cancelled", ![l].hold = "payment", ![l].stale = FALSE]
           /\ letter' = IF letter[l] = "accepted" THEN letter
                        ELSE [letter EXCEPT ![l] = "cancelled"]
      [] job[l].outcome \in {"dispatching", "ambiguous"} ->
           /\ job' = [job EXCEPT ![l].status = "held", ![l].outcome = "ambiguous",
                                 ![l].hold = "payment", ![l].stale = FALSE]
           /\ letter' = IF letter[l] = "accepted" THEN letter
                        ELSE [letter EXCEPT ![l] = "held"]
      [] OTHER -> UNCHANGED <<letter, job>>

\* processRefundEvent of a Pay & Send order: a refund that completes the payment,
\* succeeded or still pending, made by the app or in Stripe.
JitRefundEvent(l, status) ==
    /\ order[l].status # "refunded"
    /\ StopFundedMail(l)
    /\ order' = [order EXCEPT ![l].status = status, ![l].refunding = TRUE]
    /\ UNCHANGED <<pack, returned, released, piece, worker>>

\* processDisputeEvent of a Pay & Send order: an inquiry (no loss) or a chargeback.
JitDisputeEvent(l, loss) ==
    /\ ~order[l].loss
    /\ StopFundedMail(l)
    /\ order' = [order EXCEPT ![l] = [@ EXCEPT !.status = "disputed", !.loss = loss]]
    /\ UNCHANGED <<pack, returned, released, piece, worker>>

\* processDisputeEvent, closed won: the account's block is lifted, the order stays disputed.
JitDisputeWon(l) ==
    /\ order[l].loss
    /\ StopFundedMail(l)
    /\ order' = [order EXCEPT ![l].status = "disputed", ![l].loss = FALSE]
    /\ UNCHANGED <<pack, returned, released, piece, worker>>

\* requestRefund's claim: from here an operator's retry is refused.
ClaimRefund(l) ==
    /\ order[l].status = "refund_pending"
    /\ order' = [order EXCEPT ![l].refunding = TRUE]
    /\ UNCHANGED <<letter, job, pack, returned, released, piece, worker>>

\* requestRefund's last transaction, Stripe having refunded: only if still refund_pending.
FinalizeRefund(l) ==
    /\ order[l].status = "refund_pending" /\ order[l].refunding
    /\ order' = [order EXCEPT ![l].status = "refunded"]
    /\ UNCHANGED <<letter, job, pack, returned, released, piece, worker>>

HoldableMailPendingOnlyMutant(p) ==
    {l \in Letters \ JitLetters : /\ Pack[l] = p /\ letter[l] = "queued"
                                  /\ JobIs(l, "pending", "not_dispatched")}

\* The letters holdMailFundedByOrder holds: the pack's, queued and not yet marked.
HoldableMailOf(p) ==
    {l \in Letters \ JitLetters : /\ Pack[l] = p /\ letter[l] = "queued"
                                  /\ job[l].status \in {"pending", "processing"}
                                  /\ job[l].outcome = "not_dispatched"}

\* holdMailFundedByOrder: they take a funding hold, and wait for the operator again.
HoldMailFundedBy(p) ==
    /\ job' = [l \in Letters |-> IF l \in HoldableMailOf(p)
                                 THEN [job[l] EXCEPT !.hold = "funding"] ELSE job[l]]
    /\ released' = released \ HoldableMailOf(p)

\* processRefundEvent of a pack, still pending: nothing else moves yet.
PackRefundPending(p) ==
    /\ pack[p] = "live"
    /\ pack' = [pack EXCEPT ![p] = "refund_pending"]
    /\ UNCHANGED <<letter, job, order, returned, released, piece, worker>>

\* processRefundEvent of a pack, succeeded: mail held, lots revoked.
PackRefundEvent(p) ==
    /\ pack[p] \in {"live", "refund_pending", "won"}
    /\ HoldMailFundedBy(p)
    /\ pack' = [pack EXCEPT ![p] = "refunded"]
    /\ UNCHANGED <<letter, order, returned, piece, worker>>

\* requestRefund of a pack whose pending refund has succeeded: lots revoked.  The event
\* that would have held the mail finds the order refunded and is ignored.
PackRefundFoundBySweep(p) ==
    /\ pack[p] = "refund_pending"
    /\ pack' = [pack EXCEPT ![p] = "swept"]
    /\ UNCHANGED <<letter, job, order, returned, released, piece, worker>>

\* processDisputeEvent of a pack, a loss, whatever the order has come to (a second dispute,
\* one after a refund): mail held, lots revoked, account blocked.
PackDisputeLoss(p) ==
    /\ HoldMailFundedBy(p)
    /\ pack' = [pack EXCEPT ![p] = "disputed"]
    /\ UNCHANGED <<letter, order, returned, piece, worker>>

\* processDisputeEvent, closed won: the unspent letters are granted again, the account
\* unblocked.  The lots stay revoked and the mail stays held for the operator.
PackDisputeWon(p) ==
    /\ pack[p] = "disputed"
    /\ pack' = [pack EXCEPT ![p] = "won"]
    /\ UNCHANGED <<letter, job, order, returned, released, piece, worker>>

-----------------------------------------------------------------------------
WorkerStep(w) ==
    \/ ProviderUnavailable(w) \/ MarkRefused(w) \/ MarkPutsBack(w) \/ MarkProviderDispatch(w)
    \/ ProviderAnswers(w) \/ CompleteJob(w) \/ SettleFails(w) \/ RecoverAcceptance(w)
    \/ HoldAmbiguousDispatch(w) \/ FailOrRescheduleJob(w) \/ FailBeforeDispatch(w)

Sweep(w, l) == SweepStaleDispatched(w, l) \/ SweepStaleUndispatched(w, l)

OperatorStep(l) ==
    \/ ResolveAccepted(l) \/ ResolveRetry(l) \/ ResolveRejected(l) \/ RetryLetterJob(l)
    \/ ReleaseHeldLetterJob(l) \/ CancelLeftLetterJob(l)

JitMoney(l) ==
    \/ \E s \in {"refund_pending", "refunded"} : JitRefundEvent(l, s)
    \/ \E loss \in BOOLEAN : JitDisputeEvent(l, loss)
    \/ JitDisputeWon(l) \/ ClaimRefund(l) \/ FinalizeRefund(l)

PackMoney(p) ==
    \/ PackRefundPending(p) \/ PackRefundEvent(p) \/ PackRefundFoundBySweep(p)
    \/ PackDisputeLoss(p) \/ PackDisputeWon(p)

Next ==
    \/ \E l \in Letters : \/ \E dated \in BOOLEAN : Send(l, dated)
                          \/ BecomesDue(l) \/ LockAges(l)
                          \/ OperatorStep(l) \/ CancelScheduledMail(l)
    \/ \E w \in Workers : \/ WorkerStep(w) \/ Crash(w)
                          \/ \E l \in Letters : ClaimJob(w, l) \/ Sweep(w, l)
    \/ SweepPutsBack
    \/ \E l \in JitLetters : JitMoney(l)
    \/ \E p \in Packs : PackMoney(p)

Spec == Init /\ [][Next]_vars

-----------------------------------------------------------------------------
(* What the outbox promises. *)

\* Every row holds a value the schema allows.
TypeOK ==
    /\ letter \in [Letters -> LetterStatus]
    /\ job \in [Letters -> JobRow]
    /\ order \in [JitLetters -> OrderRow]
    /\ pack \in [Packs -> PackState]
    /\ returned \subseteq Letters /\ released \subseteq Letters /\ piece \subseteq Letters
    /\ worker \in [Workers -> WorkerState]
    /\ \A w \in Workers : worker[w].pc # "idle" => worker[w].l \in Letters

\* The outbox never gives back what paid for a piece the provider took, nor calls such a
\* letter failed or cancelled: a definite rejection, a truthful operator or a job never
\* marked is behind every such end.
GivenUpIsNotMailed ==
    \A l \in Letters : l \in returned \/ letter[l] \in {"failed", "cancelled"} => l \notin piece

\* A letter that ended unmailed does not keep the customer's money (issue #151): what
\* paid for it was re-issued, or its pack's lots were revoked, or its order is on its way
\* back or a person's.
EndedUnmailedIsSettled ==
    \A l \in Letters : letter[l] \in {"failed", "cancelled"} =>
        IF l \in JitLetters
        THEN order[l].status \in {"refund_pending", "refunded", "disputed"}
        ELSE l \in returned \/ Revoked(Pack[l])

\* A letter is mailed or made good, and never both, however it ended.
MailedOrMadeGood == GivenUpIsNotMailed /\ EndedUnmailedIsSettled

\* The three rows of one letter tell one story: valid_letter_job_outcome_state of
\* migration 023, and the letter and order states that go with each job state.
RowsAgree ==
    \A l \in Letters :
        /\ job[l].status = "processing" => job[l].outcome \in {"not_dispatched", "dispatching"}
        /\ job[l].status = "held" => job[l].outcome = "ambiguous"
        /\ job[l].status = "completed" <=> job[l].outcome = "accepted"
        /\ job[l].status \in {"none", "pending", "cancelled"} => job[l].outcome = "not_dispatched"
        /\ letter[l] = "accepted" <=> job[l].status = "completed"
        /\ letter[l] = "held" <=> job[l].status = "held"
        /\ letter[l] = "processing" <=> JobIs(l, "processing", "dispatching")
        /\ letter[l] = "failed" <=> job[l].status = "failed"
        /\ l \in JitLetters /\ order[l].status = "fulfillment_pending" =>
             letter[l] \in {"queued", "processing"}
        /\ l \in JitLetters /\ order[l].status = "held" => letter[l] \in {"held", "accepted"}

\* A pending job can still be claimed: one with its attempts spent would be seen by no
\* claim and by no sweep, and would wait for ever.
PendingIsClaimable ==
    \A l \in Letters : job[l].status = "pending" => job[l].attempts < job[l].max

\* At most one request for a letter is on its way to the provider, whoever stalled.
OneCallInFlight ==
    \A v, w \in Workers :
        /\ worker[v].pc \in {"calling", "accepted", "rejected"}
        /\ worker[w].pc \in {"calling", "accepted", "rejected"}
        /\ worker[v].l = worker[w].l
        => v = w

BecomesDispatched(l) == job'[l].outcome = "dispatching" /\ job[l].outcome # "dispatching"

\* A letter is handed to the provider only while it is owed: the provider has no piece of
\* it, and nothing was given back for it, however many retries and put-backs came before.
DispatchIsOwed ==
    [][\A l \in Letters : BecomesDispatched(l) => l \notin piece /\ l \notin returned]_vars

\* #696: mail whose pack was refunded by Stripe's event, or disputed, is handed over only
\* after an operator released it.
ReversedFundingWaits ==
    [][\A l \in Letters \ JitLetters :
         BecomesDispatched(l) /\ pack[Pack[l]] \in {"refunded", "disputed", "won"}
            => l \in released]_vars

\* What is handed to the provider is owed, and its funding stands or was looked at.
DispatchIsDue == DispatchIsOwed /\ ReversedFundingWaits

\* The debt of a letter is cleared.  Prepaid: it was re-issued.  Pay & Send: the order's
\* money is going or gone, past what an operator's retry may undo, with no request left
\* that could still reach the provider.
Cleared(l) ==
    IF l \notin JitLetters THEN l \in returned
    ELSE /\ \/ order[l].status \in {"refunded", "disputed"}
            \/ order[l].status = "refund_pending" /\ order[l].refunding
         /\ \A w \in Workers : ~(worker[w].pc = "calling" /\ worker[w].l = l)

fate == [l \in Letters |-> CASE letter[l] = "draft" -> "unsent"
                             [] letter[l] # "draft" /\ l \in piece -> "mailed"
                             [] letter[l] # "draft" /\ l \notin piece /\ Cleared(l) -> "cleared"
                             [] OTHER -> "owed"]

\* The outbox keeps the promise of MailFate: whatever crashes, stalls, retries and
\* refunds come, no letter is both mailed and cleared, and neither is undone.
Promise == INSTANCE MailFate WITH Letters <- Letters, fate <- fate
KeepsPromise == Promise!Spec

-----------------------------------------------------------------------------
(* Progress.  The maintenance run is hourly and each run starts with the   *)
(* sweeps, so what stays enabled is done; a worker that does not die       *)
(* finishes.  A run may die at any point, but not every run at the same    *)
(* point: the two settling transactions that end a claim are strongly fair.*)

Fairness ==
    /\ \A l \in Letters : /\ WF_vars(BecomesDue(l)) /\ WF_vars(LockAges(l))
                          /\ WF_vars(\E w \in Workers : ClaimJob(w, l) \/ Sweep(w, l))
    /\ WF_vars(SweepPutsBack)
    /\ \A w \in Workers : /\ WF_vars(WorkerStep(w))
                          /\ SF_vars(HoldAmbiguousDispatch(w))
                          /\ SF_vars(FailBeforeDispatch(w))

FairSpec == Spec /\ Fairness

\* A claim a crash left behind never strands its letter: it is taken again, held or failed.
ClaimsSettle == \A l \in Letters : job[l].status = "processing" ~> job[l].status # "processing"

\* A queued letter is printed, ends or is held, unless it is left for the operator.
QueuedMailMoves ==
    \A l \in Letters : letter[l] = "queued" ~>
        letter[l] \in {"accepted", "failed", "cancelled", "held"} \/ LeftForOperator(l)

\* Neither a claim nor a queue is a place where a letter stays (claimJob, the stale sweeps).
MailMoves == ClaimsSettle /\ QueuedMailMoves

-----------------------------------------------------------------------------
(* What a doc or a comment of the code says and the code does not keep. *)

\* letterJobService.ts:938, "the dispatch this result belongs to": a worker's definite
\* rejection may settle only the dispatch of its own claim.
RejectionSettlesItsOwnDispatch ==
    [][\A w \in Workers :
         worker[w].pc = "rejected" /\ job' # job /\ worker'[w] # worker[w]
            => job[worker[w].l].attempts = worker[w].attempts]_vars

\* letterJobService.ts:791, "Letter statuses past which nothing changes": a cancelled
\* letter, whose payment has gone back, stays cancelled.  A late hold breaks it: README.
CancelledIsFinal ==
    [][\A l \in Letters : letter[l] = "cancelled" => letter'[l] = "cancelled"]_vars

\* docs/manual-tests.md:4004, "provider acceptance changes the JIT order to fulfilled":
\* no accepted letter leaves its order held.  A late acceptance does: README.
AcceptanceFulfilsOrder ==
    \A l \in JitLetters : letter[l] = "accepted" => order[l].status # "held"

\* docs/letter-send-flow.md:564, a pack refunded in full holds its mail not yet printed:
\* whoever learns of the refund, such mail goes only after an operator released it.
FullRefundHoldsMail ==
    [][\A l \in Letters \ JitLetters :
         BecomesDispatched(l) /\ Revoked(Pack[l]) => l \in released]_vars

\* creditLedgerService.ts:839, "A revoked lot was already paid back in cash": a letter
\* that ended with nothing re-issued had its pack's money returned.
UnreturnedWasPaidBack ==
    \A l \in Letters \ JitLetters :
        letter[l] \in {"failed", "cancelled"} /\ l \notin returned
            => pack[Pack[l]] \in {"refunded", "swept", "disputed"}

=============================================================================
