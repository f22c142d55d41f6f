-------------------------- MODULE MailOutboxProofs --------------------------
(***************************************************************************)
(* What TLAPS proves of MailOutbox, for any number of letters, packs,      *)
(* accounts and workers and any attempt limit.  Without an assumption on   *)
(* the operator: its types, and that no pending job is out of every        *)
(* claim's reach.  For an operator who decides only once the call has      *)
(* ended (OperatorWaits): at most one call per letter, that the rows of a  *)
(* letter tell one story, that it is mailed or made good and never both,   *)
(* that only owed mail free of its pack's reversal is handed over, and     *)
(* that the outbox implements MailFate.                                    *)
(***************************************************************************)
EXTENDS MailOutbox, TLAPS

-----------------------------------------------------------------------------
(* Typing of the helpers the actions are built from. *)

WorkersOK == /\ worker \in [Workers -> WorkerState]
             /\ \A w \in Workers : worker[w].pc # "idle" => worker[w].l \in Letters

\* Finish leaves every worker well typed.
LEMMA FinishTyped ==
    ASSUME WorkersOK, NEW w \in Workers, Finish(w) PROVE WorkersOK'
BY OutboxAssumption DEF WorkersOK, Finish, IdleWorker, WorkerState, WorkerPc

\* Goto does, for a worker that has a letter.
LEMMA GotoTyped ==
    ASSUME WorkersOK, NEW w \in Workers, worker[w].pc # "idle", NEW pc \in WorkerPc, Goto(w, pc)
    PROVE  WorkersOK'
BY OutboxAssumption DEF WorkersOK, Goto, WorkerState, WorkerPc

\* So does taking up a letter.
LEMMA TakesUpTyped ==
    ASSUME WorkersOK, NEW w \in Workers, NEW l \in Letters, NEW pc \in WorkerPc,
           NEW n \in 0..AttemptBound, NEW r \in BOOLEAN,
           worker' = [worker EXCEPT ![w] = [pc |-> pc, l |-> l, attempts |-> n, retryable |-> r]]
    PROVE  WorkersOK'
BY OutboxAssumption DEF WorkersOK, WorkerState, WorkerPc

\* A worker with a letter in hand has one of the instance's.
LEMMA HasLetter ==
    ASSUME TypeOK, NEW w \in Workers, worker[w].pc # "idle" PROVE worker[w].l \in Letters
BY DEF TypeOK

\* MoveOrder writes an order status.
LEMMA MoveOrderTyped ==
    ASSUME order \in [JitLetters -> OrderRow], NEW l, NEW from, NEW to \in OrderStatus,
           MoveOrder(l, from, to)
    PROVE  order' \in [JitLetters -> OrderRow]
BY DEF MoveOrder, OrderRow

\* ReturnPrepaid returns letters of the instance only.
LEMMA ReturnPrepaidTyped ==
    ASSUME returned \subseteq Letters, NEW l \in Letters, ReturnPrepaid(l)
    PROVE  returned' \subseteq Letters
BY DEF ReturnPrepaid

\* The put-back gives back at most the attempt it takes from the count.
LEMMA PutBackRowTyped == ASSUME NEW row \in JobRow PROVE PutBackRow(row) \in JobRow
<1> DEFINE n == IF row.attempts = 0 THEN 0 ELSE row.attempts - 1
<1>1. n \in 0..AttemptBound
  BY OutboxAssumption DEF JobRow
<1> HIDE DEF n
<1>2. [row EXCEPT !.status = "pending", !.stale = FALSE, !.attempts = n] \in JobRow
  BY <1>1, Zenon DEF JobRow, JobStatus
<1> QED BY <1>2 DEF PutBackRow, n

\* A settled job, and a held one.
LEMMA SettledRowTyped ==
    ASSUME NEW row \in JobRow, NEW s \in JobStatus, NEW o \in Outcome, NEW h \in HoldReason
    PROVE  /\ [row EXCEPT !.status = s, !.outcome = o, !.stale = FALSE] \in JobRow
           /\ [row EXCEPT !.status = s, !.outcome = o, !.hold = h, !.stale = FALSE] \in JobRow
BY Zenon DEF JobRow

\* A failed job that is due again.
LEMMA FailedRowTyped ==
    ASSUME NEW row \in JobRow, NEW s \in JobStatus, NEW o \in Outcome
    PROVE  [row EXCEPT !.status = s, !.outcome = o, !.stale = FALSE, !.due = TRUE] \in JobRow
BY Zenon DEF JobRow

\* One that ended before any dispatch.
LEMMA EndedRowTyped ==
    ASSUME NEW row \in JobRow, NEW s \in JobStatus
    PROVE  [row EXCEPT !.status = s, !.due = FALSE, !.stale = FALSE] \in JobRow
BY Zenon DEF JobRow

\* A claimed one.
LEMMA ClaimedRowTyped ==
    ASSUME NEW row \in JobRow, NEW s \in JobStatus, NEW n \in 0..AttemptBound
    PROVE  [row EXCEPT !.status = s, !.attempts = n, !.stale = FALSE] \in JobRow
BY Zenon DEF JobRow

\* A marked one.
LEMMA DispatchedRowTyped ==
    ASSUME NEW row \in JobRow, NEW o \in Outcome PROVE [row EXCEPT !.outcome = o] \in JobRow
BY DEF JobRow

\* StopFundedMail keeps both rows well typed.
LEMMA StopFundedMailTyped ==
    ASSUME job \in [Letters -> JobRow], letter \in [Letters -> LetterStatus],
           NEW l \in Letters, StopFundedMail(l)
    PROVE  job' \in [Letters -> JobRow] /\ letter' \in [Letters -> LetterStatus]
<1>1. letter' \in [Letters -> LetterStatus]
  BY DEF StopFundedMail, LetterStatus
<1>2. job' \in [Letters -> JobRow]
  BY DEF StopFundedMail, JobRow, JobStatus, Outcome, HoldReason
<1> QED BY <1>1, <1>2

\* HoldMailFundedBy keeps the jobs well typed and forgets releases only.
LEMMA HoldMailTyped ==
    ASSUME job \in [Letters -> JobRow], released \subseteq Letters, NEW p, HoldMailFundedBy(p)
    PROVE  job' \in [Letters -> JobRow] /\ released' \subseteq Letters
BY DEF HoldMailFundedBy, JobRow, HoldReason

RowsOK == /\ letter \in [Letters -> LetterStatus]
          /\ job \in [Letters -> JobRow]
          /\ order \in [JitLetters -> OrderRow]
          /\ pack \in [Packs -> PackState]
          /\ returned \subseteq Letters /\ released \subseteq Letters /\ piece \subseteq Letters

\* TypeOK is the types of the rows and the types of the workers.
LEMMA TypeParts == TypeOK <=> RowsOK /\ WorkersOK
BY DEF TypeOK, RowsOK, WorkersOK

\* And so it is after a step.
LEMMA TypePartsNext == TypeOK' <=> RowsOK' /\ WorkersOK'
BY DEF TypeOK, RowsOK, WorkersOK

-----------------------------------------------------------------------------
(* Type correctness. *)

\* Nothing is sent yet, and every worker is idle.
LEMMA InitTyped == Init => TypeOK
BY OutboxAssumption
   DEF Init, TypeOK, LetterStatus, JobRow, JobStatus, Outcome, HoldReason, NoJob, OrderRow,
       OrderStatus, PackState, WorkerState, WorkerPc, IdleWorker

\* A worker's step, or its death.
LEMMA WorkerStepTyped ==
    ASSUME TypeOK, NEW w \in Workers, WorkerStep(w) \/ Crash(w) PROVE TypeOK'
<1> DEFINE l == worker[w].l
<1>0. RowsOK /\ WorkersOK BY TypeParts
<1> SUFFICES RowsOK' /\ WorkersOK' BY TypePartsNext
<1> USE DEF RowsOK
<1>1. CASE ProviderUnavailable(w) \/ MarkRefused(w)
  <2>1. WorkersOK'
    BY <1>0, <1>1, GotoTyped DEF ProviderUnavailable, MarkRefused, WorkerPc
  <2> QED BY <1>0, <1>1, <2>1 DEF ProviderUnavailable, MarkRefused
<1>2. CASE MarkPutsBack(w)
  <2>1. WorkersOK' /\ l \in Letters
    BY <1>0, <1>2, FinishTyped, HasLetter DEF MarkPutsBack
  <2>2. job' \in [Letters -> JobRow]
    BY <1>0, <1>2, <2>1, PutBackRowTyped DEF MarkPutsBack, PutBack
  <2> QED BY <1>0, <1>2, <2>1, <2>2 DEF MarkPutsBack
<1>3. CASE MarkProviderDispatch(w)
  <2>1. WorkersOK'
    BY <1>0, <1>3, GotoTyped DEF MarkProviderDispatch, WorkerPc
  <2>4. [job[l] EXCEPT !.outcome = "dispatching"] \in JobRow
    BY <1>0, <1>3, HasLetter, DispatchedRowTyped, Zenon DEF MarkProviderDispatch, Outcome
  <2>2. job' \in [Letters -> JobRow]
    BY <1>0, <1>3, <2>4, Zenon DEF MarkProviderDispatch
  <2>3. letter' \in [Letters -> LetterStatus]
    BY <1>0, <1>3, Zenon DEF MarkProviderDispatch, LetterStatus
  <2> QED BY <1>0, <1>3, <2>1, <2>2, <2>3 DEF MarkProviderDispatch
<1>4. CASE ProviderAnswers(w)
  <2>1. WorkersOK' /\ l \in Letters
    BY <1>0, <1>4, GotoTyped, HasLetter DEF ProviderAnswers, WorkerPc
  <2>2. piece' \subseteq Letters
    BY <1>0, <1>4, <2>1 DEF ProviderAnswers
  <2> QED BY <1>0, <1>4, <2>1, <2>2 DEF ProviderAnswers
<1>5. CASE CompleteJob(w)
  <2>1. WorkersOK' /\ l \in Letters
    BY <1>0, <1>5, FinishTyped, GotoTyped, HasLetter DEF CompleteJob, WorkerPc
  <2>2. order' \in [JitLetters -> OrderRow]
    BY <1>0, <1>5, MoveOrderTyped DEF CompleteJob, OrderStatus
  <2>3. letter' \in [Letters -> LetterStatus]
    BY <1>0, <1>5 DEF CompleteJob, LetterStatus
  <2>4. [job[l] EXCEPT !.status = "completed", !.outcome = "accepted", !.stale = FALSE] \in JobRow
    BY <1>0, <2>1, SettledRowTyped, Zenon DEF JobStatus, Outcome, HoldReason
  <2>5. job' \in [Letters -> JobRow]
    BY <1>0, <1>5, <2>4, Zenon DEF CompleteJob
  <2> QED BY <1>0, <1>5, <2>1, <2>2, <2>3, <2>5 DEF CompleteJob
<1>6. CASE SettleFails(w)
  <2>1. WorkersOK'
    BY <1>0, <1>6, GotoTyped DEF SettleFails, WorkerPc
  <2> QED BY <1>0, <1>6, <2>1 DEF SettleFails
<1>7. CASE RecoverAcceptance(w)
  <2>1. WorkersOK'
    BY <1>0, <1>7, FinishTyped, GotoTyped DEF RecoverAcceptance, WorkerPc
  <2> QED BY <1>0, <1>7, <2>1 DEF RecoverAcceptance
<1>8. CASE HoldAmbiguousDispatch(w)
  <2>1. WorkersOK' /\ l \in Letters
    BY <1>0, <1>8, FinishTyped, HasLetter DEF HoldAmbiguousDispatch
  <2>2. order' \in [JitLetters -> OrderRow]
    BY <1>0, <1>8, MoveOrderTyped DEF HoldAmbiguousDispatch, OrderStatus
  <2>3. letter' \in [Letters -> LetterStatus]
    BY <1>0, <1>8, Zenon DEF HoldAmbiguousDispatch, LetterStatus
  <2>4. [job[l] EXCEPT !.status = "held", !.outcome = "ambiguous",
                       !.hold = "provider_outcome_ambiguous", !.stale = FALSE] \in JobRow
    BY <1>0, <2>1, SettledRowTyped, Zenon DEF JobStatus, Outcome, HoldReason
  <2>5. job' \in [Letters -> JobRow]
    BY <1>0, <1>8, <2>4, Zenon DEF HoldAmbiguousDispatch
  <2> QED BY <1>0, <1>8, <2>1, <2>2, <2>3, <2>5, Zenon DEF HoldAmbiguousDispatch
<1>9. CASE FailOrRescheduleJob(w)
  <2>1. WorkersOK' /\ l \in Letters
    BY <1>0, <1>9, FinishTyped, HasLetter DEF FailOrRescheduleJob
  <2>2. order' \in [JitLetters -> OrderRow]
    BY <1>0, <1>9, MoveOrderTyped DEF FailOrRescheduleJob, OrderStatus
  <2>6. [job[l] EXCEPT !.status = "failed", !.outcome = "definite_failure", !.stale = FALSE, !.due = TRUE] \in JobRow
    BY <1>0, <2>1, FailedRowTyped, Zenon DEF JobStatus, Outcome
  <2>3. job' \in [Letters -> JobRow]
    <3>1. \/ job' = job
          \/ job' = [job EXCEPT ![l] = [job[l] EXCEPT !.status = "failed",
                       !.outcome = "definite_failure", !.stale = FALSE, !.due = TRUE]]
      BY <1>9, Zenon DEF FailOrRescheduleJob
    <3> QED BY <1>0, <2>6, <3>1
  <2>5. letter' \in [Letters -> LetterStatus]
    BY <1>0, <1>9 DEF FailOrRescheduleJob, LetterStatus
  <2>4. returned' \subseteq Letters
    BY <1>0, <1>9, <2>1, ReturnPrepaidTyped DEF FailOrRescheduleJob
  <2> QED BY <1>0, <1>9, <2>1, <2>2, <2>3, <2>4, <2>5 DEF FailOrRescheduleJob
<1>10. CASE FailBeforeDispatch(w)
  <2>1. WorkersOK' /\ l \in Letters
    BY <1>0, <1>10, FinishTyped, HasLetter DEF FailBeforeDispatch
  <2>2. order' \in [JitLetters -> OrderRow]
    BY <1>0, <1>10, MoveOrderTyped DEF FailBeforeDispatch, OrderStatus
  <2>3. letter' \in [Letters -> LetterStatus]
    BY <1>0, <1>10 DEF FailBeforeDispatch, LetterStatus
  <2>4. returned' \subseteq Letters
    BY <1>0, <1>10, <2>1, ReturnPrepaidTyped DEF FailBeforeDispatch
  <2>5. job' \in [Letters -> JobRow]
    <3>1. CASE PutBack(l)
      BY <1>0, <2>1, <3>1, PutBackRowTyped DEF PutBack
    <3>2. CASE ~PutBack(l)
      <4>1. PICK s \in {"pending", "failed"} :
              \/ job' = job
              \/ job' = [job EXCEPT ![l] = [@ EXCEPT !.status = s, !.due = FALSE, !.stale = FALSE]]
        BY <1>10, <3>2, Zenon DEF FailBeforeDispatch
      <4>2. [job[l] EXCEPT !.status = s, !.due = FALSE, !.stale = FALSE] \in JobRow
        BY <1>0, <2>1, EndedRowTyped, Zenon DEF JobStatus
      <4> QED BY <1>0, <4>1, <4>2
    <3> QED BY <3>1, <3>2
  <2> QED BY <1>0, <1>10, <2>1, <2>2, <2>3, <2>4, <2>5, Zenon DEF FailBeforeDispatch
<1>11. CASE Crash(w)
  BY <1>0, <1>11, FinishTyped DEF Crash
<1> QED BY <1>1, <1>2, <1>3, <1>4, <1>5, <1>6, <1>7, <1>8, <1>9, <1>10, <1>11 DEF WorkerStep

\* A claim, or a job taken from a sweep's list.
LEMMA TakesUpStepTyped ==
    ASSUME TypeOK, NEW w \in Workers, NEW l \in Letters, ClaimJob(w, l) \/ Sweep(w, l)
    PROVE  TypeOK'
<1>0. RowsOK /\ WorkersOK BY TypeParts
<1> SUFFICES RowsOK' /\ WorkersOK' BY TypePartsNext
<1> USE DEF RowsOK
<1>1. job[l].attempts \in 0..AttemptBound /\ job[l].max \in 0..AttemptBound
  BY <1>0, OutboxAssumption DEF JobRow
<1>2. CASE ClaimJob(w, l)
  <2> DEFINE n == job[l].attempts + 1
             r == n < job[l].max
  <2>1. n \in 0..AttemptBound /\ r \in BOOLEAN
    BY <1>1, <1>2, OutboxAssumption DEF ClaimJob, Claimable
  <2>2. worker' = [worker EXCEPT ![w] = [pc |-> "claimed", l |-> l, attempts |-> n, retryable |-> r]]
    BY <1>2 DEF ClaimJob
  <2>3. job' = [job EXCEPT ![l] = [@ EXCEPT !.status = "processing", !.attempts = n, !.stale = FALSE]]
    BY <1>2, Zenon DEF ClaimJob
  <2> HIDE DEF n, r
  <2>4. WorkersOK'
    BY <1>0, <2>1, <2>2, TakesUpTyped, Zenon DEF WorkerPc
  <2>5. [job[l] EXCEPT !.status = "processing", !.attempts = n, !.stale = FALSE] \in JobRow
    BY <1>0, <2>1, ClaimedRowTyped, Zenon DEF JobStatus
  <2>6. job' \in [Letters -> JobRow]
    BY <1>0, <2>3, <2>5
  <2> QED BY <1>0, <1>2, <2>4, <2>6 DEF ClaimJob
<1>3. CASE Sweep(w, l)
  <2> DEFINE r == job[l].attempts < job[l].max
  <2>1. r \in BOOLEAN
    OBVIOUS
  <2>2. PICK pc \in {"holding", "prefail"} :
            worker' = [worker EXCEPT ![w] = [pc |-> pc, l |-> l, attempts |-> job[l].attempts,
                                             retryable |-> r]]
    BY <1>3 DEF Sweep, SweepStaleDispatched, SweepStaleUndispatched, Working
  <2> HIDE DEF r
  <2>3. WorkersOK'
    BY <1>0, <1>1, <2>1, <2>2, TakesUpTyped, Zenon DEF WorkerPc
  <2> QED BY <1>0, <1>3, <2>3 DEF Sweep, SweepStaleDispatched, SweepStaleUndispatched
<1> QED BY <1>2, <1>3

\* The statement that puts every stale claim left for the operator back.
LEMMA SweepPutsBackTyped == ASSUME TypeOK, SweepPutsBack PROVE TypeOK'
<1> USE DEF RowsOK
<1>0. RowsOK /\ WorkersOK BY TypeParts
<1> SUFFICES RowsOK' /\ WorkersOK' BY TypePartsNext
<1>1. \A l \in Letters : PutBackRow(job[l]) \in JobRow
  BY <1>0, PutBackRowTyped
<1> QED BY <1>0, <1>1 DEF SweepPutsBack, WorkersOK

\* What touches one letter: its send, the clock, the operator, its customer.
LEMMA LetterStepTyped ==
    ASSUME TypeOK, NEW l \in Letters,
           \/ \E dated \in BOOLEAN : Send(l, dated)
           \/ BecomesDue(l) \/ LockAges(l) \/ OperatorStep(l) \/ CancelScheduledMail(l)
    PROVE  TypeOK'
<1> USE DEF RowsOK
<1>0. RowsOK /\ WorkersOK BY TypeParts
<1> SUFFICES RowsOK' /\ WorkersOK' BY TypePartsNext
<1>1. job[l] \in JobRow BY <1>0
<1>2. CASE \E dated \in BOOLEAN : Send(l, dated)
  <2>1. PICK dated \in BOOLEAN : Send(l, dated)
    BY <1>2
  <2>2. order' \in [JitLetters -> OrderRow]
    BY <1>0, <2>1, MoveOrderTyped, Zenon DEF Send, OrderStatus
  <2>3. ASSUME NEW due \in BOOLEAN
        PROVE  [NoJob EXCEPT !.status = "pending", !.dated = dated, !.due = due] \in JobRow
    <3>1. NoJob \in JobRow
      BY OutboxAssumption DEF NoJob, JobRow, JobStatus, Outcome, HoldReason
    <3> QED BY <3>1, Zenon DEF JobRow, JobStatus
  <2>4. letter' \in [Letters -> LetterStatus] /\ job' \in [Letters -> JobRow]
    BY <1>0, <2>1, <2>3, Zenon DEF Send, LetterStatus
  <2> QED BY <1>0, <2>1, <2>2, <2>4, Zenon DEF Send, WorkersOK
<1>3. CASE BecomesDue(l)
  BY <1>0, <1>3, Zenon DEF BecomesDue, JobRow, WorkersOK
<1>4. CASE LockAges(l)
  BY <1>0, <1>4, Zenon DEF LockAges, JobRow, WorkersOK
<1>5. CASE ResolveAccepted(l)
  <2>1. order' \in [JitLetters -> OrderRow]
    BY <1>0, <1>5, MoveOrderTyped DEF ResolveAccepted, OrderStatus
  <2>2. [job[l] EXCEPT !.status = "completed", !.outcome = "accepted",
                       !.resolved = TRUE, !.hold = "none"] \in JobRow
    BY <1>1, Zenon DEF JobRow, JobStatus, Outcome, HoldReason
  <2>3. letter' \in [Letters -> LetterStatus] /\ job' \in [Letters -> JobRow]
    BY <1>0, <1>5, <2>2 DEF ResolveAccepted, LetterStatus
  <2> QED BY <1>0, <1>5, <2>1, <2>3 DEF ResolveAccepted, WorkersOK
<1>6. CASE ResolveRetry(l) \/ RetryLetterJob(l)
  <2>1. order' \in [JitLetters -> OrderRow]
    BY <1>0, <1>6, MoveOrderTyped DEF ResolveRetry, RetryLetterJob, OrderStatus
  <2>2. OneMore(l) \in MaxAttempts..AttemptBound
    BY <1>1, <1>6, OutboxAssumption DEF ResolveRetry, RetryLetterJob, OneMore, JobRow
  <2>3. letter' \in [Letters -> LetterStatus]
    BY <1>0, <1>6 DEF ResolveRetry, RetryLetterJob, LetterStatus
  <2>4. job' \in [Letters -> JobRow]
    BY <1>0, <1>6, <2>2 DEF ResolveRetry, RetryLetterJob, JobRow, JobStatus, Outcome, HoldReason
  <2> QED BY <1>0, <1>6, <2>1, <2>3, <2>4 DEF ResolveRetry, RetryLetterJob, WorkersOK
<1>7. CASE ResolveRejected(l)
  <2>1. order' \in [JitLetters -> OrderRow] /\ returned' \subseteq Letters
    BY <1>0, <1>7, MoveOrderTyped, ReturnPrepaidTyped DEF ResolveRejected, OrderStatus
  <2>2. job[l].max \in 0..AttemptBound
    BY <1>1, OutboxAssumption DEF JobRow
  <2>3. [job[l] EXCEPT !.status = "failed", !.outcome = "definite_failure",
                       !.attempts = job[l].max, !.resolved = TRUE, !.hold = "none"] \in JobRow
    BY <1>1, <2>2, Zenon DEF JobRow, JobStatus, Outcome, HoldReason
  <2>4. letter' \in [Letters -> LetterStatus] /\ job' \in [Letters -> JobRow]
    BY <1>0, <1>7, <2>3 DEF ResolveRejected, LetterStatus
  <2> QED BY <1>0, <1>7, <2>1, <2>4 DEF ResolveRejected, WorkersOK
<1>8. CASE ReleaseHeldLetterJob(l)
  <2> DEFINE due == job[l].due \/ ~(job[l].hold = "funding")
  <2>1. due \in BOOLEAN
    BY <1>1 DEF JobRow
  <2>2. job' = [job EXCEPT ![l] = [@ EXCEPT !.due = due, !.hold = "none"]]
    BY <1>8, Zenon DEF ReleaseHeldLetterJob
  <2> HIDE DEF due
  <2>3. [job[l] EXCEPT !.due = due, !.hold = "none"] \in JobRow
    BY <1>1, <2>1, Zenon DEF JobRow, HoldReason
  <2>4. job' \in [Letters -> JobRow]
    BY <1>0, <2>2, <2>3
  <2>5. released' \subseteq Letters
    BY <1>0, <1>8 DEF ReleaseHeldLetterJob
  <2> QED BY <1>0, <1>8, <2>4, <2>5 DEF ReleaseHeldLetterJob, WorkersOK
<1>9. CASE CancelLeftLetterJob(l) \/ CancelScheduledMail(l)
  <2>1. returned' \subseteq Letters
    BY <1>0, <1>9, ReturnPrepaidTyped DEF CancelLeftLetterJob, CancelScheduledMail, CancelPending
  <2>2. letter' \in [Letters -> LetterStatus]
    BY <1>0, <1>9 DEF CancelLeftLetterJob, CancelScheduledMail, CancelPending, LetterStatus
  <2>3. job' \in [Letters -> JobRow]
    BY <1>0, <1>9 DEF CancelLeftLetterJob, CancelScheduledMail, JobRow, JobStatus
  <2> QED BY <1>0, <1>9, <2>1, <2>2, <2>3
          DEF CancelLeftLetterJob, CancelScheduledMail, CancelPending, WorkersOK
<1> QED BY <1>2, <1>3, <1>4, <1>5, <1>6, <1>7, <1>8, <1>9 DEF OperatorStep

\* Stripe's events and the refund sweep, of a Pay & Send order.
LEMMA JitMoneyTyped ==
    ASSUME TypeOK, NEW l \in JitLetters, JitMoney(l) PROVE TypeOK'
<1> USE DEF RowsOK
<1>0. RowsOK /\ WorkersOK /\ l \in Letters BY TypeParts, OutboxAssumption
<1> SUFFICES RowsOK' /\ WorkersOK' BY TypePartsNext
<1>1. CASE \E s \in {"refund_pending", "refunded"} : JitRefundEvent(l, s)
  <2>1. PICK s \in {"refund_pending", "refunded"} : JitRefundEvent(l, s)
    BY <1>1
  <2>2. [order[l] EXCEPT !.status = s, !.refunding = TRUE] \in OrderRow
    BY <1>0, Zenon DEF OrderRow, OrderStatus
  <2>3. order' \in [JitLetters -> OrderRow]
    BY <1>0, <2>1, <2>2 DEF JitRefundEvent
  <2> QED BY <1>0, <2>1, <2>3, StopFundedMailTyped DEF JitRefundEvent, WorkersOK
<1>2. CASE \E loss \in BOOLEAN : JitDisputeEvent(l, loss)
  <2>1. PICK loss \in BOOLEAN : JitDisputeEvent(l, loss)
    BY <1>2
  <2>2. [order[l] EXCEPT !.status = "disputed", !.loss = loss] \in OrderRow
    BY <1>0, Zenon DEF OrderRow, OrderStatus
  <2>3. order' = [order EXCEPT ![l] = [@ EXCEPT !.status = "disputed", !.loss = loss]]
    BY <2>1 DEF JitDisputeEvent
  <2>4. order' \in [JitLetters -> OrderRow]
    BY <1>0, <2>2, <2>3
  <2> QED BY <1>0, <2>1, <2>4, StopFundedMailTyped DEF JitDisputeEvent, WorkersOK
<1>3. CASE JitDisputeWon(l)
  <2>1. [order[l] EXCEPT !.status = "disputed", !.loss = FALSE] \in OrderRow
    BY <1>0, Zenon DEF OrderRow, OrderStatus
  <2>2. order' \in [JitLetters -> OrderRow]
    BY <1>0, <1>3, <2>1 DEF JitDisputeWon
  <2> QED BY <1>0, <1>3, <2>2, StopFundedMailTyped DEF JitDisputeWon, WorkersOK
<1>4. CASE ClaimRefund(l) \/ FinalizeRefund(l)
  <2>1. order' \in [JitLetters -> OrderRow]
    <3>1. CASE ClaimRefund(l)
      BY <1>0, <3>1, Zenon DEF ClaimRefund, OrderRow
    <3>2. CASE FinalizeRefund(l)
      BY <1>0, <3>2 DEF FinalizeRefund, OrderRow, OrderStatus
    <3> QED BY <1>4, <3>1, <3>2
  <2> QED BY <1>0, <1>4, <2>1 DEF ClaimRefund, FinalizeRefund, WorkersOK
<1> QED BY <1>1, <1>2, <1>3, <1>4 DEF JitMoney

\* The same, of a pack.
LEMMA PackMoneyTyped == ASSUME TypeOK, NEW p \in Packs, PackMoney(p) PROVE TypeOK'
<1> USE DEF RowsOK
<1>0. RowsOK /\ WorkersOK BY TypeParts
<1> SUFFICES RowsOK' /\ WorkersOK' BY TypePartsNext
<1>1. pack' \in [Packs -> PackState]
  BY <1>0 DEF PackMoney, PackRefundPending, PackRefundEvent, PackRefundFoundBySweep,
              PackDisputeLoss, PackDisputeWon, PackState
<1>2. job' \in [Letters -> JobRow] /\ released' \subseteq Letters
  BY <1>0, HoldMailTyped DEF PackMoney, PackRefundPending, PackRefundEvent,
              PackRefundFoundBySweep, PackDisputeLoss, PackDisputeWon
<1> QED BY <1>0, <1>1, <1>2 DEF PackMoney, PackRefundPending, PackRefundEvent,
              PackRefundFoundBySweep, PackDisputeLoss, PackDisputeWon, WorkersOK

\* Every step keeps the types: a worker, the sweeps, the operator, the customer, Stripe.
LEMMA StepTyped == TypeOK /\ [Next]_vars => TypeOK'
<1> SUFFICES ASSUME TypeOK, [Next]_vars PROVE TypeOK'
  OBVIOUS
<1>1. CASE UNCHANGED vars
  BY <1>1 DEF vars, TypeOK
<1>2. CASE Next
  BY <1>2, WorkerStepTyped, TakesUpStepTyped, SweepPutsBackTyped, LetterStepTyped,
     JitMoneyTyped, PackMoneyTyped DEF Next
<1> QED BY <1>1, <1>2

\* Every row and every worker keep the types of the schema, whatever the schedule.
THEOREM TypeCorrect == Spec => []TypeOK
BY InitTyped, StepTyped, PTL DEF Spec

-----------------------------------------------------------------------------
(* No pending job is out of every claim's reach.  The invariant PendingIsClaimable *)
(* is not inductive: it needs that a claim leaves at least one attempt to give     *)
(* back, and that what a worker remembers of its attempts never becomes too hopeful. *)

AttemptsKept ==
    \A l \in Letters : job[l].status = "processing"
                          => 1 <= job[l].attempts /\ job[l].attempts <= job[l].max

RetryableIsTrue ==
    \A w \in Workers : worker[w].pc # "idle" /\ worker[w].retryable
                         => worker[w].attempts < job[worker[w].l].max

ClaimInv == PendingIsClaimable /\ AttemptsKept /\ RetryableIsTrue

\* A step that spends and gives back no attempt, opens no job, and takes up no letter.
QuietJobs ==
    \A l \in Letters :
        /\ job'[l].attempts = job[l].attempts
        /\ job'[l].max = job[l].max
        /\ job'[l].status \in {"pending", "processing"} => job'[l].status = job[l].status

QuietWorkers ==
    \A w \in Workers :
        \/ worker'[w].pc = "idle"
        \/ /\ worker[w].pc # "idle"
           /\ worker'[w].l = worker[w].l
           /\ worker'[w].attempts = worker[w].attempts
           /\ worker'[w].retryable = worker[w].retryable

\* Such a step keeps the invariant.
LEMMA QuietStepKeepsClaims ==
    ASSUME TypeOK, ClaimInv, QuietJobs, QuietWorkers PROVE ClaimInv'
<1>1. ASSUME NEW l \in Letters
      PROVE  /\ job'[l].status = "pending" => job'[l].attempts < job'[l].max
             /\ job'[l].status = "processing"
                  => 1 <= job'[l].attempts /\ job'[l].attempts <= job'[l].max
  <2>1. /\ job'[l].attempts = job[l].attempts /\ job'[l].max = job[l].max
        /\ job'[l].status \in {"pending", "processing"} => job'[l].status = job[l].status
    BY DEF QuietJobs
  <2> QED BY <2>1 DEF ClaimInv, PendingIsClaimable, AttemptsKept
<1>2. ASSUME NEW w \in Workers, worker'[w].pc # "idle", worker'[w].retryable
      PROVE  worker'[w].attempts < job'[worker'[w].l].max
  <2>1. /\ worker[w].pc # "idle" /\ worker[w].retryable
        /\ worker'[w].l = worker[w].l /\ worker'[w].attempts = worker[w].attempts
    BY <1>2 DEF QuietWorkers
  <2>2. worker[w].l \in Letters
    BY <2>1, HasLetter
  <2>3. worker[w].attempts < job[worker[w].l].max
    BY <2>1 DEF ClaimInv, RetryableIsTrue
  <2>4. job'[worker[w].l].max = job[worker[w].l].max
    BY <2>2 DEF QuietJobs
  <2> QED BY <2>1, <2>3, <2>4
<1> QED BY <1>1, <1>2 DEF ClaimInv, PendingIsClaimable, AttemptsKept, RetryableIsTrue

\* An update of one job's row is quiet if the row's change is.
LEMMA QuietUpdate ==
    ASSUME TypeOK, NEW l \in Letters, NEW row, job' = [job EXCEPT ![l] = row],
           row.attempts = job[l].attempts, row.max = job[l].max,
           row.status \in {"pending", "processing"} => row.status = job[l].status
    PROVE  QuietJobs
BY DEF QuietJobs, TypeOK

\* Finish and Goto take up no letter.
LEMMA QuietMoves ==
    ASSUME TypeOK, NEW w \in Workers, worker[w].pc # "idle",
           Finish(w) \/ \E pc \in WorkerPc : Goto(w, pc)
    PROVE  QuietWorkers
<1> SUFFICES ASSUME NEW v \in Workers, worker'[v].pc # "idle"
             PROVE  /\ worker[v].pc # "idle"
                    /\ worker'[v].l = worker[v].l
                    /\ worker'[v].attempts = worker[v].attempts
                    /\ worker'[v].retryable = worker[v].retryable
  BY DEF QuietWorkers
<1>1. CASE v # w
  <2>1. worker'[v] = worker[v]
    BY <1>1 DEF TypeOK, Finish, Goto
  <2> QED BY <2>1
<1>2. CASE v = w /\ Finish(w)
  BY <1>2 DEF TypeOK, Finish, IdleWorker
<1>3. CASE v = w /\ \E pc \in WorkerPc : Goto(w, pc)
  <2>1. PICK pc \in WorkerPc : worker'[v] = [worker[v] EXCEPT !.pc = pc]
    BY <1>3 DEF TypeOK, Goto
  <2>2. worker[v] \in WorkerState
    BY DEF TypeOK
  <2> QED BY <1>2, <1>3, <2>1, <2>2 DEF WorkerState
<1> QED BY <1>1, <1>2, <1>3

\* The steps of a worker that neither put back nor reschedule are quiet.
LEMMA QuietWorkerSteps ==
    ASSUME TypeOK, NEW w \in Workers,
           \/ ProviderUnavailable(w) \/ MarkRefused(w) \/ MarkProviderDispatch(w)
           \/ ProviderAnswers(w) \/ CompleteJob(w) \/ SettleFails(w) \/ RecoverAcceptance(w)
           \/ HoldAmbiguousDispatch(w) \/ FailOrRescheduleJob(w) \/ Crash(w)
    PROVE  QuietJobs /\ QuietWorkers
<1> DEFINE l == worker[w].l
<1>1. QuietWorkers
  BY QuietMoves, Zenon DEF ProviderUnavailable, MarkRefused, MarkProviderDispatch, ProviderAnswers,
     CompleteJob, SettleFails, RecoverAcceptance, HoldAmbiguousDispatch, FailOrRescheduleJob,
     Crash, WorkerPc
<1>2. l \in Letters /\ job[l] \in JobRow
  BY HasLetter, Zenon DEF TypeOK, ProviderUnavailable, MarkRefused, MarkProviderDispatch, ProviderAnswers,
     CompleteJob, SettleFails, RecoverAcceptance, HoldAmbiguousDispatch, FailOrRescheduleJob, Crash
<1>3. CASE MarkProviderDispatch(w)
  <2>1. job' = [job EXCEPT ![l] = [job[l] EXCEPT !.outcome = "dispatching"]]
    BY <1>3 DEF MarkProviderDispatch
  <2> QED BY <1>1, <1>2, <2>1, QuietUpdate, Zenon DEF JobRow
<1>4. CASE job' = job
  BY <1>1, <1>4 DEF QuietJobs
<1>5. CASE CompleteJob(w) /\ job' # job
  <2>1. job' = [job EXCEPT ![l] = [job[l] EXCEPT !.status = "completed", !.outcome = "accepted",
                                                 !.stale = FALSE]]
    BY <1>5, Zenon DEF CompleteJob
  <2> QED BY <1>1, <1>2, <2>1, QuietUpdate, Zenon DEF JobRow
<1>6. CASE HoldAmbiguousDispatch(w) /\ job' # job
  <2>1. job' = [job EXCEPT ![l] = [job[l] EXCEPT !.status = "held", !.outcome = "ambiguous",
                                     !.hold = "provider_outcome_ambiguous", !.stale = FALSE]]
    BY <1>6, Zenon DEF HoldAmbiguousDispatch
  <2> QED BY <1>1, <1>2, <2>1, QuietUpdate, Zenon DEF JobRow
<1>7. CASE FailOrRescheduleJob(w) /\ job' # job
  <2>1. job' = [job EXCEPT ![l] = [job[l] EXCEPT !.status = "failed", !.outcome = "definite_failure",
                                                 !.stale = FALSE, !.due = TRUE]]
    BY <1>7, Zenon DEF FailOrRescheduleJob
  <2> QED BY <1>1, <1>2, <2>1, QuietUpdate, Zenon DEF JobRow
<1> QED BY <1>3, <1>4, <1>5, <1>6, <1>7
        DEF ProviderUnavailable, MarkRefused, ProviderAnswers, SettleFails, RecoverAcceptance, Crash

\* So are the clock, an acceptance confirmed, a release and the cancels.
LEMMA QuietLetterSteps ==
    ASSUME TypeOK, NEW l \in Letters,
           \/ BecomesDue(l) \/ LockAges(l) \/ ResolveAccepted(l)
           \/ ReleaseHeldLetterJob(l) \/ CancelLeftLetterJob(l) \/ CancelScheduledMail(l)
    PROVE  QuietJobs /\ worker' = worker
<1>1. CASE BecomesDue(l)
  BY <1>1 DEF BecomesDue, QuietJobs, TypeOK, JobRow
<1>2. CASE LockAges(l)
  BY <1>2 DEF LockAges, QuietJobs, TypeOK, JobRow
<1>3. CASE ResolveAccepted(l)
  BY <1>3 DEF ResolveAccepted, QuietJobs, TypeOK, JobRow
<1>4. CASE ReleaseHeldLetterJob(l)
  BY <1>4 DEF ReleaseHeldLetterJob, QuietJobs, TypeOK, JobRow
<1>5. CASE CancelLeftLetterJob(l) \/ CancelScheduledMail(l)
  BY <1>5 DEF CancelLeftLetterJob, CancelScheduledMail, CancelPending, QuietJobs, TypeOK, JobRow
<1> QED BY <1>1, <1>2, <1>3, <1>4, <1>5

\* So is everything Stripe says.
LEMMA QuietMoney ==
    ASSUME TypeOK,
           (\E l \in JitLetters : JitMoney(l)) \/ (\E p \in Packs : PackMoney(p))
    PROVE  QuietJobs /\ worker' = worker
<1>1. ASSUME NEW l \in JitLetters, StopFundedMail(l) PROVE QuietJobs
  BY <1>1, OutboxAssumption DEF StopFundedMail, QuietJobs, TypeOK, JobRow
<1>2. ASSUME NEW p \in Packs, HoldMailFundedBy(p) PROVE QuietJobs
  BY <1>2 DEF HoldMailFundedBy, QuietJobs, TypeOK, JobRow
<1>3. CASE job' = job
  BY <1>3, Zenon DEF QuietJobs, JitMoney, JitRefundEvent, JitDisputeEvent, JitDisputeWon, ClaimRefund,
     FinalizeRefund, PackMoney, PackRefundPending, PackRefundEvent, PackRefundFoundBySweep,
     PackDisputeLoss, PackDisputeWon
<1>4. CASE job' # job
  BY <1>1, <1>2, <1>4, Zenon DEF JitMoney, JitRefundEvent, JitDisputeEvent, JitDisputeWon, ClaimRefund,
     FinalizeRefund, PackMoney, PackRefundPending, PackRefundEvent, PackRefundFoundBySweep,
     PackDisputeLoss, PackDisputeWon
<1> QED BY <1>3, <1>4

\* A put-back gives back an attempt the claim spent, and leaves the job claimable again.
LEMMA PutBackKeepsClaims ==
    ASSUME TypeOK, ClaimInv, QuietWorkers, NEW S \in SUBSET Letters,
           \A l \in S : job[l].status = "processing",
           job' = [l \in Letters |-> IF l \in S THEN PutBackRow(job[l]) ELSE job[l]]
    PROVE  ClaimInv'
<1>1. ASSUME NEW l \in Letters
      PROVE  /\ job'[l].max = job[l].max
             /\ job'[l].status = "pending" => job'[l].attempts < job'[l].max
             /\ job'[l].status = "processing"
                  => 1 <= job'[l].attempts /\ job'[l].attempts <= job'[l].max
  <2>1. CASE l \notin S
    BY <2>1 DEF ClaimInv, PendingIsClaimable, AttemptsKept
  <2>2. CASE l \in S
    <3>1. job[l] \in JobRow /\ 1 <= job[l].attempts /\ job[l].attempts <= job[l].max
      BY <2>2 DEF TypeOK, ClaimInv, AttemptsKept
    <3>2. job[l].attempts # 0
      BY <3>1, OutboxAssumption DEF JobRow
    <3>3. job'[l].status = "pending" /\ job'[l].max = job[l].max
          /\ job'[l].attempts = job[l].attempts - 1
      BY <2>2, <3>1, <3>2, Zenon DEF PutBackRow, JobRow
    <3> QED BY <3>1, <3>3, OutboxAssumption DEF JobRow
  <2> QED BY <2>1, <2>2
<1>2. ASSUME NEW w \in Workers, worker'[w].pc # "idle", worker'[w].retryable
      PROVE  worker'[w].attempts < job'[worker'[w].l].max
  <2>1. /\ worker[w].pc # "idle" /\ worker[w].retryable
        /\ worker'[w].l = worker[w].l /\ worker'[w].attempts = worker[w].attempts
    BY <1>2 DEF QuietWorkers
  <2> QED BY <2>1, <1>1, HasLetter DEF ClaimInv, RetryableIsTrue
<1> QED BY <1>1, <1>2 DEF ClaimInv, PendingIsClaimable, AttemptsKept, RetryableIsTrue

\* A new row that is claimable if it is pending, and whose limit has not gone down.
LEMMA NewRowKeepsClaims ==
    ASSUME TypeOK, ClaimInv, QuietWorkers, NEW l \in Letters, NEW row,
           job' = [job EXCEPT ![l] = row],
           row \in JobRow, job[l].max <= row.max, row.status # "processing",
           row.status = "pending" => row.attempts < row.max
    PROVE  ClaimInv'
<1>1. ASSUME NEW k \in Letters
      PROVE  /\ job[k].max <= job'[k].max /\ job[k].max \in Nat /\ job'[k].max \in Nat
             /\ job'[k].status = "pending" => job'[k].attempts < job'[k].max
             /\ job'[k].status = "processing"
                  => 1 <= job'[k].attempts /\ job'[k].attempts <= job'[k].max
  <2>1. job[k].max \in Nat /\ row.max \in Nat
    BY OutboxAssumption DEF TypeOK, JobRow
  <2>2. CASE k # l
    BY <2>1, <2>2 DEF TypeOK, ClaimInv, PendingIsClaimable, AttemptsKept
  <2>3. CASE k = l
    BY <2>1, <2>3 DEF TypeOK
  <2> QED BY <2>2, <2>3
<1>2. ASSUME NEW w \in Workers, worker'[w].pc # "idle", worker'[w].retryable
      PROVE  worker'[w].attempts < job'[worker'[w].l].max
  <2>1. /\ worker[w].pc # "idle" /\ worker[w].retryable
        /\ worker'[w].l = worker[w].l /\ worker'[w].attempts = worker[w].attempts
    BY <1>2 DEF QuietWorkers
  <2>2. worker[w].l \in Letters /\ worker[w].attempts \in Nat
    BY <2>1, HasLetter, OutboxAssumption DEF TypeOK, WorkerState
  <2>3. worker[w].attempts < job[worker[w].l].max
    BY <2>1 DEF ClaimInv, RetryableIsTrue
  <2> QED BY <2>1, <2>2, <2>3, <1>1
<1> QED BY <1>1, <1>2 DEF ClaimInv, PendingIsClaimable, AttemptsKept, RetryableIsTrue

\* A failure before dispatch puts back, reschedules below the limit, or fails.
LEMMA FailBeforeDispatchKeepsClaims ==
    ASSUME TypeOK, ClaimInv, NEW w \in Workers, FailBeforeDispatch(w) PROVE ClaimInv'
<1> DEFINE l == worker[w].l
           s == IF worker[w].retryable THEN "pending" ELSE "failed"
<1>1. l \in Letters /\ job[l] \in JobRow /\ QuietWorkers
  BY HasLetter, QuietMoves DEF FailBeforeDispatch, TypeOK
<1>2. CASE job' = job
  BY <1>1, <1>2, QuietStepKeepsClaims DEF QuietJobs
<1>3. CASE HoldsClaim(w, l) /\ PutBack(l)
  <2>1. job' = [k \in Letters |-> IF k \in {l} THEN PutBackRow(job[k]) ELSE job[k]]
    BY <1>3, Zenon DEF PutBack, TypeOK
  <2>2. {l} \in SUBSET Letters /\ \A k \in {l} : job[k].status = "processing"
    BY <1>1, <1>3 DEF HoldsClaim, JobIs
  <2> HIDE DEF l
  <2> QED BY <1>1, <2>1, <2>2, PutBackKeepsClaims, Zenon
<1>4. CASE /\ HoldsClaim(w, l)
           /\ job' = [job EXCEPT ![l].status = s, ![l].due = FALSE, ![l].stale = FALSE]
  <2> DEFINE row == [job[l] EXCEPT !.status = s, !.due = FALSE, !.stale = FALSE]
  <2>1. s = "pending" => job[l].attempts < job[l].max
    BY <1>4, Zenon DEF HoldsClaim, FailBeforeDispatch, ClaimInv, RetryableIsTrue
  <2>2. s \in {"pending", "failed"}
    OBVIOUS
  <2>3. job' = [job EXCEPT ![l] = row]
    BY <1>4, Zenon
  <2> HIDE DEF s
  <2>4. /\ row \in JobRow /\ row.status = s
        /\ row.attempts = job[l].attempts /\ row.max = job[l].max
    BY <1>1, <2>2, Zenon DEF JobRow, JobStatus
  <2>5. job[l].max <= row.max
    BY <1>1, <2>4, OutboxAssumption DEF JobRow
  <2> QED BY <1>1, <2>1, <2>2, <2>3, <2>4, <2>5, NewRowKeepsClaims, Zenon
<1> QED BY <1>2, <1>3, <1>4 DEF FailBeforeDispatch

\* Every step of a worker keeps the invariant.
LEMMA WorkerStepKeepsClaims ==
    ASSUME TypeOK, ClaimInv, NEW w \in Workers, WorkerStep(w) \/ Crash(w) PROVE ClaimInv'
<1>1. CASE MarkPutsBack(w)
  <2> DEFINE l == worker[w].l
  <2>1. l \in Letters /\ QuietWorkers
    BY <1>1, HasLetter, QuietMoves DEF MarkPutsBack
  <2>2. job' = [k \in Letters |-> IF k \in {l} THEN PutBackRow(job[k]) ELSE job[k]]
    BY <1>1, Zenon DEF MarkPutsBack, PutBack, TypeOK
  <2>3. {l} \in SUBSET Letters /\ \A k \in {l} : job[k].status = "processing"
    BY <1>1, <2>1 DEF MarkPutsBack, StillThisClaim, JobIs
  <2> HIDE DEF l
  <2> QED BY <2>1, <2>2, <2>3, PutBackKeepsClaims, Zenon
<1>2. CASE FailBeforeDispatch(w)
  BY <1>2, FailBeforeDispatchKeepsClaims
<1> QED BY <1>1, <1>2, QuietWorkerSteps, QuietStepKeepsClaims DEF WorkerStep

\* So do a claim and the sweeps, which remember what the row says.
LEMMA TakesUpKeepsClaims ==
    ASSUME TypeOK, ClaimInv, NEW w \in Workers, NEW l \in Letters, ClaimJob(w, l) \/ Sweep(w, l)
    PROVE  ClaimInv'
<1> DEFINE n == job'[l].attempts
<1>1. job[l] \in JobRow /\ job[l].attempts \in Nat /\ job[l].max \in Nat
  BY OutboxAssumption DEF TypeOK, JobRow
<1>2. /\ \A k \in Letters \ {l} : job'[k] = job[k]
      /\ job'[l].max = job[l].max
      /\ \/ job'[l] = job[l]
         \/ /\ job'[l].status = "processing" /\ 1 <= job'[l].attempts
            /\ job'[l].attempts <= job[l].max
  <2>1. CASE Sweep(w, l)
    BY <2>1 DEF Sweep, SweepStaleDispatched, SweepStaleUndispatched
  <2>2. CASE ClaimJob(w, l)
    <3>1. job' = [job EXCEPT ![l] = [job[l] EXCEPT !.status = "processing", !.stale = FALSE,
                                                   !.attempts = job[l].attempts + 1]]
      BY <2>2, Zenon DEF ClaimJob
    <3>2. /\ job'[l].status = "processing" /\ job'[l].attempts = job[l].attempts + 1
          /\ job'[l].max = job[l].max
      BY <1>1, <3>1 DEF TypeOK, JobRow
    <3>3. job[l].attempts < job[l].max
      BY <2>2 DEF ClaimJob, Claimable
    <3> QED BY <1>1, <3>1, <3>2, <3>3 DEF TypeOK
  <2> QED BY <2>1, <2>2
<1>3. /\ \A v \in Workers \ {w} : worker'[v] = worker[v]
      /\ worker'[w].l = l
      /\ worker'[w].retryable => worker'[w].attempts < job[l].max
  <2>1. CASE Sweep(w, l)
    <3>1. PICK pc \in {"holding", "prefail"} : worker' = [worker EXCEPT ![w] = Working(pc, l)]
      BY <2>1 DEF Sweep, SweepStaleDispatched, SweepStaleUndispatched
    <3>2. worker'[w] = Working(pc, l) /\ \A v \in Workers \ {w} : worker'[v] = worker[v]
      BY <3>1 DEF TypeOK
    <3> DEFINE r == job[l].attempts < job[l].max
    <3>3. worker'[w] = [pc |-> pc, l |-> l, attempts |-> job[l].attempts, retryable |-> r]
      BY <3>2 DEF Working
    <3> HIDE DEF r
    <3>4. worker'[w].l = l /\ worker'[w].attempts = job[l].attempts /\ worker'[w].retryable = r
      BY <3>3
    <3>5. r => job[l].attempts < job[l].max
      BY DEF r
    <3> QED BY <3>2, <3>4, <3>5
  <2>2. CASE ClaimJob(w, l)
    BY <2>2, Zenon DEF ClaimJob, TypeOK
  <2> QED BY <2>1, <2>2
<1>4. PendingIsClaimable' /\ AttemptsKept'
  BY <1>2 DEF ClaimInv, PendingIsClaimable, AttemptsKept
<1>5. RetryableIsTrue'
  <2> SUFFICES ASSUME NEW v \in Workers, worker'[v].pc # "idle", worker'[v].retryable
               PROVE  worker'[v].attempts < job'[worker'[v].l].max
    BY DEF RetryableIsTrue
  <2>1. \A k \in Letters : job'[k].max = job[k].max
    BY <1>2
  <2>2. CASE v = w
    BY <1>3, <2>1, <2>2
  <2>3. CASE v # w
    BY <1>3, <2>1, <2>3, HasLetter DEF ClaimInv, RetryableIsTrue
  <2> QED BY <2>2, <2>3
<1> QED BY <1>4, <1>5 DEF ClaimInv

\* So do the send and the operator's decisions, which raise the limit past the attempts.
LEMMA LetterStepKeepsClaims ==
    ASSUME TypeOK, ClaimInv, NEW l \in Letters,
           \/ \E dated \in BOOLEAN : Send(l, dated)
           \/ BecomesDue(l) \/ LockAges(l) \/ OperatorStep(l) \/ CancelScheduledMail(l)
    PROVE  ClaimInv'
<1>1. /\ job[l] \in JobRow /\ job[l].attempts \in Nat
      /\ job[l].max \in Nat /\ MaxAttempts <= job[l].max /\ job[l].max <= AttemptBound
  BY OutboxAssumption DEF TypeOK, JobRow
<1>2. worker' = worker => QuietWorkers
  BY DEF QuietWorkers
<1>3. CASE \E dated \in BOOLEAN : Send(l, dated)
  <2>1. PICK dated \in BOOLEAN : Send(l, dated)
    BY <1>3
  <2>2. job'[l] \in JobRow /\ worker' = worker
    BY <2>1, LetterStepTyped, Zenon DEF Send, TypeOK
  <2>3. job'[l].status = "pending" /\ job'[l].attempts = 0 /\ job'[l].max = MaxAttempts
    BY <2>1, Zenon DEF Send, TypeOK, NoJob
  <2>4. job' = [job EXCEPT ![l] = job'[l]]
    BY <2>1, Zenon DEF Send, TypeOK
  <2>5. job[l].max <= job'[l].max
    <3>1. job[l] = NoJob
      BY <2>1, Zenon DEF Send
    <3>2. job[l].max = MaxAttempts
      BY <3>1 DEF NoJob
    <3> QED BY <1>1, <2>3, <3>2
  <2> QED BY <1>2, <2>2, <2>3, <2>4, <2>5, NewRowKeepsClaims, OutboxAssumption
<1>4. CASE ResolveRetry(l) \/ RetryLetterJob(l)
  <2>1. job'[l] \in JobRow /\ worker' = worker /\ job' = [job EXCEPT ![l] = job'[l]]
    BY <1>4, LetterStepTyped, Zenon DEF ResolveRetry, RetryLetterJob, OperatorStep, TypeOK
  <2>2. /\ job'[l].status = "pending" /\ job'[l].attempts = job[l].attempts
        /\ job'[l].max = OneMore(l)
    BY <1>1, <1>4 DEF ResolveRetry, RetryLetterJob, TypeOK, JobRow
  <2>3. job[l].attempts < OneMore(l) /\ job[l].max <= OneMore(l)
    BY <1>1 DEF OneMore
  <2> QED BY <1>2, <2>1, <2>2, <2>3, NewRowKeepsClaims
<1>5. CASE ResolveRejected(l)
  <2>1. job'[l] \in JobRow /\ worker' = worker /\ job' = [job EXCEPT ![l] = job'[l]]
    BY <1>5, LetterStepTyped, Zenon DEF ResolveRejected, OperatorStep, TypeOK
  <2>2. job'[l].status = "failed" /\ job'[l].max = job[l].max
    BY <1>1, <1>5 DEF ResolveRejected, TypeOK, JobRow
  <2> QED BY <1>1, <1>2, <2>1, <2>2, NewRowKeepsClaims
<1> QED BY <1>2, <1>3, <1>4, <1>5, QuietLetterSteps, QuietStepKeepsClaims DEF OperatorStep

\* Every step keeps the bounds on attempts that keep a pending job claimable.
LEMMA ClaimInvStep == TypeOK /\ ClaimInv /\ [Next]_vars => ClaimInv'
<1> SUFFICES ASSUME TypeOK, ClaimInv, [Next]_vars PROVE ClaimInv'
  OBVIOUS
<1>1. CASE UNCHANGED vars
  BY <1>1 DEF vars, ClaimInv, PendingIsClaimable, AttemptsKept, RetryableIsTrue
<1>2. CASE \E l \in JitLetters : JitMoney(l)
  BY <1>2, QuietMoney, QuietStepKeepsClaims DEF QuietWorkers
<1>3. CASE \E p \in Packs : PackMoney(p)
  BY <1>3, QuietMoney, QuietStepKeepsClaims DEF QuietWorkers
<1>4. CASE SweepPutsBack
  BY <1>4, PutBackKeepsClaims, Zenon
     DEF SweepPutsBack, StaleUndispatched, JobIs, QuietWorkers
<1> QED BY <1>1, <1>2, <1>3, <1>4, WorkerStepKeepsClaims, TakesUpKeepsClaims,
           LetterStepKeepsClaims DEF Next

\* A pending job can always still be claimed: put-backs, retries and reschedules never
\* leave it with its attempts spent, where no claim and no sweep would see it again.
THEOREM PendingStaysClaimable == Spec => []PendingIsClaimable
<1>1. Init => ClaimInv
  BY DEF Init, ClaimInv, PendingIsClaimable, AttemptsKept, RetryableIsTrue, NoJob, IdleWorker
<1>2. ClaimInv => PendingIsClaimable
  BY DEF ClaimInv
<1> QED BY <1>1, <1>2, TypeCorrect, ClaimInvStep, PTL DEF Spec

-----------------------------------------------------------------------------
(* At most one call per letter, when the operator waits for the call to end. *)

InFlight(w) == worker[w].pc \in {"calling", "accepted", "rejected"}

CallIsOpen ==
    \A w \in Workers : InFlight(w) => job[worker[w].l].outcome \in {"dispatching", "ambiguous"}

CallInv == OneCallInFlight /\ CallIsOpen

\* The calls after a step are calls that were there before it.
NoNewCall ==
    \A w \in Workers : InFlight(w)' => InFlight(w) /\ worker'[w].l = worker[w].l

StaysOpen(l) ==
    job[l].outcome \in {"dispatching", "ambiguous"} => job'[l].outcome \in {"dispatching", "ambiguous"}

\* A step that starts no call, and closes only a letter nobody is calling about then.
LEMMA NoNewCallKeepsCalls ==
    ASSUME TypeOK, CallInv, NoNewCall,
           \A l \in Letters : StaysOpen(l) \/ \A w \in Workers : InFlight(w)' => worker[w].l # l
    PROVE  CallInv'
<1>1. OneCallInFlight'
  BY DEF CallInv, OneCallInFlight, NoNewCall, InFlight
<1>2. ASSUME NEW w \in Workers, InFlight(w)'
      PROVE  job'[worker'[w].l].outcome \in {"dispatching", "ambiguous"}
  <2>1. InFlight(w) /\ worker'[w].l = worker[w].l
    BY <1>2 DEF NoNewCall
  <2>2. worker[w].l \in Letters
    BY <2>1, HasLetter DEF InFlight
  <2> QED BY <1>2, <2>1, <2>2 DEF CallInv, CallIsOpen, StaysOpen
<1> QED BY <1>1, <1>2 DEF CallInv, CallIsOpen, InFlight

\* Finish ends the worker's call, and Goto starts one only by way of "calling".
LEMMA MovesStartNoCall ==
    ASSUME TypeOK, NEW w \in Workers,
           \/ Finish(w)
           \/ \E pc \in {"prefail", "recovering", "holding"} : Goto(w, pc)
           \/ InFlight(w) /\ \E pc \in {"accepted", "rejected"} : Goto(w, pc)
    PROVE  NoNewCall /\ (Finish(w) => ~InFlight(w)')
<1>1. \A v \in Workers \ {w} : worker'[v] = worker[v]
  BY DEF TypeOK, Finish, Goto
<1>2. InFlight(w)' => InFlight(w) /\ worker'[w].l = worker[w].l
  <2>1. CASE Finish(w)
    BY <2>1 DEF TypeOK, Finish, IdleWorker, InFlight
  <2>2. CASE \E pc \in WorkerPc : Goto(w, pc)
    <3>1. PICK pc \in WorkerPc : worker'[w] = [worker[w] EXCEPT !.pc = pc]
      BY <2>2 DEF Goto, TypeOK
    <3>2. worker[w] \in WorkerState
      BY DEF TypeOK
    <3>3. worker'[w].l = worker[w].l /\ worker'[w].pc = pc
      BY <3>1, <3>2 DEF WorkerState
    <3>4. CASE InFlight(w)
      BY <3>3, <3>4
    <3>5. CASE \E q \in {"prefail", "recovering", "holding"} : Goto(w, q)
      <4>1. worker'[w].pc \in {"prefail", "recovering", "holding"}
        BY <3>2, <3>5 DEF Goto, TypeOK, WorkerState
      <4> QED BY <4>1 DEF InFlight
    <3>6. CASE Finish(w)
      BY <3>6 DEF TypeOK, Finish, IdleWorker, InFlight
    <3> QED BY <3>4, <3>5, <3>6
  <2> QED BY <2>1, <2>2 DEF WorkerPc
<1>3. Finish(w) => ~InFlight(w)'
  BY DEF TypeOK, Finish, IdleWorker, InFlight
<1> QED BY <1>1, <1>2, <1>3 DEF NoNewCall, InFlight

\* A worker's step keeps the invariant: the marker finds no call about its letter open,
\* and a settling worker is the only one with a call about its own.
LEMMA WorkerStepKeepsCalls ==
    ASSUME TypeOK, CallInv, NEW w \in Workers, WorkerStep(w) \/ Crash(w) PROVE CallInv'
<1> DEFINE l == worker[w].l
<1>0. worker[w].pc # "idle" => l \in Letters
  BY HasLetter
<1>1. ASSUME job' = job PROVE \A k \in Letters : StaysOpen(k)
  BY <1>1 DEF StaysOpen
<1>2. CASE ProviderUnavailable(w) \/ MarkRefused(w) \/ SettleFails(w) \/ RecoverAcceptance(w)
           \/ Crash(w) \/ ProviderAnswers(w)
  BY <1>1, <1>2, MovesStartNoCall, NoNewCallKeepsCalls
     DEF ProviderUnavailable, MarkRefused, SettleFails, RecoverAcceptance, Crash, ProviderAnswers,
         InFlight
<1>3. CASE MarkPutsBack(w) \/ FailBeforeDispatch(w)
  <2>1. NoNewCall
    BY <1>3, MovesStartNoCall, Zenon DEF MarkPutsBack, FailBeforeDispatch
  <2>2. \A k \in Letters : job'[k].outcome = job[k].outcome
    <3>1. l \in Letters /\ job[l] \in JobRow
      BY <1>0, <1>3 DEF MarkPutsBack, FailBeforeDispatch, TypeOK
    <3>2. ASSUME PutBack(l) PROVE \A k \in Letters : job'[k].outcome = job[k].outcome
      BY <3>1, <3>2 DEF PutBack, PutBackRow, TypeOK, JobRow
    <3>3. CASE FailBeforeDispatch(w) /\ ~PutBack(l)
      <4> DEFINE s == IF worker[w].retryable THEN "pending" ELSE "failed"
      <4>1. \/ job' = job
            \/ job' = [job EXCEPT ![l] = [job[l] EXCEPT !.status = s, !.due = FALSE,
                                                        !.stale = FALSE]]
        BY <3>3, Zenon DEF FailBeforeDispatch
      <4> HIDE DEF s
      <4>2. [job[l] EXCEPT !.status = s, !.due = FALSE, !.stale = FALSE].outcome = job[l].outcome
        BY <3>1 DEF JobRow
      <4> QED BY <3>1, <4>1, <4>2, Zenon DEF TypeOK
    <3> QED BY <1>3, <3>2, <3>3 DEF MarkPutsBack
  <2> QED BY <2>1, <2>2, NoNewCallKeepsCalls DEF StaysOpen
<1>4. CASE MarkProviderDispatch(w)
  <2>1. l \in Letters /\ job[l].outcome = "not_dispatched"
    BY <1>0, <1>4 DEF MarkProviderDispatch, StillThisClaim, JobIs
  <2>2. \A v \in Workers : InFlight(v) => worker[v].l # l
    BY <2>1 DEF CallInv, CallIsOpen
  <2>3. /\ \A v \in Workers \ {w} : worker'[v] = worker[v]
        /\ worker'[w].l = l
    BY <1>4 DEF MarkProviderDispatch, Goto, TypeOK, WorkerState
  <2>4. /\ \A k \in Letters \ {l} : job'[k] = job[k]
        /\ job'[l].outcome = "dispatching"
    BY <1>4, <2>1 DEF MarkProviderDispatch, TypeOK, JobRow
  <2>5. OneCallInFlight'
    BY <2>2, <2>3 DEF CallInv, OneCallInFlight, InFlight
  <2>6. ASSUME NEW v \in Workers, InFlight(v)'
        PROVE  job'[worker'[v].l].outcome \in {"dispatching", "ambiguous"}
    <3>1. CASE v = w
      BY <2>3, <2>4, <3>1
    <3>2. CASE v # w
      <4>1. InFlight(v) /\ worker'[v].l = worker[v].l
        BY <2>3, <2>6, <3>2 DEF InFlight
      <4>2. worker[v].l \in Letters \ {l}
        BY <2>2, <4>1, HasLetter DEF InFlight
      <4> QED BY <2>4, <4>1, <4>2 DEF CallInv, CallIsOpen
    <3> QED BY <3>1, <3>2
  <2> QED BY <2>5, <2>6 DEF CallInv, CallIsOpen, InFlight
<1>5. CASE HoldAmbiguousDispatch(w)
  <2>1. NoNewCall
    BY <1>5, MovesStartNoCall, Zenon DEF HoldAmbiguousDispatch
  <2>2. \A k \in Letters : job'[k].outcome \in {job[k].outcome, "ambiguous"}
    <3>1. job \in [Letters -> JobRow] /\ l \in Letters
      BY <1>0, <1>5, HasLetter DEF HoldAmbiguousDispatch, TypeOK
    <3>2. \A k \in Letters \ {l} : job'[k] = job[k]
      BY <1>5, <3>1, Zenon DEF HoldAmbiguousDispatch
    <3>3. job' = job \/ job'[l].outcome = "ambiguous"
      BY <1>5, <3>1, Zenon DEF HoldAmbiguousDispatch, JobRow
    <3> QED BY <3>2, <3>3
  <2> QED BY <2>1, <2>2, NoNewCallKeepsCalls DEF StaysOpen
<1>6. CASE CompleteJob(w) \/ FailOrRescheduleJob(w)
  <2>1. NoNewCall /\ InFlight(w)
    BY <1>6, MovesStartNoCall, Zenon DEF CompleteJob, FailOrRescheduleJob, InFlight
  <2>2. \A v \in Workers : InFlight(v) /\ worker[v].l = l => v = w
    BY <2>1 DEF CallInv, OneCallInFlight, InFlight
  <2>3. \A k \in Letters \ {l} : job'[k] = job[k]
    BY <1>6 DEF CompleteJob, FailOrRescheduleJob, TypeOK
  <2>4. CASE job' = job
    BY <1>1, <2>1, <2>4, NoNewCallKeepsCalls
  <2>5. CASE Finish(w)
    <3>1. ~InFlight(w)'
      BY <2>5, MovesStartNoCall
    <3>2. \A k \in Letters : StaysOpen(k) \/ \A v \in Workers : InFlight(v)' => worker[v].l # k
      BY <2>1, <2>2, <2>3, <3>1 DEF StaysOpen, NoNewCall
    <3> QED BY <2>1, <3>2, NoNewCallKeepsCalls
  <2> QED BY <1>6, <2>4, <2>5, Zenon DEF CompleteJob, FailOrRescheduleJob
<1> QED BY <1>2, <1>3, <1>4, <1>5, <1>6 DEF WorkerStep

\* Everyone else keeps it too; the operator, because the decision waits for the call.
LEMMA OthersKeepCalls ==
    ASSUME OperatorWaits, TypeOK, CallInv, Next,
           ~ \E w \in Workers : WorkerStep(w) \/ Crash(w)
    PROVE  CallInv'
<1>1. ASSUME worker' = worker PROVE NoNewCall
  BY <1>1 DEF NoNewCall, InFlight
<1>2. CASE \E w \in Workers, l \in Letters : ClaimJob(w, l) \/ Sweep(w, l)
  <2>1. PICK w \in Workers, l \in Letters : ClaimJob(w, l) \/ Sweep(w, l)
    BY <1>2
  <2>2. \A v \in Workers \ {w} : worker'[v] = worker[v]
    BY <2>1 DEF ClaimJob, Sweep, SweepStaleDispatched, SweepStaleUndispatched, TypeOK
  <2>3. worker'[w].pc \in {"claimed", "holding", "prefail"}
    BY <2>1 DEF ClaimJob, Sweep, SweepStaleDispatched, SweepStaleUndispatched, TypeOK, Working
  <2>4. NoNewCall
    BY <2>2, <2>3 DEF NoNewCall, InFlight
  <2>5. \A k \in Letters : job'[k].outcome = job[k].outcome
    BY <2>1 DEF ClaimJob, Sweep, SweepStaleDispatched, SweepStaleUndispatched, TypeOK, JobRow
  <2> QED BY <2>4, <2>5, NoNewCallKeepsCalls DEF StaysOpen
<1>3. CASE SweepPutsBack
  <2>1. \A k \in Letters : job'[k].outcome = job[k].outcome
    BY <1>3, Zenon DEF SweepPutsBack, PutBackRow, TypeOK, JobRow
  <2> QED BY <1>1, <1>3, <2>1, NoNewCallKeepsCalls DEF SweepPutsBack, StaysOpen
<1>4. CASE \E p \in Packs : PackMoney(p)
  <2>1. ASSUME NEW p \in Packs, HoldMailFundedBy(p)
        PROVE  \A k \in Letters : job'[k].outcome = job[k].outcome
    BY <2>1 DEF HoldMailFundedBy, TypeOK, JobRow
  <2>2. worker' = worker /\ \A k \in Letters : job'[k].outcome = job[k].outcome
    BY <1>4, <2>1 DEF PackMoney, PackRefundPending, PackRefundEvent, PackRefundFoundBySweep,
       PackDisputeLoss, PackDisputeWon
  <2> QED BY <1>1, <2>2, NoNewCallKeepsCalls DEF StaysOpen
<1>5. CASE \E l \in JitLetters : JitMoney(l)
  <2>1. PICK l \in JitLetters : JitMoney(l)
    BY <1>5
  <2>2. ASSUME StopFundedMail(l) PROVE \A k \in Letters : StaysOpen(k)
    <3>1. job \in [Letters -> JobRow] /\ l \in Letters
      BY OutboxAssumption DEF TypeOK
    <3>2. \A k \in Letters : k # l => job'[k] = job[k]
      BY <2>2, <3>1 DEF StopFundedMail
    <3>3. job'[l].outcome = job[l].outcome \/ job'[l].outcome = "ambiguous"
      BY <2>2, <3>1 DEF StopFundedMail, JobRow
    <3> QED
      BY <3>2, <3>3 DEF StaysOpen
  <2>3. ASSUME job' = job PROVE \A k \in Letters : StaysOpen(k)
    BY <2>3 DEF StaysOpen
  <2>4. worker' = worker /\ \A k \in Letters : StaysOpen(k)
    BY <2>1, <2>2, <2>3, Zenon DEF JitMoney, JitRefundEvent, JitDisputeEvent, JitDisputeWon, ClaimRefund,
       FinalizeRefund
  <2> QED BY <1>1, <2>4, NoNewCallKeepsCalls
<1>6. CASE \E l \in Letters : \/ \E dated \in BOOLEAN : Send(l, dated)
                              \/ BecomesDue(l) \/ LockAges(l)
                              \/ OperatorStep(l) \/ CancelScheduledMail(l)
  <2>1. PICK l \in Letters : \/ \E dated \in BOOLEAN : Send(l, dated)
                             \/ BecomesDue(l) \/ LockAges(l)
                             \/ OperatorStep(l) \/ CancelScheduledMail(l)
    BY <1>6
  <2>2. worker' = worker /\ \A k \in Letters \ {l} : job'[k] = job[k]
    BY <2>1, Zenon DEF Send, BecomesDue, LockAges, OperatorStep, ResolveAccepted, ResolveRetry,
       ResolveRejected, RetryLetterJob, ReleaseHeldLetterJob, CancelLeftLetterJob,
       CancelScheduledMail, CancelPending, TypeOK
  <2>3. CASE ResolveAccepted(l) \/ ResolveRetry(l) \/ ResolveRejected(l)
    <3>1. \A w \in Workers : InFlight(w) => worker[w].l # l
      BY <2>3 DEF ResolveAccepted, ResolveRetry, ResolveRejected, Resolvable, CallInFlight, InFlight
    <3> QED BY <1>1, <2>2, <3>1, NoNewCallKeepsCalls DEF StaysOpen, NoNewCall
  <2>4. CASE ~(ResolveAccepted(l) \/ ResolveRetry(l) \/ ResolveRejected(l))
    <3>1. CASE \E dated \in BOOLEAN : Send(l, dated)
      BY <1>1, <2>2, <3>1, NoNewCallKeepsCalls DEF Send, NoJob, StaysOpen
    <3>2. CASE RetryLetterJob(l)
      BY <1>1, <2>2, <3>2, NoNewCallKeepsCalls, Zenon DEF RetryLetterJob, JobIs, StaysOpen
    <3>3. CASE BecomesDue(l) \/ LockAges(l) \/ ReleaseHeldLetterJob(l) \/ CancelLeftLetterJob(l)
               \/ CancelScheduledMail(l)
      <4>1. job'[l].outcome = job[l].outcome
        BY <3>3 DEF BecomesDue, LockAges, ReleaseHeldLetterJob, CancelLeftLetterJob,
           CancelScheduledMail, TypeOK, JobRow
      <4> QED BY <1>1, <2>2, <4>1, NoNewCallKeepsCalls DEF StaysOpen
    <3> QED BY <2>1, <2>4, <3>1, <3>2, <3>3 DEF OperatorStep
  <2> QED BY <2>3, <2>4
<1> QED BY <1>2, <1>3, <1>4, <1>5, <1>6 DEF Next

\* No step of any kind.
LEMMA CallInvStep ==
    ASSUME OperatorWaits, TypeOK, CallInv, [Next]_vars PROVE CallInv'
<1>1. CASE UNCHANGED vars
  BY <1>1 DEF vars, CallInv, OneCallInFlight, CallIsOpen, InFlight
<1> QED BY <1>1, WorkerStepKeepsCalls, OthersKeepCalls

\* If operators decide about a held letter only once the call about it has ended, then
\* no letter ever has two calls to the provider in flight, whoever stalls or crashes.
THEOREM OneCallAtATime == ASSUME OperatorWaits PROVE Spec => []OneCallInFlight
<1>1. Init => CallInv
  BY DEF Init, CallInv, OneCallInFlight, CallIsOpen, InFlight, IdleWorker
<1>2. TypeOK /\ CallInv /\ [Next]_vars => CallInv'
  BY CallInvStep
<1>3. CallInv => OneCallInFlight
  BY DEF CallInv
<1> QED BY <1>1, <1>2, <1>3, TypeCorrect, PTL DEF Spec

-----------------------------------------------------------------------------
(* What becomes of every letter.  RowsAgree, MailedOrMadeGood, DispatchIsOwed,     *)
(* ReversedFundingWaits and the refinement of MailFate rest on one invariant,      *)
(* Story: which rows a letter's status goes with, what the provider or the         *)
(* customer having got something says of them, and what a worker is about.         *)

OnItsWayBack == {"refund_pending", "refunded", "disputed"}
Open == {"dispatching", "ambiguous"}

\* The letter_jobs row that goes with the letter's status.
JobFits(l) ==
    LET s == job[l].status
        o == job[l].outcome
    IN
    /\ letter[l] = "draft"      => s = "none" /\ o = "not_dispatched"
    /\ letter[l] = "queued"     => s \in {"pending", "processing"} /\ o = "not_dispatched"
    /\ letter[l] = "processing" => s = "processing" /\ o = "dispatching"
    /\ letter[l] = "held"       => s = "held" /\ o = "ambiguous"
    /\ letter[l] = "accepted"   => s = "completed" /\ o = "accepted"
    /\ letter[l] = "failed"     => s = "failed" /\ o \in {"not_dispatched", "definite_failure"}
    /\ letter[l] = "cancelled"  => s = "cancelled" /\ o = "not_dispatched"

\* The order that goes with it.
OrderFits(l) ==
    LET s == order[l].status IN
    /\ letter[l] = "draft"                    => s \in {"paid"} \cup OnItsWayBack
    /\ letter[l] \in {"queued", "processing"} => s = "fulfillment_pending"
    /\ letter[l] = "held"                     => s \in {"held"} \cup OnItsWayBack
    /\ letter[l] = "accepted"                 => s \in {"fulfilled", "held"} \cup OnItsWayBack
    /\ letter[l] \in {"failed", "cancelled"}  => s \in OnItsWayBack

\* A piece the provider took is of a letter it may have, and nothing came back for it.
TakenFits(l) == l \in piece => job[l].outcome \in Open \cup {"accepted"}
ReturnedFits(l) ==
    l \in returned => l \notin piece /\ letter[l] \in {"failed", "cancelled", "held"}

\* Prepaid mail that ended unmailed was made good, and mail of a reversed pack waits.
MadeGood(l) ==
    letter[l] \in {"failed", "cancelled"} => l \in returned \/ Revoked(Pack[l])
Reversed(p) == pack[p] \in {"refunded", "disputed", "won"}
Waits(l) ==
    letter[l] = "queued" /\ Reversed(Pack[l]) => job[l].hold = "funding" \/ l \in released

LetterInv(l) ==
    /\ JobFits(l) /\ TakenFits(l) /\ ReturnedFits(l)
    /\ l \in JitLetters => OrderFits(l) /\ l \notin returned
    /\ l \notin JitLetters => MadeGood(l) /\ Waits(l)

\* What a worker is about was sent; nothing comes back while the provider is being asked,
\* and what the provider refused it does not have.
WorkerInv(w) ==
    /\ worker[w].pc # "idle" => letter[worker[w].l] # "draft"
    /\ InFlight(w) => worker[w].l \notin returned
    /\ worker[w].pc = "rejected" => worker[w].l \notin piece

Story == (\A l \in Letters : LetterInv(l)) /\ (\A w \in Workers : WorkerInv(w))

-----------------------------------------------------------------------------
(* What a step leaves alone. *)

\* Everything the story of a letter is told from; a claim and a put-back leave it alone.
SameLetter(l) ==
    /\ letter'[l] = letter[l]
    /\ job'[l].outcome = job[l].outcome /\ job'[l].hold = job[l].hold
    /\ \/ job'[l].status = job[l].status
       \/ /\ job[l].outcome = "not_dispatched"
          /\ job[l].status \in {"pending", "processing"}
          /\ job'[l].status \in {"pending", "processing"}
    /\ l \in JitLetters => order'[l] = order[l]
    /\ l \in returned' <=> l \in returned
    /\ l \in released' <=> l \in released
    /\ l \in piece' <=> l \in piece

OnlyLetter(l) == pack' = pack /\ \A k \in Letters \ {l} : SameLetter(k)

\* Its story is then the same.
LEMMA SameLetterKeeps ==
    ASSUME NEW l \in Letters, LetterInv(l), SameLetter(l), pack' = pack
    PROVE  LetterInv(l)'
<1>1. JobFits(l)' /\ TakenFits(l)' /\ ReturnedFits(l)'
  BY DEF LetterInv, SameLetter, JobFits, TakenFits, ReturnedFits
<1>2. l \in JitLetters => OrderFits(l)' /\ l \notin returned'
  BY DEF LetterInv, SameLetter, OrderFits
<1>3. l \notin JitLetters => MadeGood(l)' /\ Waits(l)'
  BY DEF LetterInv, SameLetter, MadeGood, Waits, Revoked, Reversed
<1> QED BY <1>1, <1>2, <1>3 DEF LetterInv

\* A step about one letter tells the others' stories no differently.
LEMMA OnlyLetterKeeps ==
    ASSUME Story, NEW l \in Letters, OnlyLetter(l), LetterInv(l)',
           \A w \in Workers : WorkerInv(w)'
    PROVE  Story'
BY SameLetterKeeps DEF Story, OnlyLetter

\* The workers' part, of a step that starts no call.
LEMMA WorkersKeep ==
    ASSUME TypeOK, Story, NoNewCall,
           \A w \in Workers : worker'[w].pc # "idle" =>
               worker[w].pc # "idle" /\ worker'[w].l = worker[w].l,
           \A w \in Workers : worker'[w].pc = "rejected" => worker[w].pc = "rejected",
           \A l \in Letters :
               /\ letter'[l] = "draft" => letter[l] = "draft"
               /\ l \in piece' => l \in piece
               /\ l \in returned' => \/ l \in returned
                                     \/ \A w \in Workers : InFlight(w)' => worker[w].l # l
    PROVE  \A w \in Workers : WorkerInv(w)'
<1> SUFFICES ASSUME NEW w \in Workers, worker'[w].pc # "idle" PROVE WorkerInv(w)'
  BY DEF WorkerInv, InFlight
<1>1. worker[w].pc # "idle" /\ worker'[w].l = worker[w].l /\ worker[w].l \in Letters
  BY HasLetter
<1>2. letter'[worker'[w].l] # "draft"
  BY <1>1 DEF Story, WorkerInv
<1>3. InFlight(w)' => worker'[w].l \notin returned'
  BY <1>1 DEF Story, WorkerInv, NoNewCall
<1>4. worker'[w].pc = "rejected" => worker'[w].l \notin piece'
  BY <1>1 DEF Story, WorkerInv
<1> QED BY <1>2, <1>3, <1>4 DEF WorkerInv

\* Every worker as it was.
LEMMA IdleWorkersKeep ==
    ASSUME TypeOK, Story, worker' = worker, piece' = piece,
           \A l \in Letters :
               /\ letter'[l] = "draft" => letter[l] = "draft"
               /\ l \in returned' => l \in returned \/ \A w \in Workers : InFlight(w) => worker[w].l # l
    PROVE  \A w \in Workers : WorkerInv(w)'
<1>1. NoNewCall /\ \A w \in Workers : InFlight(w)' <=> InFlight(w)
  BY DEF NoNewCall, InFlight
<1> QED BY <1>1, WorkersKeep

-----------------------------------------------------------------------------
(* What the shared statements write. *)

\* One job's row, and one order's status.
LEMMA JobWrite ==
    ASSUME TypeOK, NEW l \in Letters, NEW row, job' = [job EXCEPT ![l] = row]
    PROVE  job'[l] = row /\ \A k \in Letters \ {l} : job'[k] = job[k]
BY DEF TypeOK

OrderMoves(l, from, to) ==
    l \in JitLetters =>
        /\ order'[l].status = IF order[l].status = from THEN to ELSE order[l].status
        /\ order'[l].refunding = order[l].refunding

\* And MoveOrder makes it, of this order alone.
LEMMA MoveOrderMoves ==
    ASSUME TypeOK, NEW l \in Letters, NEW from, NEW to, MoveOrder(l, from, to)
    PROVE  OrderMoves(l, from, to) /\ \A k \in JitLetters \ {l} : order'[k] = order[k]
<1>1. \A k \in JitLetters \ {l} : order'[k] = order[k]
  BY DEF MoveOrder, TypeOK
<1>2. ASSUME l \in JitLetters, order[l].status = from
      PROVE  order'[l] = [order[l] EXCEPT !.status = to] /\ order[l] \in OrderRow
  BY <1>2 DEF MoveOrder, TypeOK
<1>3. ASSUME ~(l \in JitLetters /\ order[l].status = from) PROVE order' = order
  BY <1>3 DEF MoveOrder
<1>4. OrderMoves(l, from, to)
  BY <1>2, <1>3 DEF OrderMoves, OrderRow
<1> QED BY <1>1, <1>4

\* What goes back goes back for this letter only, and does unless its lots were revoked.
LEMMA ReturnPrepaidReturns ==
    ASSUME NEW l \in Letters, ReturnPrepaid(l)
    PROVE  /\ \A k \in Letters \ {l} : k \in returned' <=> k \in returned
           /\ l \in JitLetters => returned' = returned
           /\ l \notin JitLetters => l \in returned' \/ Revoked(Pack[l])
BY DEF ReturnPrepaid

\* Which letters a step about l leaves alone.
LEMMA OnlyLetterByRows ==
    ASSUME NEW l \in Letters, pack' = pack,
           \A k \in Letters \ {l} :
               /\ letter'[k] = letter[k] /\ job'[k] = job[k]
               /\ k \in JitLetters => order'[k] = order[k]
               /\ (k \in returned' <=> k \in returned) /\ (k \in released' <=> k \in released)
               /\ (k \in piece' <=> k \in piece)
    PROVE  OnlyLetter(l)
BY DEF OnlyLetter, SameLetter

RowIs(l, s, o) == job'[l].status = s /\ job'[l].outcome = o

-----------------------------------------------------------------------------
(* What each step of a worker does to its letter. *)

\* The marker turns a queued letter's claimed job to dispatching.
LEMMA MarkProviderDispatchDoes ==
    ASSUME TypeOK, NEW w \in Workers, NEW l, l = worker[w].l, MarkProviderDispatch(w)
    PROVE  /\ l \in Letters /\ OnlyLetter(l)
           /\ JobIs(l, "processing", "not_dispatched") /\ job[l].hold # "funding"
           /\ letter'[l] = "processing" /\ RowIs(l, "processing", "dispatching")
           /\ l \in JitLetters => order[l].status = "fulfillment_pending"
           /\ UNCHANGED <<order, pack, returned, released, piece>>
<1>1. /\ l \in Letters /\ JobIs(l, "processing", "not_dispatched") /\ job[l].hold # "funding"
      /\ l \in JitLetters => order[l].status = "fulfillment_pending"
      /\ UNCHANGED <<order, pack, returned, released, piece>>
  BY HasLetter DEF MarkProviderDispatch, StillThisClaim
<1>2. /\ letter' = [letter EXCEPT ![l] = "processing"]
      /\ job' = [job EXCEPT ![l] = [job[l] EXCEPT !.outcome = "dispatching"]]
  BY DEF MarkProviderDispatch
<1>3. /\ letter'[l] = "processing" /\ \A k \in Letters \ {l} : letter'[k] = letter[k]
      /\ job'[l] = [job[l] EXCEPT !.outcome = "dispatching"]
      /\ \A k \in Letters \ {l} : job'[k] = job[k]
  BY <1>1, <1>2 DEF TypeOK
<1>4. RowIs(l, "processing", "dispatching")
  BY <1>1, <1>3 DEF RowIs, JobIs, TypeOK, JobRow
<1>5. OnlyLetter(l)
  BY <1>1, <1>3, OnlyLetterByRows
<1> QED BY <1>1, <1>3, <1>4, <1>5

\* The acceptance, where the rows still wait for it.
LEMMA CompleteJobDoes ==
    ASSUME TypeOK, NEW w \in Workers, NEW l, l = worker[w].l, CompleteJob(w)
    PROVE  /\ l \in Letters /\ worker[w].pc = "accepted" /\ OnlyLetter(l)
           /\ UNCHANGED <<pack, returned, released, piece>>
           /\ \/ UNCHANGED <<letter, job, order>>
              \/ /\ letter[l] \in {"processing", "held"} /\ letter'[l] = "accepted"
                 /\ RowIs(l, "completed", "accepted")
                 /\ OrderMoves(l, "fulfillment_pending", "fulfilled")
<1>1. /\ l \in Letters /\ worker[w].pc = "accepted"
      /\ UNCHANGED <<pack, returned, released, piece>>
  BY HasLetter DEF CompleteJob
<1>2. CASE UNCHANGED <<letter, job, order>>
  BY <1>1, <1>2, OnlyLetterByRows
<1>3. CASE ~UNCHANGED <<letter, job, order>>
  <2>1. /\ letter[l] \in {"processing", "held"} /\ letter' = [letter EXCEPT ![l] = "accepted"]
        /\ job' = [job EXCEPT ![l] = [job[l] EXCEPT !.status = "completed", !.outcome = "accepted",
                                                    !.stale = FALSE]]
        /\ MoveOrder(l, "fulfillment_pending", "fulfilled")
    BY <1>3, Zenon DEF CompleteJob
  <2>2. /\ letter'[l] = "accepted" /\ \A k \in Letters \ {l} : letter'[k] = letter[k]
        /\ \A k \in Letters \ {l} : job'[k] = job[k]
        /\ job'[l] = [job[l] EXCEPT !.status = "completed", !.outcome = "accepted", !.stale = FALSE]
    BY <1>1, <2>1, Zenon DEF TypeOK
  <2>3. RowIs(l, "completed", "accepted")
    BY <1>1, <2>2 DEF RowIs, TypeOK, JobRow
  <2>4. /\ OrderMoves(l, "fulfillment_pending", "fulfilled")
        /\ \A k \in JitLetters \ {l} : order'[k] = order[k]
    BY <1>1, <2>1, MoveOrderMoves
  <2>5. OnlyLetter(l)
    BY <1>1, <2>2, <2>4, OnlyLetterByRows
  <2> QED BY <1>1, <2>1, <2>2, <2>3, <2>4, <2>5
<1> QED BY <1>2, <1>3

\* The hold of the job and the hold of the letter agree once the letter fits its job.
LEMMA HoldAmbiguousDispatchDoes ==
    ASSUME TypeOK, Story, NEW w \in Workers, NEW l, l = worker[w].l, HoldAmbiguousDispatch(w)
    PROVE  /\ l \in Letters /\ OnlyLetter(l)
           /\ UNCHANGED <<pack, returned, released, piece>>
           /\ OrderMoves(l, "fulfillment_pending", "held")
           /\ \/ letter[l] \in {"accepted", "failed"} /\ letter' = letter /\ job' = job
              \/ /\ letter[l] \notin {"draft", "accepted", "failed"} /\ letter'[l] = "held"
                 /\ RowIs(l, "held", "ambiguous")
<1>1. /\ l \in Letters /\ letter[l] # "draft" /\ JobFits(l)
      /\ UNCHANGED <<pack, returned, released, piece>>
      /\ MoveOrder(l, "fulfillment_pending", "held")
  BY HasLetter DEF HoldAmbiguousDispatch, Story, WorkerInv, LetterInv
<1>2. /\ OrderMoves(l, "fulfillment_pending", "held")
      /\ \A k \in JitLetters \ {l} : order'[k] = order[k]
  BY <1>1, MoveOrderMoves
<1>3. CASE letter[l] \in {"accepted", "failed"}
  <2>1. letter' = letter /\ job' = job
    BY <1>1, <1>3, Zenon DEF HoldAmbiguousDispatch, JobFits
  <2> QED BY <1>1, <1>2, <1>3, <2>1, OnlyLetterByRows
<1>4. CASE letter[l] \notin {"accepted", "failed"}
  <2>0. job[l].status \notin {"completed", "failed"}
    BY <1>1, <1>4 DEF JobFits, TypeOK, LetterStatus
  <2>1. /\ letter' = [letter EXCEPT ![l] = "held"]
        /\ job' = [job EXCEPT ![l] = [job[l] EXCEPT !.status = "held", !.outcome = "ambiguous",
                                        !.hold = "provider_outcome_ambiguous", !.stale = FALSE]]
    BY <1>4, <2>0, Zenon DEF HoldAmbiguousDispatch
  <2>2. /\ letter'[l] = "held" /\ \A k \in Letters \ {l} : letter'[k] = letter[k]
        /\ \A k \in Letters \ {l} : job'[k] = job[k]
        /\ job'[l] = [job[l] EXCEPT !.status = "held", !.outcome = "ambiguous",
                                    !.hold = "provider_outcome_ambiguous", !.stale = FALSE]
    BY <1>1, <2>1, Zenon DEF TypeOK
  <2>3. RowIs(l, "held", "ambiguous")
    BY <1>1, <2>2 DEF RowIs, TypeOK, JobRow
  <2>5. OnlyLetter(l)
    BY <1>1, <1>2, <2>2, OnlyLetterByRows
  <2> QED BY <1>1, <1>2, <1>4, <2>2, <2>3, <2>5
<1> QED BY <1>3, <1>4

\* The rejection, where the rows still wait for an answer.
LEMMA FailOrRescheduleJobDoes ==
    ASSUME TypeOK, NEW w \in Workers, NEW l, l = worker[w].l, FailOrRescheduleJob(w)
    PROVE  /\ l \in Letters /\ OnlyLetter(l) /\ worker[w].pc = "rejected" /\ Finish(w)
           /\ UNCHANGED <<pack, released, piece>>
           /\ \/ UNCHANGED <<letter, job, order, returned>>
              \/ /\ JobIs(l, "processing", "dispatching") /\ letter'[l] = "failed"
                 /\ RowIs(l, "failed", "definite_failure")
                 /\ OrderMoves(l, "fulfillment_pending", "refund_pending") /\ ReturnPrepaid(l)
<1>1. /\ l \in Letters /\ worker[w].pc = "rejected" /\ Finish(w)
      /\ UNCHANGED <<pack, released, piece>>
  BY HasLetter DEF FailOrRescheduleJob
<1>2. CASE ~OwnsDispatch(w, l)
  BY <1>1, <1>2, OnlyLetterByRows DEF FailOrRescheduleJob
<1>3. CASE OwnsDispatch(w, l)
  <2>1. /\ letter' = [letter EXCEPT ![l] = "failed"]
        /\ job' = [job EXCEPT ![l] = [job[l] EXCEPT !.status = "failed", !.outcome = "definite_failure",
                                                    !.stale = FALSE, !.due = TRUE]]
        /\ MoveOrder(l, "fulfillment_pending", "refund_pending") /\ ReturnPrepaid(l)
    BY <1>3, Zenon DEF FailOrRescheduleJob
  <2>2. /\ letter'[l] = "failed" /\ \A k \in Letters \ {l} : letter'[k] = letter[k]
        /\ \A k \in Letters \ {l} : job'[k] = job[k]
        /\ job'[l] = [job[l] EXCEPT !.status = "failed", !.outcome = "definite_failure",
                                    !.stale = FALSE, !.due = TRUE]
    BY <1>1, <2>1, Zenon DEF TypeOK
  <2>3. RowIs(l, "failed", "definite_failure")
    BY <1>1, <2>2 DEF RowIs, TypeOK, JobRow
  <2>4. /\ OrderMoves(l, "fulfillment_pending", "refund_pending")
        /\ \A k \in JitLetters \ {l} : order'[k] = order[k]
    BY <1>1, <2>1, MoveOrderMoves
  <2>5. OnlyLetter(l)
    BY <1>1, <2>1, <2>2, <2>4, OnlyLetterByRows, ReturnPrepaidReturns
  <2> QED BY <1>1, <1>3, <2>1, <2>2, <2>3, <2>4, <2>5 DEF OwnsDispatch
<1> QED BY <1>2, <1>3

\* The put-back leaves the story alone.
LEMMA PutBackRowSame ==
    ASSUME NEW row \in JobRow
    PROVE  /\ PutBackRow(row).status = "pending" /\ PutBackRow(row).outcome = row.outcome
           /\ PutBackRow(row).hold = row.hold
<1> DEFINE n == IF row.attempts = 0 THEN 0 ELSE row.attempts - 1
<1>1. PutBackRow(row) = [row EXCEPT !.status = "pending", !.stale = FALSE, !.attempts = n]
  BY DEF PutBackRow
<1> HIDE DEF n
<1> QED BY <1>1 DEF JobRow

\* So a put-back changes nothing the letter's story is told from.
LEMMA PutBackSame ==
    ASSUME TypeOK, NEW l \in Letters, PutBack(l), JobIs(l, "processing", "not_dispatched"),
           UNCHANGED <<letter, order, pack, returned, released, piece>>
    PROVE  OnlyLetter(l) /\ SameLetter(l)
<1>1. job'[l] = PutBackRow(job[l]) /\ \A k \in Letters \ {l} : job'[k] = job[k]
  BY JobWrite, Zenon DEF PutBack
<1>2. job[l] \in JobRow
  BY DEF TypeOK
<1>3. SameLetter(l)
  BY <1>1, <1>2, PutBackRowSame DEF SameLetter, JobIs
<1>4. OnlyLetter(l)
  BY <1>1, OnlyLetterByRows
<1> QED BY <1>3, <1>4

\* The failure before any dispatch: put back, rescheduled, or the end.
LEMMA FailBeforeDispatchDoes ==
    ASSUME TypeOK, Story, NEW w \in Workers, NEW l, l = worker[w].l, FailBeforeDispatch(w)
    PROVE  /\ l \in Letters /\ OnlyLetter(l) /\ Finish(w)
           /\ UNCHANGED <<pack, released, piece>>
           /\ \/ SameLetter(l) /\ returned' = returned
              \/ /\ JobIs(l, "processing", "not_dispatched") /\ letter[l] = "queued"
                 /\ letter'[l] = "failed" /\ RowIs(l, "failed", "not_dispatched")
                 /\ OrderMoves(l, "fulfillment_pending", "refund_pending") /\ ReturnPrepaid(l)
<1>1. /\ l \in Letters /\ Finish(w) /\ JobFits(l) /\ letter[l] \in LetterStatus
      /\ UNCHANGED <<pack, released, piece>>
  BY HasLetter DEF FailBeforeDispatch, Story, LetterInv, TypeOK
<1>2. CASE ~HoldsClaim(w, l)
  <2>1. UNCHANGED <<letter, job, order, returned>>
    BY <1>2 DEF FailBeforeDispatch
  <2> QED BY <1>1, <2>1, OnlyLetterByRows DEF SameLetter
<1>3. CASE HoldsClaim(w, l) /\ (job[l].hold = "funding" \/ Blocked(Owner[l]))
  <2>1. PutBack(l) /\ UNCHANGED <<letter, order, returned>>
    BY <1>3 DEF FailBeforeDispatch
  <2> QED BY <1>1, <1>3, <2>1, PutBackSame DEF HoldsClaim
<1>4. CASE HoldsClaim(w, l) /\ ~(job[l].hold = "funding" \/ Blocked(Owner[l]))
  <2> DEFINE s == IF worker[w].retryable THEN "pending" ELSE "failed"
  <2>1. JobIs(l, "processing", "not_dispatched") /\ letter[l] = "queued"
    BY <1>1, <1>4 DEF HoldsClaim, JobIs, JobFits, LetterStatus
  <2>2. /\ job' = [job EXCEPT ![l] = [job[l] EXCEPT !.status = s, !.due = FALSE, !.stale = FALSE]]
        /\ letter' = [letter EXCEPT ![l] = IF worker[w].retryable THEN "queued" ELSE "failed"]
    BY <1>4, <2>1, Zenon DEF FailBeforeDispatch
  <2>3. /\ letter'[l] = IF worker[w].retryable THEN "queued" ELSE "failed"
        /\ \A k \in Letters \ {l} : letter'[k] = letter[k]
        /\ job'[l] = [job[l] EXCEPT !.status = s, !.due = FALSE, !.stale = FALSE]
        /\ \A k \in Letters \ {l} : job'[k] = job[k]
    BY <1>1, <2>2, Zenon DEF TypeOK
  <2>4. RowIs(l, s, "not_dispatched") /\ job'[l].hold = job[l].hold
    <3> HIDE DEF s
    <3> QED BY <1>1, <2>1, <2>3 DEF RowIs, JobIs, TypeOK, JobRow
  <2>5. CASE worker[w].retryable
    <3>1. order' = order /\ returned' = returned
      BY <1>4, <2>1, <2>5 DEF FailBeforeDispatch
    <3>2. SameLetter(l)
      BY <1>1, <2>1, <2>3, <2>4, <2>5, <3>1 DEF SameLetter, RowIs, JobIs
    <3> QED BY <1>1, <2>3, <3>1, <3>2, OnlyLetterByRows
  <2>6. CASE ~worker[w].retryable
    <3>1. MoveOrder(l, "fulfillment_pending", "refund_pending") /\ ReturnPrepaid(l)
      BY <1>4, <2>1, <2>6 DEF FailBeforeDispatch
    <3>2. /\ OrderMoves(l, "fulfillment_pending", "refund_pending")
          /\ \A k \in JitLetters \ {l} : order'[k] = order[k]
      BY <1>1, <3>1, MoveOrderMoves
    <3>3. OnlyLetter(l)
      BY <1>1, <2>3, <3>1, <3>2, OnlyLetterByRows, ReturnPrepaidReturns
    <3> QED BY <1>1, <2>1, <2>3, <2>4, <2>6, <3>1, <3>2, <3>3
  <2> QED BY <2>5, <2>6
<1> QED BY <1>2, <1>3, <1>4

-----------------------------------------------------------------------------
(* What the operator, the customer and Stripe do to one letter. *)

\* The send queues a draft whose payment stands.
LEMMA SendDoes ==
    ASSUME TypeOK, NEW l \in Letters, NEW dated \in BOOLEAN, Send(l, dated)
    PROVE  /\ OnlyLetter(l) /\ letter[l] = "draft" /\ letter'[l] = "queued"
           /\ RowIs(l, "pending", "not_dispatched")
           /\ OrderMoves(l, "paid", "fulfillment_pending")
           /\ l \in JitLetters => order[l].status = "paid"
           /\ l \notin JitLetters => pack[Pack[l]] \in {"live", "refund_pending"}
           /\ UNCHANGED <<pack, returned, released, piece, worker>>
<1>1. /\ letter[l] = "draft"
      /\ l \in JitLetters => order[l].status = "paid"
      /\ l \notin JitLetters => pack[Pack[l]] \in {"live", "refund_pending"}
      /\ UNCHANGED <<pack, returned, released, piece, worker>>
      /\ MoveOrder(l, "paid", "fulfillment_pending")
  BY DEF Send
<1>2. /\ letter'[l] = "queued" /\ \A k \in Letters \ {l} : letter'[k] = letter[k]
      /\ job'[l] = [NoJob EXCEPT !.status = "pending", !.dated = dated, !.due = ~dated]
      /\ \A k \in Letters \ {l} : job'[k] = job[k]
  BY DEF Send, TypeOK
<1>3. RowIs(l, "pending", "not_dispatched")
  BY <1>2 DEF RowIs, NoJob
<1>4. /\ OrderMoves(l, "paid", "fulfillment_pending")
      /\ \A k \in JitLetters \ {l} : order'[k] = order[k]
  BY <1>1, MoveOrderMoves
<1>5. OnlyLetter(l)
  BY <1>1, <1>2, <1>4, OnlyLetterByRows
<1> QED BY <1>1, <1>2, <1>3, <1>4, <1>5

\* The clock moves no letter.
LEMMA ClockDoes ==
    ASSUME TypeOK, NEW l \in Letters, BecomesDue(l) \/ LockAges(l)
    PROVE  OnlyLetter(l) /\ SameLetter(l)
<1>1. UNCHANGED <<letter, order, pack, returned, released, piece>>
  BY DEF BecomesDue, LockAges
<1>2. /\ \A k \in Letters \ {l} : job'[k] = job[k]
      /\ \/ job'[l] = [job[l] EXCEPT !.due = TRUE]
         \/ job'[l] = [job[l] EXCEPT !.stale = TRUE]
  BY Zenon DEF BecomesDue, LockAges, TypeOK
<1>3. /\ job'[l].status = job[l].status /\ job'[l].outcome = job[l].outcome
      /\ job'[l].hold = job[l].hold
  BY <1>2 DEF TypeOK, JobRow
<1> QED BY <1>1, <1>2, <1>3, OnlyLetterByRows DEF SameLetter

\* The operator's three decisions, each after looking at what the provider has.
LEMMA ResolveDoes ==
    ASSUME TypeOK, NEW l \in Letters,
           ResolveAccepted(l) \/ ResolveRetry(l) \/ ResolveRejected(l)
    PROVE  /\ OnlyLetter(l) /\ letter[l] = "held" /\ Resolvable(l)
           /\ UNCHANGED <<pack, released, piece, worker>>
           /\ \/ /\ l \in piece /\ returned' = returned
                 /\ letter'[l] = "accepted" /\ RowIs(l, "completed", "accepted")
                 /\ OrderMoves(l, "held", "fulfilled")
              \/ /\ l \notin piece /\ returned' = returned /\ ~Compensated(l)
                 /\ l \in JitLetters => order[l].status = "held"
                 /\ letter'[l] = "queued" /\ RowIs(l, "pending", "not_dispatched")
                 /\ OrderMoves(l, "held", "fulfillment_pending")
              \/ /\ l \notin piece /\ ReturnPrepaid(l)
                 /\ letter'[l] = "failed" /\ RowIs(l, "failed", "definite_failure")
                 /\ OrderMoves(l, "held", "refund_pending")
<1>0. /\ letter[l] = "held" /\ Resolvable(l) /\ job[l] \in JobRow
      /\ UNCHANGED <<pack, released, piece, worker>>
  BY DEF ResolveAccepted, ResolveRetry, ResolveRejected, Resolvable, TypeOK
<1>1. CASE ResolveAccepted(l)
  <2>1. /\ letter'[l] = "accepted"
        /\ job'[l] = [job[l] EXCEPT !.status = "completed", !.outcome = "accepted",
                                    !.resolved = TRUE, !.hold = "none"]
        /\ \A k \in Letters \ {l} : letter'[k] = letter[k] /\ job'[k] = job[k]
    BY <1>1 DEF ResolveAccepted, TypeOK
  <2>2. RowIs(l, "completed", "accepted")
    BY <1>0, <2>1 DEF RowIs, JobRow
  <2>3. l \in piece /\ returned' = returned /\ MoveOrder(l, "held", "fulfilled")
    BY <1>1 DEF ResolveAccepted
  <2>4. /\ OrderMoves(l, "held", "fulfilled")
        /\ \A k \in JitLetters \ {l} : order'[k] = order[k]
    BY <2>3, MoveOrderMoves
  <2>5. OnlyLetter(l)
    BY <1>0, <2>1, <2>3, <2>4, OnlyLetterByRows
  <2> QED BY <1>0, <2>1, <2>2, <2>3, <2>4, <2>5
<1>2. CASE ResolveRetry(l)
  <2>1. /\ letter'[l] = "queued"
        /\ job'[l] = [job[l] EXCEPT !.status = "pending", !.outcome = "not_dispatched",
                                    !.max = OneMore(l), !.due = TRUE,
                                    !.resolved = TRUE, !.hold = "none"]
        /\ \A k \in Letters \ {l} : letter'[k] = letter[k] /\ job'[k] = job[k]
    BY <1>2 DEF ResolveRetry, TypeOK
  <2>2. RowIs(l, "pending", "not_dispatched")
    BY <1>0, <2>1 DEF RowIs, JobRow
  <2>3. /\ l \notin piece /\ returned' = returned /\ ~Compensated(l)
        /\ l \in JitLetters => order[l].status = "held"
        /\ MoveOrder(l, "held", "fulfillment_pending")
    BY <1>2 DEF ResolveRetry
  <2>4. /\ OrderMoves(l, "held", "fulfillment_pending")
        /\ \A k \in JitLetters \ {l} : order'[k] = order[k]
    BY <2>3, MoveOrderMoves
  <2>5. OnlyLetter(l)
    BY <1>0, <2>1, <2>3, <2>4, OnlyLetterByRows
  <2> QED BY <1>0, <2>1, <2>2, <2>3, <2>4, <2>5
<1>3. CASE ResolveRejected(l)
  <2>1. /\ letter'[l] = "failed"
        /\ job'[l] = [job[l] EXCEPT !.status = "failed", !.outcome = "definite_failure",
                                    !.attempts = job[l].max, !.resolved = TRUE, !.hold = "none"]
        /\ \A k \in Letters \ {l} : letter'[k] = letter[k] /\ job'[k] = job[k]
    BY <1>3 DEF ResolveRejected, TypeOK
  <2>2. RowIs(l, "failed", "definite_failure")
    BY <1>0, <2>1 DEF RowIs, JobRow
  <2>3. l \notin piece /\ ReturnPrepaid(l) /\ MoveOrder(l, "held", "refund_pending")
    BY <1>3 DEF ResolveRejected
  <2>4. /\ OrderMoves(l, "held", "refund_pending")
        /\ \A k \in JitLetters \ {l} : order'[k] = order[k]
    BY <2>3, MoveOrderMoves
  <2>5. OnlyLetter(l)
    BY <1>0, <2>1, <2>3, <2>4, OnlyLetterByRows, ReturnPrepaidReturns
  <2> QED BY <1>0, <2>1, <2>2, <2>3, <2>4, <2>5
<1> QED BY <1>1, <1>2, <1>3

\* The operator's retry of a letter whose money is still here.
LEMMA RetryLetterJobDoes ==
    ASSUME TypeOK, NEW l \in Letters, RetryLetterJob(l)
    PROVE  /\ OnlyLetter(l) /\ letter[l] = "failed" /\ JobIs(l, "failed", "definite_failure")
           /\ ~Compensated(l)
           /\ letter'[l] = "queued" /\ RowIs(l, "pending", "not_dispatched")
           /\ l \in JitLetters => order[l].status = "fulfillment_pending" \/ RetryableJitRefund(l)
           /\ OrderMoves(l, "refund_pending", "fulfillment_pending")
           /\ UNCHANGED <<pack, returned, released, piece, worker>>
<1>0. /\ letter[l] = "failed" /\ JobIs(l, "failed", "definite_failure") /\ job[l] \in JobRow
      /\ ~Compensated(l)
      /\ l \in JitLetters => order[l].status = "fulfillment_pending" \/ RetryableJitRefund(l)
      /\ MoveOrder(l, "refund_pending", "fulfillment_pending")
      /\ UNCHANGED <<pack, returned, released, piece, worker>>
  BY DEF RetryLetterJob, TypeOK
<1>1. /\ letter'[l] = "queued"
      /\ job'[l] = [job[l] EXCEPT !.status = "pending", !.outcome = "not_dispatched",
                                  !.max = OneMore(l), !.due = TRUE]
      /\ \A k \in Letters \ {l} : letter'[k] = letter[k] /\ job'[k] = job[k]
  BY DEF RetryLetterJob, TypeOK
<1>2. RowIs(l, "pending", "not_dispatched")
  BY <1>0, <1>1 DEF RowIs, JobRow
<1>3. /\ OrderMoves(l, "refund_pending", "fulfillment_pending")
      /\ \A k \in JitLetters \ {l} : order'[k] = order[k]
  BY <1>0, MoveOrderMoves
<1>4. OnlyLetter(l)
  BY <1>0, <1>1, <1>3, OnlyLetterByRows
<1> QED BY <1>0, <1>1, <1>2, <1>3, <1>4

\* A release ends the hold and, where it was for the funding, is remembered.
LEMMA ReleaseDoes ==
    ASSUME TypeOK, NEW l \in Letters, ReleaseHeldLetterJob(l)
    PROVE  /\ OnlyLetter(l) /\ letter' = letter /\ RowIs(l, job[l].status, job[l].outcome)
           /\ l \in released' \/ (job[l].hold # "funding" /\ released' = released)
           /\ l \in released => l \in released'
           /\ UNCHANGED <<order, pack, returned, piece, worker>>
<1> DEFINE due == job[l].due \/ ~(job[l].hold = "funding")
<1>0. /\ UNCHANGED <<letter, order, pack, returned, piece, worker>>
      /\ released' = IF job[l].hold = "funding" THEN released \cup {l} ELSE released
  BY DEF ReleaseHeldLetterJob
<1>1. /\ job'[l] = [job[l] EXCEPT !.due = due, !.hold = "none"]
      /\ \A k \in Letters \ {l} : job'[k] = job[k]
  BY DEF ReleaseHeldLetterJob, TypeOK
<1> HIDE DEF due
<1>2. RowIs(l, job[l].status, job[l].outcome)
  BY <1>1 DEF RowIs, TypeOK, JobRow
<1>3. \A k \in Letters \ {l} : k \in released' <=> k \in released
  BY <1>0
<1>4. OnlyLetter(l)
  BY <1>0, <1>1, <1>3, OnlyLetterByRows
<1> QED BY <1>0, <1>2, <1>4

\* Both cancels, of prepaid mail that was not marked.
LEMMA CancelDoes ==
    ASSUME TypeOK, NEW l \in Letters, CancelLeftLetterJob(l) \/ CancelScheduledMail(l)
    PROVE  /\ OnlyLetter(l) /\ l \notin JitLetters /\ letter[l] = "queued"
           /\ JobIs(l, "pending", "not_dispatched")
           /\ letter'[l] = "cancelled" /\ RowIs(l, "cancelled", "not_dispatched")
           /\ ReturnPrepaid(l)
           /\ UNCHANGED <<order, pack, released, piece, worker>>
<1>0. /\ l \notin JitLetters /\ letter[l] = "queued" /\ JobIs(l, "pending", "not_dispatched")
      /\ letter' = [letter EXCEPT ![l] = "cancelled"] /\ ReturnPrepaid(l)
      /\ UNCHANGED <<order, pack, released, piece, worker>>
  BY DEF CancelLeftLetterJob, CancelScheduledMail, CancelPending
<1>1. /\ letter'[l] = "cancelled" /\ \A k \in Letters \ {l} : letter'[k] = letter[k]
      /\ \A k \in Letters \ {l} : job'[k] = job[k]
      /\ \/ job'[l] = [job[l] EXCEPT !.status = "cancelled", !.resolved = TRUE]
         \/ job'[l] = [job[l] EXCEPT !.status = "cancelled"]
  BY <1>0 DEF CancelLeftLetterJob, CancelScheduledMail, TypeOK
<1>2. RowIs(l, "cancelled", "not_dispatched")
  BY <1>0, <1>1, Zenon DEF RowIs, JobIs, TypeOK, JobRow
<1>3. OnlyLetter(l)
  BY <1>0, <1>1, OnlyLetterByRows, ReturnPrepaidReturns
<1> QED BY <1>0, <1>1, <1>2, <1>3

\* stopFundedMailBeforeFinancialReversal: mail not yet marked is cancelled, mail that may
\* have gone is held, and what ended stays as it ended.
Stopped(l) ==
    /\ \A k \in Letters \ {l} : letter'[k] = letter[k] /\ job'[k] = job[k]
    /\ \/ letter[l] \in {"draft", "accepted", "failed"} /\ letter' = letter /\ job' = job
       \/ /\ letter[l] \in {"queued", "failed", "cancelled"} /\ letter'[l] = "cancelled"
          /\ job[l].outcome = "not_dispatched" /\ RowIs(l, "cancelled", "not_dispatched")
       \/ /\ letter[l] \in {"processing", "held"} /\ letter'[l] = "held"
          /\ RowIs(l, "held", "ambiguous")

\* Which it does to a letter that fits its job.
LEMMA StopFundedMailDoes ==
    ASSUME TypeOK, NEW l \in Letters, JobFits(l), StopFundedMail(l)
    PROVE  Stopped(l)
<1>0. letter[l] \in LetterStatus /\ job[l] \in JobRow
  BY DEF TypeOK
<1>1. CASE letter[l] = "draft"
  <2>1. letter' = letter /\ job' = job
    BY <1>1 DEF JobFits, StopFundedMail
  <2> QED BY <1>1, <2>1 DEF Stopped
<1>2. CASE \/ letter[l] \in {"queued", "cancelled"}
           \/ letter[l] = "failed" /\ job[l].outcome = "not_dispatched"
  <2>1. job[l].status # "none" /\ job[l].outcome = "not_dispatched"
    BY <1>2 DEF JobFits
  <2>2. /\ job' = [job EXCEPT ![l] = [job[l] EXCEPT !.status = "cancelled", !.hold = "payment", !.stale = FALSE]]
        /\ letter' = [letter EXCEPT ![l] = "cancelled"]
    BY <1>2, <2>1, Zenon DEF StopFundedMail
  <2>3. /\ job'[l] = [job[l] EXCEPT !.status = "cancelled", !.hold = "payment", !.stale = FALSE]
        /\ letter'[l] = "cancelled"
        /\ \A k \in Letters \ {l} : letter'[k] = letter[k] /\ job'[k] = job[k]
    BY <2>2 DEF TypeOK
  <2>4. RowIs(l, "cancelled", "not_dispatched")
    BY <1>0, <2>1, <2>3 DEF RowIs, JobRow
  <2> QED BY <1>2, <2>1, <2>3, <2>4 DEF Stopped
<1>3. CASE letter[l] \in {"processing", "held"}
  <2>1. job[l].status # "none" /\ job[l].outcome \in {"dispatching", "ambiguous"}
    BY <1>3 DEF JobFits
  <2>2. /\ job' = [job EXCEPT ![l] = [job[l] EXCEPT !.status = "held", !.outcome = "ambiguous",
                                                    !.hold = "payment", !.stale = FALSE]]
        /\ letter' = [letter EXCEPT ![l] = "held"]
    BY <1>3, <2>1, Zenon DEF StopFundedMail
  <2>3. /\ job'[l] = [job[l] EXCEPT !.status = "held", !.outcome = "ambiguous",
                                    !.hold = "payment", !.stale = FALSE]
        /\ letter'[l] = "held"
        /\ \A k \in Letters \ {l} : letter'[k] = letter[k] /\ job'[k] = job[k]
    BY <2>2 DEF TypeOK
  <2>4. RowIs(l, "held", "ambiguous")
    BY <1>0, <2>1, <2>3 DEF RowIs, JobRow
  <2> QED BY <1>3, <2>3, <2>4 DEF Stopped
<1>4. CASE letter[l] \in {"accepted", "failed"} /\ job[l].outcome # "not_dispatched"
  <2>1. job[l].status # "none" /\ job[l].outcome \in {"accepted", "definite_failure"}
    BY <1>4 DEF JobFits
  <2>2. letter' = letter /\ job' = job
    BY <2>1 DEF StopFundedMail
  <2> QED BY <1>4, <2>2 DEF Stopped
<1>5. letter[l] = "accepted" => job[l].outcome # "not_dispatched"
  BY DEF JobFits
<1>6. letter[l] \in {"draft", "queued", "cancelled", "failed", "processing", "held", "accepted"}
  BY <1>0 DEF LetterStatus
<1>7. CASE letter[l] \in {"accepted", "failed"}
  BY <1>2, <1>4, <1>5, <1>7
<1> QED BY <1>1, <1>2, <1>3, <1>6, <1>7

\* The order's money is going, past what an operator's retry may undo, or gone.
MoneyGone(l) ==
    \/ order[l].status \in {"refunded", "disputed"}
    \/ order[l].status = "refund_pending" /\ order[l].refunding

\* After any of them the money is gone for good.
LEMMA JitMoneyDoes ==
    ASSUME TypeOK, NEW l \in JitLetters, JobFits(l), JitMoney(l)
    PROVE  /\ \A k \in Letters \ {l} : letter'[k] = letter[k] /\ job'[k] = job[k]
           /\ \A k \in JitLetters \ {l} : order'[k] = order[k]
           /\ UNCHANGED <<pack, returned, released, piece, worker>>
           /\ MoneyGone(l)'
           /\ \/ StopFundedMail(l)
              \/ /\ letter' = letter /\ job' = job /\ order[l].status = "refund_pending"

<1>0. l \in Letters /\ order[l] \in OrderRow
  BY OutboxAssumption DEF TypeOK
<1>1. UNCHANGED <<pack, returned, released, piece, worker>>
  BY Zenon DEF JitMoney, JitRefundEvent, JitDisputeEvent, JitDisputeWon, ClaimRefund, FinalizeRefund
<1>2. CASE \E s \in {"refund_pending", "refunded"} : JitRefundEvent(l, s)
  <2>1. PICK s \in {"refund_pending", "refunded"} : JitRefundEvent(l, s)
    BY <1>2
  <2>2. StopFundedMail(l) /\ order'[l] = [order[l] EXCEPT !.status = s, !.refunding = TRUE]
        /\ \A k \in JitLetters \ {l} : order'[k] = order[k]
    BY <2>1 DEF JitRefundEvent, TypeOK
  <2>3. order'[l].status = s /\ order'[l].refunding
    BY <1>0, <2>2 DEF OrderRow
  <2> QED BY <1>0, <1>1, <2>2, <2>3, StopFundedMailDoes DEF Stopped, MoneyGone
<1>3. CASE \E loss \in BOOLEAN : JitDisputeEvent(l, loss)
  <2>1. PICK loss \in BOOLEAN : JitDisputeEvent(l, loss)
    BY <1>3
  <2>2. StopFundedMail(l) /\ order'[l] = [order[l] EXCEPT !.status = "disputed", !.loss = loss]
        /\ \A k \in JitLetters \ {l} : order'[k] = order[k]
    BY <2>1 DEF JitDisputeEvent, TypeOK
  <2>3. order'[l].status = "disputed"
    BY <1>0, <2>2 DEF OrderRow
  <2> QED BY <1>0, <1>1, <2>2, <2>3, StopFundedMailDoes DEF Stopped, MoneyGone
<1>4. CASE JitDisputeWon(l)
  <2>2. StopFundedMail(l) /\ order'[l] = [order[l] EXCEPT !.status = "disputed", !.loss = FALSE]
        /\ \A k \in JitLetters \ {l} : order'[k] = order[k]
    BY <1>4 DEF JitDisputeWon, TypeOK
  <2>3. order'[l].status = "disputed"
    BY <1>0, <2>2 DEF OrderRow
  <2> QED BY <1>0, <1>1, <2>2, <2>3, StopFundedMailDoes DEF Stopped, MoneyGone
<1>5. CASE ClaimRefund(l) \/ FinalizeRefund(l)
  <2>1. /\ letter' = letter /\ job' = job /\ order[l].status = "refund_pending"
        /\ \A k \in JitLetters \ {l} : order'[k] = order[k]
        /\ \/ order'[l] = [order[l] EXCEPT !.refunding = TRUE]
           \/ order'[l] = [order[l] EXCEPT !.status = "refunded"]
    BY <1>5, Zenon DEF ClaimRefund, FinalizeRefund, TypeOK
  <2>2. MoneyGone(l)'
    BY <1>0, <2>1 DEF OrderRow, MoneyGone
  <2> QED BY <1>1, <2>1, <2>2
<1> QED BY <1>2, <1>3, <1>4, <1>5 DEF JitMoney

-----------------------------------------------------------------------------
(* Every step keeps the story. *)

\* A letter whose story is told by these rows.
LEMMA RowsTell ==
    ASSUME NEW l \in Letters, JobFits(l)', TakenFits(l)', ReturnedFits(l)',
           l \in JitLetters => OrderFits(l)' /\ l \notin returned',
           l \notin JitLetters => MadeGood(l)' /\ Waits(l)'
    PROVE  LetterInv(l)'
BY DEF LetterInv

\* A worker that ends, or goes on without asking the provider.
LEMMA WorkerMoves ==
    ASSUME TypeOK, NEW w \in Workers, worker[w].pc # "idle",
           Finish(w) \/ \E pc \in {"prefail", "recovering", "holding"} : Goto(w, pc)
    PROVE  /\ NoNewCall
           /\ \A v \in Workers : worker'[v].pc # "idle" =>
                worker[v].pc # "idle" /\ worker'[v].l = worker[v].l
           /\ \A v \in Workers : worker'[v].pc = "rejected" => worker[v].pc = "rejected"
           /\ \A v \in Workers : InFlight(v)' => InFlight(v) /\ v # w /\ worker'[v] = worker[v]
<1>1. NoNewCall
  BY MovesStartNoCall
<1>2. QuietWorkers
  BY QuietMoves DEF WorkerPc
<1>3. \A v \in Workers \ {w} : worker'[v] = worker[v]
  BY DEF TypeOK, Finish, Goto
<1>4. worker'[w].pc \in {"idle", "prefail", "recovering", "holding"}
  BY DEF TypeOK, WorkerState, Finish, Goto, IdleWorker
<1>5. \A v \in Workers : worker'[v].pc = "rejected" => worker[v].pc = "rejected"
  BY <1>3, <1>4
<1>6. \A v \in Workers : InFlight(v)' => InFlight(v) /\ v # w /\ worker'[v] = worker[v]
  BY <1>3, <1>4 DEF InFlight
<1> QED BY <1>1, <1>2, <1>5, <1>6 DEF QuietWorkers

\* Steps of a worker that write no row.
LEMMA WorkerGoesOnKeepsStory ==
    ASSUME TypeOK, Story, NEW w \in Workers,
           ProviderUnavailable(w) \/ MarkRefused(w) \/ SettleFails(w) \/ RecoverAcceptance(w)
             \/ Crash(w)
    PROVE  Story'
<1>1. /\ UNCHANGED <<letter, job, order, pack, returned, released, piece>>
      /\ worker[w].pc # "idle"
      /\ Finish(w) \/ \E pc \in {"prefail", "recovering", "holding"} : Goto(w, pc)
  BY DEF ProviderUnavailable, MarkRefused, SettleFails, RecoverAcceptance, Crash
<1>2. \A l \in Letters : SameLetter(l)
  BY <1>1 DEF SameLetter
<1>3. \A l \in Letters : LetterInv(l)'
  BY <1>1, <1>2, SameLetterKeeps DEF Story
<1>4. \A v \in Workers : WorkerInv(v)'
  BY <1>1, WorkerMoves, WorkersKeep
<1> QED BY <1>3, <1>4 DEF Story

\* The provider takes the piece, or does not: only of a letter that may have gone, for
\* which nothing came back.
LEMMA ProviderAnswersKeepsStory ==
    ASSUME TypeOK, Story, CallInv, NEW w \in Workers, ProviderAnswers(w) PROVE Story'
<1>l. PICK l \in Letters : l = worker[w].l
  BY HasLetter DEF ProviderAnswers
<1>1. /\ l \in Letters /\ InFlight(w) /\ LetterInv(l) /\ WorkerInv(w)
      /\ UNCHANGED <<letter, job, order, pack, returned, released>>
      /\ piece' = piece \/ piece' = piece \cup {l}
  BY <1>l DEF ProviderAnswers, InFlight, Story
<1>2. /\ \A v \in Workers \ {w} : worker'[v] = worker[v]
      /\ worker'[w].l = l
      /\ worker'[w].pc = "rejected" => l \notin piece'
  BY <1>l DEF ProviderAnswers, Goto, TypeOK, WorkerState
<1>3. OnlyLetter(l)
  <2>1. \A k \in Letters \ {l} : k \in piece' <=> k \in piece
    BY <1>1
  <2> QED BY <1>1, <2>1, OnlyLetterByRows
<1>4. LetterInv(l)'
  <2>1. job[l].outcome \in Open /\ l \notin returned
    BY <1>l, <1>1 DEF CallInv, CallIsOpen, WorkerInv, Open
  <2>2. TakenFits(l)' /\ ReturnedFits(l)'
    BY <1>1, <2>1 DEF TakenFits, ReturnedFits
  <2> QED BY <1>1, <2>2 DEF LetterInv, JobFits, OrderFits, MadeGood, Waits, Revoked, Reversed
<1>5. ASSUME NEW v \in Workers PROVE WorkerInv(v)'
  <2>1. CASE v = w
    BY <1>l, <1>1, <1>2, <2>1 DEF WorkerInv, InFlight
  <2>2. CASE v # w
    <3>1. worker'[v] = worker[v] /\ WorkerInv(v)
      BY <1>2, <2>2 DEF Story
    <3>2. worker[v].pc = "rejected" => worker[v].l # l
      BY <1>l, <1>1, <2>2 DEF CallInv, OneCallInFlight, InFlight
    <3> QED BY <1>1, <3>1, <3>2 DEF WorkerInv, InFlight
  <2> QED BY <2>1, <2>2
<1> QED BY <1>1, <1>3, <1>4, <1>5, OnlyLetterKeeps

\* The marker: a letter that waited and was owed.
LEMMA MarkKeepsStory ==
    ASSUME TypeOK, Story, NEW w \in Workers, MarkProviderDispatch(w) PROVE Story'
<1>l. PICK l \in Letters : l = worker[w].l
  BY HasLetter DEF MarkProviderDispatch
<1>1. /\ l \in Letters /\ OnlyLetter(l)
      /\ JobIs(l, "processing", "not_dispatched")
      /\ letter'[l] = "processing" /\ RowIs(l, "processing", "dispatching")
      /\ l \in JitLetters => order[l].status = "fulfillment_pending"
      /\ UNCHANGED <<order, pack, returned, released, piece>>
  BY <1>l, MarkProviderDispatchDoes
<1>2. LetterInv(l) /\ letter[l] \in LetterStatus
  BY <1>1 DEF Story, TypeOK
<1>3. letter[l] = "queued" /\ l \notin piece /\ l \notin returned
  BY <1>1, <1>2 DEF LetterInv, JobFits, TakenFits, ReturnedFits, JobIs, LetterStatus, Open
<1>4. LetterInv(l)'
  <2>1. JobFits(l)' /\ TakenFits(l)' /\ ReturnedFits(l)'
    BY <1>1, <1>3 DEF JobFits, TakenFits, ReturnedFits, RowIs, Open
  <2>2. l \in JitLetters => OrderFits(l)'
    BY <1>1, <1>2, <1>3 DEF LetterInv, OrderFits
  <2>3. MadeGood(l)' /\ Waits(l)'
    BY <1>1 DEF MadeGood, Waits
  <2> QED BY <1>1, <1>3, <2>1, <2>2, <2>3, RowsTell
<1>5. \A v \in Workers \ {w} : worker'[v] = worker[v]
  BY DEF MarkProviderDispatch, Goto, TypeOK
<1>6. worker'[w].l = l /\ worker'[w].pc = "calling"
  BY <1>l DEF MarkProviderDispatch, Goto, TypeOK, WorkerState
<1>7. ASSUME NEW v \in Workers PROVE WorkerInv(v)'
  <2>1. CASE v = w
    BY <1>1, <1>3, <1>6, <2>1 DEF WorkerInv
  <2>2. CASE v # w
    <3>1. worker'[v] = worker[v] /\ WorkerInv(v)
      BY <1>5, <2>2 DEF Story
    <3>2. worker[v].pc # "idle" => letter'[worker[v].l] # "draft"
      BY <1>1, <3>1, HasLetter DEF OnlyLetter, SameLetter, WorkerInv
    <3> QED BY <1>1, <3>1, <3>2 DEF WorkerInv, InFlight
  <2> QED BY <2>1, <2>2
<1> QED BY <1>1, <1>4, <1>7, OnlyLetterKeeps

\* The acceptance, the hold, the two failures and the put-back, of a worker that then ends.
LEMMA SettleKeepsStory ==
    ASSUME TypeOK, Story, CallInv, NEW w \in Workers,
           CompleteJob(w) \/ HoldAmbiguousDispatch(w) \/ FailOrRescheduleJob(w)
             \/ FailBeforeDispatch(w) \/ MarkPutsBack(w)
    PROVE  Story'
<1>l. PICK l \in Letters : l = worker[w].l
  BY HasLetter, Zenon DEF CompleteJob, HoldAmbiguousDispatch, FailOrRescheduleJob, FailBeforeDispatch,
     MarkPutsBack
<1>0. /\ l \in Letters /\ LetterInv(l) /\ letter[l] \in LetterStatus /\ piece' = piece
      /\ worker[w].pc # "idle" /\ WorkerInv(w) /\ pack' = pack /\ released' = released
      /\ Finish(w) \/ \E pc \in {"prefail", "recovering", "holding"} : Goto(w, pc)
  BY Zenon DEF CompleteJob, HoldAmbiguousDispatch, FailOrRescheduleJob, FailBeforeDispatch,
     MarkPutsBack, Story, TypeOK
<1>1. CASE CompleteJob(w)
  <2>1. /\ OnlyLetter(l) /\ InFlight(w)
        /\ UNCHANGED <<returned, released, piece>>
        /\ \/ UNCHANGED <<letter, job, order>>
           \/ /\ letter[l] \in {"processing", "held"} /\ letter'[l] = "accepted"
              /\ RowIs(l, "completed", "accepted")
              /\ OrderMoves(l, "fulfillment_pending", "fulfilled")
    BY <1>l, <1>1, CompleteJobDoes DEF InFlight
  <2>2. l \notin returned
    BY <1>l, <1>0, <2>1 DEF WorkerInv
  <2>3. CASE UNCHANGED <<letter, job, order>>
    BY <1>0, <2>1, <2>3, SameLetterKeeps, WorkerMoves, WorkersKeep, OnlyLetterKeeps DEF SameLetter
  <2>4. CASE /\ letter[l] \in {"processing", "held"} /\ letter'[l] = "accepted"
             /\ RowIs(l, "completed", "accepted")
             /\ OrderMoves(l, "fulfillment_pending", "fulfilled")
    <3>1. JobFits(l)' /\ TakenFits(l)' /\ ReturnedFits(l)'
      BY <2>1, <2>2, <2>4 DEF JobFits, TakenFits, ReturnedFits, RowIs
    <3>2. l \in JitLetters => OrderFits(l)'
      BY <1>0, <2>4 DEF LetterInv, OrderFits, OrderMoves, OnItsWayBack
    <3>3. MadeGood(l)' /\ Waits(l)'
      BY <2>4 DEF MadeGood, Waits
    <3>4. LetterInv(l)'
      BY <1>0, <2>1, <2>2, <3>1, <3>2, <3>3, RowsTell
    <3>5. \A k \in Letters : letter'[k] = "draft" => letter[k] = "draft"
      BY <2>1, <2>4 DEF OnlyLetter, SameLetter
    <3> QED BY <1>0, <2>1, <3>4, <3>5, WorkerMoves, WorkersKeep, OnlyLetterKeeps
  <2> QED BY <2>1, <2>3, <2>4
<1>2. CASE HoldAmbiguousDispatch(w)
  <2>1. /\ OnlyLetter(l) /\ UNCHANGED <<returned, released, piece>>
        /\ OrderMoves(l, "fulfillment_pending", "held")
        /\ \/ letter[l] \in {"accepted", "failed"} /\ letter' = letter /\ job' = job
           \/ /\ letter[l] \notin {"draft", "accepted", "failed"} /\ letter'[l] = "held"
              /\ RowIs(l, "held", "ambiguous")
    BY <1>l, <1>2, HoldAmbiguousDispatchDoes
  <2>2. \A k \in Letters : letter'[k] = "draft" => letter[k] = "draft"
    BY <2>1 DEF OnlyLetter, SameLetter
  <2>3. JobFits(l)' /\ TakenFits(l)' /\ ReturnedFits(l)'
    <3>1. CASE letter' = letter /\ job' = job
      BY <1>0, <2>1, <3>1 DEF LetterInv, JobFits, TakenFits, ReturnedFits
    <3>2. CASE letter'[l] = "held" /\ RowIs(l, "held", "ambiguous")
      BY <1>0, <2>1, <3>2 DEF LetterInv, JobFits, TakenFits, ReturnedFits, RowIs, Open
    <3> QED BY <2>1, <3>1, <3>2
  <2>4. l \in JitLetters => OrderFits(l)' /\ l \notin returned'
    <3>1. SUFFICES ASSUME l \in JitLetters PROVE OrderFits(l)'
      BY <1>0, <2>1 DEF LetterInv
    <3>2. OrderFits(l)
          /\ order'[l].status = IF order[l].status = "fulfillment_pending" THEN "held"
                                ELSE order[l].status
      BY <1>0, <2>1, <3>1 DEF LetterInv, OrderMoves
    <3>3. CASE letter[l] \in {"accepted", "failed"} /\ letter' = letter
      BY <3>2, <3>3 DEF OrderFits, OnItsWayBack
    <3>4. CASE letter[l] \notin {"draft", "accepted", "failed"} /\ letter'[l] = "held"
      BY <1>0, <3>2, <3>4 DEF OrderFits, OnItsWayBack, LetterStatus
    <3> QED BY <2>1, <3>3, <3>4
  <2>5. l \notin JitLetters => MadeGood(l)' /\ Waits(l)'
    <3>1. CASE letter' = letter /\ job' = job
      BY <1>0, <2>1, <3>1 DEF LetterInv, MadeGood, Waits, Revoked, Reversed
    <3>2. CASE letter'[l] = "held"
      BY <3>2 DEF MadeGood, Waits
    <3> QED BY <2>1, <3>1, <3>2
  <2>6. LetterInv(l)'
    BY <1>0, <2>3, <2>4, <2>5, RowsTell
  <2> QED BY <1>0, <2>1, <2>2, <2>6, WorkerMoves, WorkersKeep, OnlyLetterKeeps
<1>3. CASE FailOrRescheduleJob(w) \/ FailBeforeDispatch(w)
  <2>1. /\ OnlyLetter(l) /\ Finish(w)
        /\ \/ SameLetter(l) /\ returned' = returned
           \/ /\ letter[l] \in {"queued", "processing"} /\ letter'[l] = "failed"
              /\ \E o \in {"not_dispatched", "definite_failure"} : RowIs(l, "failed", o)
              /\ OrderMoves(l, "fulfillment_pending", "refund_pending") /\ ReturnPrepaid(l)
              /\ l \notin piece
              /\ \A v \in Workers : InFlight(v) /\ worker[v].l = l => v = w
    <3>1. CASE FailOrRescheduleJob(w)
      <4>1. /\ OnlyLetter(l) /\ Finish(w) /\ InFlight(w) /\ worker[w].pc = "rejected"
            /\ \/ UNCHANGED <<letter, job, order, returned>>
               \/ /\ JobIs(l, "processing", "dispatching") /\ letter'[l] = "failed"
                  /\ RowIs(l, "failed", "definite_failure")
                  /\ OrderMoves(l, "fulfillment_pending", "refund_pending") /\ ReturnPrepaid(l)
        BY <1>l, <3>1, FailOrRescheduleJobDoes DEF InFlight
      <4>2. l \notin piece /\ \A v \in Workers : InFlight(v) /\ worker[v].l = l => v = w
        BY <1>l, <1>0, <4>1 DEF WorkerInv, CallInv, OneCallInFlight, InFlight
      <4>3. UNCHANGED <<letter, job, order, returned>> => SameLetter(l) /\ returned' = returned
        BY <1>0 DEF SameLetter
      <4>4. JobIs(l, "processing", "dispatching") => letter[l] = "processing"
        BY <1>0 DEF LetterInv, JobFits, JobIs, LetterStatus
      <4> QED BY <4>1, <4>2, <4>3, <4>4
    <3>2. CASE FailBeforeDispatch(w)
      <4>1. /\ OnlyLetter(l) /\ Finish(w)
            /\ \/ SameLetter(l) /\ returned' = returned
               \/ /\ JobIs(l, "processing", "not_dispatched") /\ letter[l] = "queued"
                  /\ letter'[l] = "failed" /\ RowIs(l, "failed", "not_dispatched")
                  /\ OrderMoves(l, "fulfillment_pending", "refund_pending") /\ ReturnPrepaid(l)
        BY <1>l, <3>2, FailBeforeDispatchDoes
      <4>2. ASSUME JobIs(l, "processing", "not_dispatched")
            PROVE  l \notin piece /\ \A v \in Workers : InFlight(v) => worker[v].l # l
        BY <1>0, <4>2 DEF LetterInv, TakenFits, Open, JobIs, CallInv, CallIsOpen
      <4> QED BY <4>1, <4>2
    <3> QED BY <1>3, <3>1, <3>2
  <2>2. CASE SameLetter(l) /\ returned' = returned
    <3>1. \A k \in Letters : letter'[k] = letter[k]
      BY <2>1, <2>2 DEF OnlyLetter, SameLetter
    <3> QED BY <1>0, <2>1, <2>2, <3>1, SameLetterKeeps, WorkerMoves, WorkersKeep, OnlyLetterKeeps
  <2>3. CASE ~(SameLetter(l) /\ returned' = returned)
    <3>1. PICK o \in {"not_dispatched", "definite_failure"} : RowIs(l, "failed", o)
      BY <2>1, <2>3
    <3>2. /\ letter[l] \in {"queued", "processing"} /\ letter'[l] = "failed"
          /\ OrderMoves(l, "fulfillment_pending", "refund_pending") /\ ReturnPrepaid(l)
          /\ l \notin piece
          /\ \A v \in Workers : InFlight(v) /\ worker[v].l = l => v = w
      BY <2>1, <2>3
    <3>3. /\ \A k \in Letters \ {l} : k \in returned' <=> k \in returned
          /\ l \in JitLetters => returned' = returned
          /\ l \notin JitLetters => l \in returned' \/ Revoked(Pack[l])
      BY <1>0, <3>2, ReturnPrepaidReturns
    <3>4. JobFits(l)' /\ TakenFits(l)' /\ ReturnedFits(l)'
      BY <1>0, <3>1, <3>2 DEF JobFits, TakenFits, ReturnedFits, RowIs
    <3>5. l \in JitLetters => OrderFits(l)' /\ l \notin returned'
      BY <1>0, <3>2, <3>3 DEF LetterInv, OrderFits, OrderMoves, OnItsWayBack
    <3>6. l \notin JitLetters => MadeGood(l)' /\ Waits(l)'
      BY <1>0, <3>2, <3>3 DEF MadeGood, Waits, Revoked
    <3>7. LetterInv(l)'
      BY <1>0, <3>4, <3>5, <3>6, RowsTell
    <3>8. \A k \in Letters : letter'[k] = "draft" => letter[k] = "draft"
      BY <2>1, <3>2 DEF OnlyLetter, SameLetter
    <3>9. /\ NoNewCall
          /\ \A v \in Workers : worker'[v].pc # "idle" =>
               worker[v].pc # "idle" /\ worker'[v].l = worker[v].l
          /\ \A v \in Workers : worker'[v].pc = "rejected" => worker[v].pc = "rejected"
          /\ \A v \in Workers : InFlight(v)' => InFlight(v) /\ v # w
      BY <1>0, WorkerMoves
    <3>10. ASSUME NEW k \in Letters, k \in returned'
           PROVE  k \in returned \/ \A v \in Workers : InFlight(v)' => worker[v].l # k
      BY <3>2, <3>3, <3>9, <3>10
    <3>11. \A v \in Workers : WorkerInv(v)'
      BY <1>0, <3>8, <3>9, <3>10, WorkersKeep
    <3> QED BY <1>0, <2>1, <3>7, <3>11, OnlyLetterKeeps
  <2> QED BY <2>2, <2>3
<1>4. CASE MarkPutsBack(w)
  <2>1. /\ PutBack(l) /\ JobIs(l, "processing", "not_dispatched")
        /\ UNCHANGED <<letter, order, pack, returned, released, piece>>
    BY <1>l, <1>4 DEF MarkPutsBack, StillThisClaim
  <2>2. OnlyLetter(l) /\ SameLetter(l)
    BY <1>0, <2>1, PutBackSame
  <2> QED BY <1>0, <2>1, <2>2, SameLetterKeeps, WorkerMoves, WorkersKeep, OnlyLetterKeeps
<1> QED BY <1>1, <1>2, <1>3, <1>4

-----------------------------------------------------------------------------
(* A job that failed before any dispatch is never claimed again, though claimJob's *)
(* candidates are pending and failed jobs alike: it failed because its attempts    *)
(* were spent.  The worker that failed it may have claimed it long before; an      *)
(* attempt limit raised since then does not make its verdict wrong.                *)

FailedIsSpent(l) ==
    JobIs(l, "failed", "not_dispatched") => job[l].max <= job[l].attempts

\* What a worker that will not reschedule remembers, of a claim it still holds or lost.
VerdictHolds(w) ==
    worker[w].pc # "idle" =>
        /\ worker[w].attempts <= job[worker[w].l].max
        /\ \/ worker[w].retryable
           \/ job[worker[w].l].max <= worker[w].attempts
           \/ worker[w].attempts < job[worker[w].l].attempts
           \/ /\ worker[w].attempts = job[worker[w].l].attempts
              /\ job[worker[w].l].status # "processing"

SpentInv ==
    /\ \A l \in Letters : job[l].attempts <= job[l].max /\ FailedIsSpent(l)
    /\ \A w \in Workers : VerdictHolds(w)

\* The three ways the attempts of a job move: on, back by a put-back, and past a raised limit.
GoesOn(l) ==
    /\ job'[l].max = job[l].max
    /\ job[l].attempts <= job'[l].attempts /\ job'[l].attempts <= job'[l].max
    /\ job'[l].status = "processing" =>
         job[l].status = "processing" \/ job[l].attempts < job'[l].attempts
GoesBack(l) ==
    /\ job'[l].max = job[l].max
    /\ job[l].status = "processing" /\ job'[l].status = "pending"
    /\ job[l].attempts = job'[l].attempts + 1
IsRaised(l) ==
    /\ job'[l].max = OneMore(l)
    /\ job'[l].attempts = job[l].attempts /\ job'[l].status # "processing"
AttemptsMove(l) == GoesOn(l) \/ GoesBack(l) \/ IsRaised(l)

\* Such a move leaves what any worker remembers true.
LEMMA VerdictKept ==
    ASSUME NEW m \in Nat, NEW a \in Nat, NEW s, NEW mm \in Nat, NEW aa \in Nat, NEW ss,
           NEW n \in Nat, a <= m, n <= m,
           m <= n \/ n < a \/ (n = a /\ s # "processing"),
           \/ /\ mm = m /\ a <= aa /\ aa <= mm /\ (ss = "processing" => s = "processing" \/ a < aa)
           \/ mm = m /\ s = "processing" /\ ss = "pending" /\ a = aa + 1
           \/ mm = (IF m > a THEN m ELSE a + 1) /\ aa = a /\ ss # "processing"
    PROVE  mm <= n \/ n < aa \/ (n = aa /\ ss # "processing")
OBVIOUS

\* Attempts and limit are numbers.
LEMMA AttemptsTyped ==
    ASSUME TypeOK, NEW l \in Letters
    PROVE  job[l] \in JobRow /\ job[l].attempts \in Nat /\ job[l].max \in Nat
BY OutboxAssumption DEF TypeOK, JobRow

\* Moves of these kinds keep the invariant, of workers that go on or remember rightly.
LEMMA MovesKeepSpent ==
    ASSUME TypeOK, TypeOK', SpentInv,
           \A l \in Letters : AttemptsMove(l) /\ FailedIsSpent(l)',
           \A w \in Workers : VerdictHolds(w)' \/
              /\ worker[w].pc # "idle" /\ worker'[w].l = worker[w].l
              /\ worker'[w].attempts = worker[w].attempts
              /\ worker'[w].retryable = worker[w].retryable
    PROVE  SpentInv'
<1>1. ASSUME NEW l \in Letters
      PROVE  /\ job[l].attempts \in Nat /\ job[l].max \in Nat
             /\ job'[l].attempts \in Nat /\ job'[l].max \in Nat
  BY AttemptsTyped, OutboxAssumption DEF TypeOK, JobRow
<1>2. ASSUME NEW l \in Letters
      PROVE  job'[l].attempts <= job'[l].max /\ job[l].max <= job'[l].max
  <2>1. AttemptsMove(l) /\ job[l].attempts <= job[l].max
    BY DEF SpentInv
  <2> QED BY <1>1, <2>1 DEF AttemptsMove, GoesOn, GoesBack, IsRaised, OneMore
<1>3. ASSUME NEW w \in Workers PROVE VerdictHolds(w)'
  <2>1. SUFFICES ASSUME worker[w].pc # "idle", worker'[w].l = worker[w].l,
                        worker'[w].attempts = worker[w].attempts,
                        worker'[w].retryable = worker[w].retryable
                 PROVE  VerdictHolds(w)'
    OBVIOUS
  <2>2. PICK l \in Letters : l = worker[w].l
    BY <2>1, HasLetter
  <2> DEFINE n == worker[w].attempts
  <2>3. n \in Nat /\ n <= job[l].max
    <3>1. worker[w].attempts \in 0..AttemptBound
      BY DEF TypeOK, WorkerState
    <3>2. worker[w].attempts <= job[l].max
      BY <2>1, <2>2 DEF SpentInv, VerdictHolds
    <3> QED BY <3>1, <3>2, OutboxAssumption
  <2>4. n <= job'[l].max
    BY <1>1, <1>2, <2>3
  <2>5. CASE worker[w].retryable
    BY <2>1, <2>2, <2>4, <2>5 DEF VerdictHolds
  <2>6. CASE ~worker[w].retryable
    <3>1. \/ job[l].max <= n \/ n < job[l].attempts
          \/ n = job[l].attempts /\ job[l].status # "processing"
      BY <2>1, <2>2, <2>6 DEF SpentInv, VerdictHolds
    <3>2. \/ /\ job'[l].max = job[l].max /\ job[l].attempts <= job'[l].attempts
             /\ job'[l].attempts <= job'[l].max
             /\ (job'[l].status = "processing" =>
                   job[l].status = "processing" \/ job[l].attempts < job'[l].attempts)
          \/ /\ job'[l].max = job[l].max /\ job[l].status = "processing"
             /\ job'[l].status = "pending" /\ job[l].attempts = job'[l].attempts + 1
          \/ /\ job'[l].max = (IF job[l].max > job[l].attempts THEN job[l].max
                               ELSE job[l].attempts + 1)
             /\ job'[l].attempts = job[l].attempts /\ job'[l].status # "processing"
      BY DEF AttemptsMove, GoesOn, GoesBack, IsRaised, OneMore
    <3>3. job[l].attempts <= job[l].max
      BY DEF SpentInv
    <3>4. \/ job'[l].max <= n \/ n < job'[l].attempts
          \/ n = job'[l].attempts /\ job'[l].status # "processing"
      <4> HIDE DEF n
      <4> QED BY <1>1, <2>3, <3>1, <3>2, <3>3, VerdictKept
    <3> QED BY <2>1, <2>2, <2>4, <3>4 DEF VerdictHolds
  <2> QED BY <2>5, <2>6
<1> QED BY <1>2, <1>3 DEF SpentInv

\* A step quiet about attempts moves them on.
LEMMA QuietGoesOn ==
    ASSUME TypeOK, SpentInv, QuietJobs, NEW l \in Letters PROVE AttemptsMove(l)
<1>1. /\ job'[l].attempts = job[l].attempts /\ job'[l].max = job[l].max
      /\ job'[l].status \in {"pending", "processing"} => job'[l].status = job[l].status
  BY DEF QuietJobs
<1> QED BY <1>1, AttemptsTyped DEF SpentInv, AttemptsMove, GoesOn

\* And so does leaving a job alone.
LEMMA SameGoesOn ==
    ASSUME TypeOK, SpentInv, NEW l \in Letters, job'[l] = job[l]
    PROVE  AttemptsMove(l) /\ FailedIsSpent(l)'
BY AttemptsTyped DEF SpentInv, AttemptsMove, GoesOn, FailedIsSpent, JobIs

\* A worker that only goes on remembers what it did.
LEMMA QuietWorkersVerdict ==
    ASSUME QuietWorkers, NEW w \in Workers
    PROVE  VerdictHolds(w)' \/
              /\ worker[w].pc # "idle" /\ worker'[w].l = worker[w].l
              /\ worker'[w].attempts = worker[w].attempts
              /\ worker'[w].retryable = worker[w].retryable
BY DEF QuietWorkers, VerdictHolds

\* A put-back moves the attempts back.
LEMMA PutBackGoesBack ==
    ASSUME TypeOK, ClaimInv, NEW l \in Letters, job[l].status = "processing",
           job'[l] = PutBackRow(job[l])
    PROVE  AttemptsMove(l) /\ FailedIsSpent(l)'
<1>1. job[l] \in JobRow /\ 1 <= job[l].attempts /\ job[l].attempts \in Nat
  BY AttemptsTyped DEF ClaimInv, AttemptsKept
<1> DEFINE n == IF job[l].attempts = 0 THEN 0 ELSE job[l].attempts - 1
<1>2. job[l].attempts = n + 1
  BY <1>1
<1>3. job'[l] = [job[l] EXCEPT !.status = "pending", !.stale = FALSE, !.attempts = n]
  BY DEF PutBackRow
<1> HIDE DEF n
<1>4. job'[l].status = "pending" /\ job'[l].max = job[l].max /\ job'[l].attempts = n
  BY <1>1, <1>3 DEF JobRow
<1> QED BY <1>2, <1>4 DEF AttemptsMove, GoesBack, FailedIsSpent, JobIs

\* A row nobody wrote, of a step about another letter.
LEMMA OthersGoOn ==
    ASSUME TypeOK, SpentInv, NEW l \in Letters, \A k \in Letters \ {l} : job'[k] = job[k],
           AttemptsMove(l), FailedIsSpent(l)'
    PROVE  \A k \in Letters : AttemptsMove(k) /\ FailedIsSpent(k)'
<1> SUFFICES ASSUME NEW k \in Letters, k # l PROVE AttemptsMove(k) /\ FailedIsSpent(k)'
  OBVIOUS
<1> QED BY SameGoesOn

\* Steps of a worker that is about to end or goes on.
LEMMA WorkerStepKeepsSpent ==
    ASSUME TypeOK, TypeOK', Story, ClaimInv, SpentInv, NEW w \in Workers, WorkerStep(w) \/ Crash(w)
    PROVE  SpentInv'
<1>1. CASE \/ ProviderUnavailable(w) \/ MarkRefused(w) \/ ProviderAnswers(w)
           \/ SettleFails(w) \/ RecoverAcceptance(w) \/ Crash(w)
  <2>1. QuietWorkers /\ job' = job
    BY <1>1, QuietWorkerSteps DEF ProviderUnavailable, MarkRefused, ProviderAnswers, SettleFails,
       RecoverAcceptance, Crash
  <2>2. \A l \in Letters : AttemptsMove(l) /\ FailedIsSpent(l)'
    BY <2>1, SameGoesOn
  <2> QED BY <2>1, <2>2, QuietWorkersVerdict, MovesKeepSpent
<1>2. CASE MarkProviderDispatch(w) \/ CompleteJob(w) \/ HoldAmbiguousDispatch(w)
             \/ FailOrRescheduleJob(w)
  <2>0. PICK l \in Letters : l = worker[w].l
    BY <1>2, HasLetter, Zenon DEF MarkProviderDispatch, CompleteJob, HoldAmbiguousDispatch,
       FailOrRescheduleJob
  <2>1. QuietJobs /\ QuietWorkers
    BY <1>2, QuietWorkerSteps
  <2>2. job' = job \/ job'[l].status # "failed" \/ job'[l].outcome = "definite_failure"
    BY <1>2, <2>0, MarkProviderDispatchDoes, CompleteJobDoes, HoldAmbiguousDispatchDoes,
       FailOrRescheduleJobDoes DEF RowIs
  <2>3. \A k \in Letters \ {l} : job'[k] = job[k]
    BY <1>2, <2>0, Zenon DEF MarkProviderDispatch, CompleteJob, HoldAmbiguousDispatch,
       FailOrRescheduleJob, TypeOK
  <2>4. AttemptsMove(l) /\ FailedIsSpent(l)'
    BY <2>1, <2>2, QuietGoesOn DEF SpentInv, FailedIsSpent, JobIs
  <2>5. \A k \in Letters : AttemptsMove(k) /\ FailedIsSpent(k)'
    BY <2>3, <2>4, OthersGoOn
  <2> QED BY <2>1, <2>5, QuietWorkersVerdict, MovesKeepSpent
<1>3. CASE MarkPutsBack(w) \/ FailBeforeDispatch(w)
  <2>0. PICK l \in Letters : l = worker[w].l
    BY <1>3, HasLetter DEF MarkPutsBack, FailBeforeDispatch
  <2>1. QuietWorkers
    BY <1>3, QuietMoves DEF MarkPutsBack, FailBeforeDispatch
  <2>2. \A k \in Letters \ {l} : job'[k] = job[k]
    BY <1>3, <2>0 DEF MarkPutsBack, FailBeforeDispatch, PutBack, TypeOK
  <2>3. AttemptsMove(l) /\ FailedIsSpent(l)'
    <3>1. CASE PutBack(l) /\ job[l].status = "processing"
      <4>1. job'[l] = PutBackRow(job[l])
        BY <3>1 DEF PutBack, TypeOK
      <4> QED BY <3>1, <4>1, PutBackGoesBack
    <3>2. CASE job' = job
      BY <3>2, SameGoesOn
    <3>3. CASE FailBeforeDispatch(w) /\ ~PutBack(l) /\ job' # job
      <4> DEFINE s == IF worker[w].retryable THEN "pending" ELSE "failed"
      <4>1. /\ HoldsClaim(w, l) /\ VerdictHolds(w) /\ worker[w].pc # "idle"
            /\ job'[l] = [job[l] EXCEPT !.status = s, !.due = FALSE, !.stale = FALSE]
        BY <2>0, <3>3, Zenon DEF FailBeforeDispatch, SpentInv, TypeOK
      <4>2. /\ job'[l].status = s /\ job'[l].outcome = job[l].outcome
            /\ job'[l].attempts = job[l].attempts /\ job'[l].max = job[l].max
        <5> HIDE DEF s
        <5> QED BY <4>1, AttemptsTyped DEF JobRow
      <4>3. s = "failed" => job[l].max <= job[l].attempts
        BY <2>0, <4>1, AttemptsTyped DEF VerdictHolds, HoldsClaim, JobIs
      <4>4. FailedIsSpent(l)'
        BY <4>2, <4>3 DEF FailedIsSpent, JobIs
      <4>5. AttemptsMove(l)
        BY <4>1, <4>2, AttemptsTyped DEF AttemptsMove, GoesOn, HoldsClaim, JobIs, SpentInv
      <4> QED BY <4>4, <4>5
    <3>4. \/ PutBack(l) /\ job[l].status = "processing"
          \/ job' = job
          \/ FailBeforeDispatch(w) /\ ~PutBack(l) /\ job' # job
      BY <1>3, <2>0, Zenon DEF MarkPutsBack, StillThisClaim, FailBeforeDispatch, HoldsClaim, JobIs
    <3> QED BY <3>1, <3>2, <3>3, <3>4
  <2>4. \A k \in Letters : AttemptsMove(k) /\ FailedIsSpent(k)'
    BY <2>2, <2>3, OthersGoOn
  <2> QED BY <2>1, <2>4, QuietWorkersVerdict, MovesKeepSpent
<1> QED BY <1>1, <1>2, <1>3 DEF WorkerStep

\* A claim spends an attempt, and what its worker remembers is what the row then says.
LEMMA TakesUpKeepsSpent ==
    ASSUME TypeOK, TypeOK', ClaimInv, ClaimInv', SpentInv, NEW w \in Workers, NEW l \in Letters,
           ClaimJob(w, l) \/ Sweep(w, l)
    PROVE  SpentInv'
<1>1. /\ job[l] \in JobRow /\ job[l].attempts \in Nat /\ job[l].max \in Nat
      /\ job[l].attempts <= job[l].max
  BY AttemptsTyped DEF SpentInv
<1>2. /\ \A k \in Letters \ {l} : job'[k] = job[k]
      /\ \A v \in Workers \ {w} : worker'[v] = worker[v]
      /\ worker'[w].l = l /\ worker'[w].attempts = job'[l].attempts
      /\ worker'[w].retryable <=> job'[l].attempts < job'[l].max
      /\ \/ job'[l] = job[l]
         \/ /\ job'[l].status = "processing" /\ job'[l].attempts = job[l].attempts + 1
            /\ job'[l].max = job[l].max /\ job[l].attempts < job[l].max
  <2>1. CASE Sweep(w, l)
    <3> DEFINE r == job[l].attempts < job[l].max
    <3>1. PICK pc \in {"holding", "prefail"} :
            worker' = [worker EXCEPT ![w] = [pc |-> pc, l |-> l, attempts |-> job[l].attempts,
                                             retryable |-> r]]
      BY <2>1 DEF Sweep, SweepStaleDispatched, SweepStaleUndispatched, Working
    <3>2. job' = job
      BY <2>1 DEF Sweep, SweepStaleDispatched, SweepStaleUndispatched
    <3> HIDE DEF r
    <3>3. /\ \A v \in Workers \ {w} : worker'[v] = worker[v]
          /\ worker'[w].l = l /\ worker'[w].attempts = job[l].attempts
          /\ worker'[w].retryable = r
      BY <3>1 DEF TypeOK
    <3> QED BY <3>2, <3>3, Zenon DEF r
  <2>2. CASE ClaimJob(w, l)
    <3> DEFINE n == job[l].attempts + 1
               r == n < job[l].max
    <3>1. /\ job' = [job EXCEPT ![l] = [job[l] EXCEPT !.status = "processing", !.attempts = n,
                                                      !.stale = FALSE]]
          /\ worker' = [worker EXCEPT ![w] = [pc |-> "claimed", l |-> l, attempts |-> n, retryable |-> r]]
          /\ job[l].attempts < job[l].max
      BY <2>2, Zenon DEF ClaimJob, Claimable
    <3> HIDE DEF n, r
    <3>2. /\ job'[l] = [job[l] EXCEPT !.status = "processing", !.attempts = n, !.stale = FALSE]
          /\ worker'[w] = [pc |-> "claimed", l |-> l, attempts |-> n, retryable |-> r]
          /\ \A k \in Letters \ {l} : job'[k] = job[k]
          /\ \A v \in Workers \ {w} : worker'[v] = worker[v]
      BY <3>1 DEF TypeOK
    <3>3. job'[l].status = "processing" /\ job'[l].attempts = n /\ job'[l].max = job[l].max
      BY <1>1, <3>2 DEF JobRow
    <3>4. n = job[l].attempts + 1 /\ (r <=> n < job[l].max)
      BY DEF n, r
    <3>5. /\ worker'[w].l = l /\ worker'[w].attempts = n
          /\ worker'[w].retryable <=> n < job[l].max
      BY <3>2, <3>4
    <3> QED BY <3>1, <3>2, <3>3, <3>4, <3>5
  <2> QED BY <2>1, <2>2
<1>3. AttemptsMove(l) /\ FailedIsSpent(l)'
  <2>1. CASE job'[l] = job[l]
    BY <2>1, SameGoesOn
  <2>2. CASE job'[l] # job[l]
    BY <1>1, <1>2, <2>2 DEF AttemptsMove, GoesOn, FailedIsSpent, JobIs
  <2> QED BY <2>1, <2>2
<1>4. \A k \in Letters : AttemptsMove(k) /\ FailedIsSpent(k)'
  BY <1>2, <1>3, OthersGoOn
<1>5. VerdictHolds(w)'
  <2>1. /\ job'[l].attempts \in Nat /\ job'[l].max \in Nat
        /\ job'[l].attempts <= job'[l].max
    BY <1>1, <1>2
  <2> QED BY <1>2, <2>1 DEF VerdictHolds
<1>6. ASSUME NEW v \in Workers
      PROVE  VerdictHolds(v)' \/
              /\ worker[v].pc # "idle" /\ worker'[v].l = worker[v].l
              /\ worker'[v].attempts = worker[v].attempts
              /\ worker'[v].retryable = worker[v].retryable
  BY <1>2, <1>5 DEF VerdictHolds
<1> QED BY <1>4, <1>6, MovesKeepSpent

\* What touches one letter: the operator alone raises a limit.
LEMMA LetterStepKeepsSpent ==
    ASSUME TypeOK, TypeOK', SpentInv, NEW l \in Letters,
           \/ \E dated \in BOOLEAN : Send(l, dated)
           \/ BecomesDue(l) \/ LockAges(l) \/ OperatorStep(l) \/ CancelScheduledMail(l)
    PROVE  SpentInv'
<1>1. /\ worker' = worker /\ \A k \in Letters \ {l} : job'[k] = job[k]
      /\ job[l] \in JobRow /\ job[l].attempts \in Nat /\ job[l].max \in Nat
      /\ job[l].attempts <= job[l].max
  <2>1. worker' = worker
    BY Zenon DEF Send, BecomesDue, LockAges, OperatorStep, ResolveAccepted, ResolveRetry,
       ResolveRejected, RetryLetterJob, ReleaseHeldLetterJob, CancelLeftLetterJob,
       CancelScheduledMail, CancelPending
  <2>2. PICK row : job' = [job EXCEPT ![l] = row]
    BY Zenon DEF Send, BecomesDue, LockAges, OperatorStep, ResolveAccepted, ResolveRetry,
       ResolveRejected, RetryLetterJob, ReleaseHeldLetterJob, CancelLeftLetterJob,
       CancelScheduledMail
  <2> QED BY <2>1, <2>2, JobWrite, AttemptsTyped DEF SpentInv
<1>2. \A w \in Workers : VerdictHolds(w)' \/
              /\ worker[w].pc # "idle" /\ worker'[w].l = worker[w].l
              /\ worker'[w].attempts = worker[w].attempts
              /\ worker'[w].retryable = worker[w].retryable
  BY <1>1 DEF VerdictHolds
<1>3. AttemptsMove(l) /\ FailedIsSpent(l)'
  <2>1. CASE \E dated \in BOOLEAN : Send(l, dated)
    <3>1. PICK dated \in BOOLEAN : Send(l, dated)
      BY <2>1
    <3>2. /\ job[l] = NoJob
          /\ job'[l] = [NoJob EXCEPT !.status = "pending", !.dated = dated, !.due = ~dated]
      BY <3>1, Zenon DEF Send, TypeOK
    <3>3. /\ job'[l].status = "pending" /\ job'[l].attempts = job[l].attempts
          /\ job'[l].max = job[l].max
      BY <3>2 DEF NoJob
    <3> QED BY <1>1, <3>3 DEF AttemptsMove, GoesOn, FailedIsSpent, JobIs
  <2>2. CASE BecomesDue(l) \/ LockAges(l) \/ ReleaseHeldLetterJob(l)
    <3>1. QuietJobs
      BY <2>2, QuietLetterSteps
    <3>2. job'[l].status = job[l].status /\ job'[l].outcome = job[l].outcome
      <4>1. CASE ReleaseHeldLetterJob(l)
        BY <4>1, ReleaseDoes DEF RowIs
      <4>2. CASE BecomesDue(l) \/ LockAges(l)
        BY <4>2 DEF BecomesDue, LockAges, TypeOK, JobRow
      <4> QED BY <2>2, <4>1, <4>2
    <3>3. job'[l].attempts = job[l].attempts /\ job'[l].max = job[l].max
      BY <3>1 DEF QuietJobs
    <3> QED BY <3>1, <3>2, <3>3, QuietGoesOn DEF SpentInv, FailedIsSpent, JobIs
  <2>3. CASE CancelLeftLetterJob(l) \/ CancelScheduledMail(l)
    <3>1. QuietJobs
      BY <2>3, QuietLetterSteps
    <3>2. job'[l].status = "cancelled"
      BY <2>3, CancelDoes DEF RowIs
    <3> QED BY <3>1, <3>2, QuietGoesOn DEF FailedIsSpent, JobIs
  <2>4. CASE ResolveAccepted(l)
    <3>1. QuietJobs
      BY <2>4, QuietLetterSteps
    <3>2. job'[l].status = "completed"
      BY <1>1, <2>4 DEF ResolveAccepted, TypeOK, JobRow
    <3> QED BY <3>1, <3>2, QuietGoesOn DEF FailedIsSpent, JobIs
  <2>5. CASE ResolveRetry(l) \/ RetryLetterJob(l)
    <3>1. /\ job'[l].status = "pending" /\ job'[l].max = OneMore(l)
          /\ job'[l].attempts = job[l].attempts
      <4> DEFINE m == OneMore(l)
      <4>1. CASE ResolveRetry(l)
        <5>1. job'[l] = [job[l] EXCEPT !.status = "pending", !.outcome = "not_dispatched",
                          !.max = m, !.due = TRUE, !.resolved = TRUE, !.hold = "none"]
          BY <4>1 DEF ResolveRetry, TypeOK
        <5> HIDE DEF m
        <5>2. /\ job'[l].status = "pending" /\ job'[l].max = m
              /\ job'[l].attempts = job[l].attempts
          BY <1>1, <5>1 DEF JobRow
        <5> QED BY <5>2 DEF m
      <4>2. CASE RetryLetterJob(l)
        <5>1. job'[l] = [job[l] EXCEPT !.status = "pending", !.outcome = "not_dispatched",
                          !.max = m, !.due = TRUE]
          BY <4>2 DEF RetryLetterJob, TypeOK
        <5> HIDE DEF m
        <5>2. /\ job'[l].status = "pending" /\ job'[l].max = m
              /\ job'[l].attempts = job[l].attempts
          BY <1>1, <5>1 DEF JobRow
        <5> QED BY <5>2 DEF m
      <4> QED BY <2>5, <4>1, <4>2
    <3> QED BY <3>1 DEF AttemptsMove, IsRaised, FailedIsSpent, JobIs
  <2>6. CASE ResolveRejected(l)
    <3>1. /\ job'[l].status = "failed" /\ job'[l].max = job[l].max
          /\ job'[l].attempts = job[l].max /\ job'[l].outcome = "definite_failure"
      <4>1. job'[l] = [job[l] EXCEPT !.status = "failed", !.outcome = "definite_failure",
                        !.attempts = job[l].max, !.resolved = TRUE, !.hold = "none"]
        BY <2>6 DEF ResolveRejected, TypeOK
      <4> QED BY <1>1, <4>1 DEF JobRow
    <3> QED BY <1>1, <3>1 DEF AttemptsMove, GoesOn, FailedIsSpent, JobIs
  <2> QED BY <2>1, <2>2, <2>3, <2>4, <2>5, <2>6 DEF OperatorStep
<1> QED BY <1>1, <1>2, <1>3, OthersGoOn, MovesKeepSpent

\* Stripe's events and the sweep of put-backs.
LEMMA OthersKeepSpent ==
    ASSUME TypeOK, TypeOK', Story, ClaimInv, SpentInv,
           \/ \E l \in JitLetters : JitMoney(l)
           \/ \E p \in Packs : PackMoney(p)
           \/ SweepPutsBack
    PROVE  SpentInv'
<1>1. CASE SweepPutsBack
  <2>1. QuietWorkers \/ worker' = worker
    BY <1>1 DEF SweepPutsBack
  <2>2. ASSUME NEW k \in Letters PROVE AttemptsMove(k) /\ FailedIsSpent(k)'
    <3>1. \/ job'[k] = job[k]
          \/ job[k].status = "processing" /\ job'[k] = PutBackRow(job[k])
      BY <1>1 DEF SweepPutsBack, StaleUndispatched, JobIs
    <3> QED BY <3>1, SameGoesOn, PutBackGoesBack
  <2>3. worker' = worker
    BY <1>1 DEF SweepPutsBack
  <2> QED BY <2>2, <2>3, MovesKeepSpent DEF VerdictHolds
<1>2. CASE (\E l \in JitLetters : JitMoney(l)) \/ (\E p \in Packs : PackMoney(p))
  <2>1. QuietJobs /\ worker' = worker
    BY <1>2, QuietMoney
  <2>2. ASSUME NEW k \in Letters PROVE FailedIsSpent(k)'
    <3>1. \/ job'[k].status = job[k].status /\ job'[k].outcome = job[k].outcome
          \/ job'[k].status # "failed"
      <4>1. CASE \E l \in JitLetters : JitMoney(l)
        <5>1. PICK l \in JitLetters : JitMoney(l)
          BY <4>1
        <5>2. l \in Letters /\ JobFits(l)
          BY OutboxAssumption DEF Story, LetterInv
        <5>3. /\ \A j \in Letters \ {l} : job'[j] = job[j]
              /\ StopFundedMail(l) \/ job' = job
          BY <5>1, <5>2, JitMoneyDoes
        <5>4. StopFundedMail(l) => job' = job \/ job'[l].status # "failed"
          BY <5>2, StopFundedMailDoes DEF Stopped, RowIs
        <5> QED BY <5>3, <5>4
      <4>2. CASE \E p \in Packs : PackMoney(p)
        <5>1. ASSUME NEW p \in Packs, HoldMailFundedBy(p)
              PROVE  job'[k].status = job[k].status /\ job'[k].outcome = job[k].outcome
          BY <5>1 DEF HoldMailFundedBy, TypeOK, JobRow
        <5> QED BY <4>2, <5>1 DEF PackMoney, PackRefundPending, PackRefundEvent,
               PackRefundFoundBySweep, PackDisputeLoss, PackDisputeWon
      <4> QED BY <1>2, <4>1, <4>2
    <3>2. job'[k].attempts = job[k].attempts /\ job'[k].max = job[k].max
      BY <2>1 DEF QuietJobs
    <3> QED BY <3>1, <3>2 DEF SpentInv, FailedIsSpent, JobIs
  <2>3. \A k \in Letters : AttemptsMove(k)
    BY <2>1, QuietGoesOn
  <2> QED BY <2>1, <2>2, <2>3, MovesKeepSpent DEF VerdictHolds
<1> QED BY <1>1, <1>2

-----------------------------------------------------------------------------
(* The story goes on: who takes up a letter, the operator, the customer and the money. *)

\* A claim, and a job from a sweep's list, of a letter that was sent.
LEMMA TakesUpKeepsStory ==
    ASSUME TypeOK, Story, SpentInv, NEW w \in Workers, NEW l \in Letters, ClaimJob(w, l) \/ Sweep(w, l)
    PROVE  Story'
<1>1. /\ UNCHANGED <<letter, order, pack, returned, released, piece>>
      /\ job[l] \in JobRow /\ LetterInv(l)
      /\ worker[w].pc = "idle"
  BY DEF ClaimJob, Sweep, SweepStaleDispatched, SweepStaleUndispatched, TypeOK, Story
<1>2. /\ \A k \in Letters \ {l} : job'[k] = job[k]
      /\ SameLetter(l) /\ job[l].status # "none"
  <2>1. CASE Sweep(w, l)
    BY <1>1, <2>1 DEF Sweep, SweepStaleDispatched, SweepStaleUndispatched, StaleUndispatched,
       JobIs, SameLetter
  <2>2. CASE ClaimJob(w, l)
    <3> DEFINE n == job[l].attempts + 1
    <3>1. /\ \A k \in Letters \ {l} : job'[k] = job[k]
          /\ job'[l] = [job[l] EXCEPT !.status = "processing", !.attempts = n, !.stale = FALSE]
      BY <2>2 DEF ClaimJob, TypeOK
    <3>2. job[l].outcome = "not_dispatched" /\ job[l].status \in {"pending", "processing"}
      BY <2>2, AttemptsTyped
         DEF ClaimJob, Claimable, Waiting, Abandoned, SpentInv, FailedIsSpent, JobIs
    <3> HIDE DEF n
    <3>3. /\ job'[l].status = "processing" /\ job'[l].outcome = job[l].outcome
          /\ job'[l].hold = job[l].hold
      BY <1>1, <3>1 DEF JobRow
    <3> QED BY <1>1, <3>1, <3>2, <3>3 DEF SameLetter
  <2> QED BY <2>1, <2>2
<1>3. OnlyLetter(l)
  BY <1>1, <1>2, OnlyLetterByRows
<1>4. LetterInv(l)' /\ letter[l] # "draft"
  BY <1>1, <1>2, SameLetterKeeps DEF LetterInv, JobFits
<1>5. /\ \A v \in Workers \ {w} : worker'[v] = worker[v]
      /\ worker'[w].l = l /\ worker'[w].pc \in {"claimed", "holding", "prefail"}
  BY DEF ClaimJob, Sweep, SweepStaleDispatched, SweepStaleUndispatched, Working, TypeOK
<1>6. ASSUME NEW v \in Workers PROVE WorkerInv(v)'
  <2>1. CASE v = w
    BY <1>1, <1>4, <1>5, <2>1 DEF WorkerInv, InFlight
  <2>2. CASE v # w
    BY <1>1, <1>5, <2>2 DEF Story, WorkerInv, InFlight
  <2> QED BY <2>1, <2>2
<1> QED BY <1>3, <1>4, <1>6, OnlyLetterKeeps

\* Who touches one letter and takes up no call: the send, the clock, operator and customer.
LEMMA LetterStepKeepsStory ==
    ASSUME OperatorWaits, TypeOK, Story, CallInv, NEW l \in Letters,
           \/ \E dated \in BOOLEAN : Send(l, dated)
           \/ BecomesDue(l) \/ LockAges(l) \/ OperatorStep(l) \/ CancelScheduledMail(l)
    PROVE  Story'
<1>1. /\ LetterInv(l) /\ letter[l] \in LetterStatus
      /\ l \in JitLetters => order[l].status \in OrderStatus
  BY DEF Story, TypeOK, OrderRow
<1>2. ASSUME OnlyLetter(l), SameLetter(l), worker' = worker, returned' = returned, piece' = piece
      PROVE  Story'
  <2>1. \A k \in Letters : letter'[k] = letter[k]
    BY <1>2 DEF OnlyLetter, SameLetter
  <2>2. \A w \in Workers : WorkerInv(w)'
    BY <1>2, <2>1, IdleWorkersKeep
  <2> QED BY <1>1, <1>2, <2>2, SameLetterKeeps, OnlyLetterKeeps DEF OnlyLetter
<1>3. ASSUME OnlyLetter(l), LetterInv(l)', worker' = worker, piece' = piece, letter'[l] # "draft",
             \A k \in Letters \ {l} : k \in returned' <=> k \in returned,
             l \in returned' => l \in returned \/ \A w \in Workers : InFlight(w) => worker[w].l # l
      PROVE  Story'
  <2>1. \A k \in Letters : letter'[k] = "draft" => letter[k] = "draft"
    BY <1>3 DEF OnlyLetter, SameLetter
  <2>2. \A k \in Letters : k \in returned' => k \in returned \/ \A w \in Workers : InFlight(w) => worker[w].l # k
    BY <1>3
  <2>3. \A w \in Workers : WorkerInv(w)'
    BY <1>3, <2>1, <2>2, IdleWorkersKeep
  <2> QED BY <1>3, <2>3, OnlyLetterKeeps
<1>4. CASE \E dated \in BOOLEAN : Send(l, dated)
  <2>1. PICK dated \in BOOLEAN : Send(l, dated)
    BY <1>4
  <2>2. /\ OnlyLetter(l) /\ letter[l] = "draft" /\ letter'[l] = "queued"
        /\ RowIs(l, "pending", "not_dispatched")
        /\ OrderMoves(l, "paid", "fulfillment_pending")
        /\ l \in JitLetters => order[l].status = "paid"
        /\ l \notin JitLetters => pack[Pack[l]] \in {"live", "refund_pending"}
        /\ UNCHANGED <<pack, returned, released, piece, worker>>
    BY <2>1, SendDoes
  <2>3. l \notin piece /\ l \notin returned
    BY <1>1, <2>2 DEF LetterInv, JobFits, TakenFits, ReturnedFits, Open
  <2>4. JobFits(l)' /\ TakenFits(l)' /\ ReturnedFits(l)'
    BY <2>2, <2>3 DEF JobFits, TakenFits, ReturnedFits, RowIs
  <2>5. l \in JitLetters => OrderFits(l)' /\ l \notin returned'
    BY <1>1, <2>2, <2>3 DEF LetterInv, OrderFits, OrderMoves, OnItsWayBack
  <2>6. l \notin JitLetters => MadeGood(l)' /\ Waits(l)'
    BY <2>2 DEF MadeGood, Waits, Reversed
  <2>7. LetterInv(l)'
    BY <2>4, <2>5, <2>6, RowsTell
  <2> QED BY <1>3, <2>2, <2>7
<1>5. CASE BecomesDue(l) \/ LockAges(l)
  <2>1. UNCHANGED <<worker, returned, piece>>
    BY <1>5 DEF BecomesDue, LockAges
  <2> QED BY <1>2, <1>5, <2>1, ClockDoes
<1>6. CASE ResolveAccepted(l) \/ ResolveRetry(l) \/ ResolveRejected(l)
  <2>1. /\ OnlyLetter(l) /\ letter[l] = "held" /\ Resolvable(l)
        /\ UNCHANGED <<pack, released, piece, worker>>
        /\ \/ /\ l \in piece /\ returned' = returned
              /\ letter'[l] = "accepted" /\ RowIs(l, "completed", "accepted")
              /\ OrderMoves(l, "held", "fulfilled")
           \/ /\ l \notin piece /\ returned' = returned /\ ~Compensated(l)
              /\ l \in JitLetters => order[l].status = "held"
              /\ letter'[l] = "queued" /\ RowIs(l, "pending", "not_dispatched")
              /\ OrderMoves(l, "held", "fulfillment_pending")
           \/ /\ l \notin piece /\ ReturnPrepaid(l)
              /\ letter'[l] = "failed" /\ RowIs(l, "failed", "definite_failure")
              /\ OrderMoves(l, "held", "refund_pending")
    BY <1>6, ResolveDoes
  <2>2. \A w \in Workers : InFlight(w) => worker[w].l # l
    BY <2>1 DEF Resolvable, CallInFlight, InFlight
  <2>3. CASE l \in piece /\ returned' = returned /\ letter'[l] = "accepted"
             /\ RowIs(l, "completed", "accepted") /\ OrderMoves(l, "held", "fulfilled")
    <3>1. l \notin returned
      BY <1>1, <2>3 DEF LetterInv, ReturnedFits
    <3>2. JobFits(l)' /\ TakenFits(l)' /\ ReturnedFits(l)'
      BY <2>1, <2>3, <3>1 DEF JobFits, TakenFits, ReturnedFits, RowIs
    <3>3. l \in JitLetters => OrderFits(l)' /\ l \notin returned'
      BY <1>1, <2>1, <2>3, <3>1 DEF LetterInv, OrderFits, OrderMoves, OnItsWayBack
    <3>4. MadeGood(l)' /\ Waits(l)'
      BY <2>3 DEF MadeGood, Waits
    <3>5. LetterInv(l)'
      BY <3>2, <3>3, <3>4, RowsTell
    <3> QED BY <1>3, <2>1, <2>3, <3>5
  <2>4. CASE /\ l \notin piece /\ returned' = returned /\ ~Compensated(l)
             /\ l \in JitLetters => order[l].status = "held"
             /\ letter'[l] = "queued" /\ RowIs(l, "pending", "not_dispatched")
             /\ OrderMoves(l, "held", "fulfillment_pending")
    <3>1. l \notin returned /\ (l \notin JitLetters => ~Revoked(Pack[l]))
      BY <2>4 DEF Compensated
    <3>2. JobFits(l)' /\ TakenFits(l)' /\ ReturnedFits(l)'
      BY <2>1, <2>4, <3>1 DEF JobFits, TakenFits, ReturnedFits, RowIs
    <3>3. l \in JitLetters => OrderFits(l)' /\ l \notin returned'
      BY <1>1, <2>1, <2>4, <3>1 DEF LetterInv, OrderFits, OrderMoves, OnItsWayBack
    <3>4. l \notin JitLetters => MadeGood(l)' /\ Waits(l)'
      BY <2>1, <2>4, <3>1 DEF MadeGood, Waits, Reversed, Revoked
    <3>5. LetterInv(l)'
      BY <3>2, <3>3, <3>4, RowsTell
    <3> QED BY <1>3, <2>1, <2>4, <3>5
  <2>5. CASE /\ l \notin piece /\ ReturnPrepaid(l)
             /\ letter'[l] = "failed" /\ RowIs(l, "failed", "definite_failure")
             /\ OrderMoves(l, "held", "refund_pending")
    <3>1. /\ \A k \in Letters \ {l} : k \in returned' <=> k \in returned
          /\ l \in JitLetters => returned' = returned
          /\ l \notin JitLetters => l \in returned' \/ Revoked(Pack[l])
      BY <2>5, ReturnPrepaidReturns
    <3>2. JobFits(l)' /\ TakenFits(l)' /\ ReturnedFits(l)'
      BY <2>1, <2>5 DEF JobFits, TakenFits, ReturnedFits, RowIs
    <3>3. l \in JitLetters => OrderFits(l)' /\ l \notin returned'
      BY <1>1, <2>1, <2>5, <3>1 DEF LetterInv, OrderFits, OrderMoves, OnItsWayBack
    <3>4. l \notin JitLetters => MadeGood(l)' /\ Waits(l)'
      BY <2>1, <2>5, <3>1 DEF MadeGood, Waits, Revoked
    <3>5. LetterInv(l)'
      BY <3>2, <3>3, <3>4, RowsTell
    <3> QED BY <1>3, <2>1, <2>2, <2>5, <3>1, <3>5
  <2> QED BY <2>1, <2>3, <2>4, <2>5
<1>7. CASE RetryLetterJob(l)
  <2>1. /\ OnlyLetter(l) /\ letter[l] = "failed" /\ JobIs(l, "failed", "definite_failure")
        /\ ~Compensated(l)
        /\ letter'[l] = "queued" /\ RowIs(l, "pending", "not_dispatched")
        /\ l \in JitLetters => order[l].status = "fulfillment_pending" \/ RetryableJitRefund(l)
        /\ OrderMoves(l, "refund_pending", "fulfillment_pending")
        /\ UNCHANGED <<pack, returned, released, piece, worker>>
    BY <1>7, RetryLetterJobDoes
  <2>2. /\ l \notin returned /\ (l \notin JitLetters => ~Revoked(Pack[l]))
        /\ l \notin piece
    BY <1>1, <2>1 DEF Compensated, LetterInv, TakenFits, JobIs, Open
  <2>3. JobFits(l)' /\ TakenFits(l)' /\ ReturnedFits(l)'
    BY <2>1, <2>2 DEF JobFits, TakenFits, ReturnedFits, RowIs
  <2>4. l \in JitLetters => OrderFits(l)' /\ l \notin returned'
    <3>1. l \in JitLetters => order[l].status = "refund_pending"
      BY <1>1, <2>1 DEF LetterInv, OrderFits, OnItsWayBack, RetryableJitRefund
    <3>2. /\ OrderMoves(l, "refund_pending", "fulfillment_pending")
          /\ letter'[l] = "queued" /\ l \notin returned'
      BY <2>1, <2>2
    <3> QED BY <3>1, <3>2 DEF OrderMoves, OrderFits
  <2>5. l \notin JitLetters => MadeGood(l)' /\ Waits(l)'
    BY <2>1, <2>2 DEF MadeGood, Waits, Reversed, Revoked
  <2>6. LetterInv(l)'
    BY <2>3, <2>4, <2>5, RowsTell
  <2> QED BY <1>3, <2>1, <2>6
<1>8. CASE ReleaseHeldLetterJob(l)
  <2>1. /\ OnlyLetter(l) /\ letter' = letter /\ RowIs(l, job[l].status, job[l].outcome)
        /\ l \in released' \/ (job[l].hold # "funding" /\ released' = released)
        /\ l \in released => l \in released'
        /\ UNCHANGED <<order, pack, returned, piece, worker>>
    BY <1>8, ReleaseDoes
  <2>2. JobFits(l)' /\ TakenFits(l)' /\ ReturnedFits(l)'
    BY <1>1, <2>1 DEF LetterInv, JobFits, TakenFits, ReturnedFits, RowIs
  <2>3. l \in JitLetters => OrderFits(l)' /\ l \notin returned'
    BY <1>1, <2>1 DEF LetterInv, OrderFits
  <2>4. l \notin JitLetters => MadeGood(l)' /\ Waits(l)'
    BY <1>1, <2>1 DEF LetterInv, MadeGood, Waits, Revoked, Reversed
  <2>5. LetterInv(l)'
    BY <2>2, <2>3, <2>4, RowsTell
  <2>6. \A w \in Workers : WorkerInv(w)'
    BY <2>1, IdleWorkersKeep
  <2> QED BY <2>1, <2>5, <2>6, OnlyLetterKeeps
<1>9. CASE CancelLeftLetterJob(l) \/ CancelScheduledMail(l)
  <2>1. /\ OnlyLetter(l) /\ l \notin JitLetters /\ letter[l] = "queued"
        /\ JobIs(l, "pending", "not_dispatched")
        /\ letter'[l] = "cancelled" /\ RowIs(l, "cancelled", "not_dispatched")
        /\ ReturnPrepaid(l)
        /\ UNCHANGED <<order, pack, released, piece, worker>>
    BY <1>9, CancelDoes
  <2>2. /\ l \notin piece
        /\ \A w \in Workers : InFlight(w) => worker[w].l # l
    BY <1>1, <2>1 DEF LetterInv, TakenFits, JobIs, Open, CallInv, CallIsOpen
  <2>3. /\ \A k \in Letters \ {l} : k \in returned' <=> k \in returned
        /\ l \in returned' \/ Revoked(Pack[l])
    BY <2>1, ReturnPrepaidReturns
  <2>4. JobFits(l)' /\ TakenFits(l)' /\ ReturnedFits(l)'
    BY <2>1, <2>2 DEF JobFits, TakenFits, ReturnedFits, RowIs
  <2>5. MadeGood(l)' /\ Waits(l)'
    BY <2>1, <2>3 DEF MadeGood, Waits, Revoked
  <2>6. LetterInv(l)'
    BY <2>1, <2>4, <2>5, RowsTell
  <2> QED BY <1>3, <2>1, <2>2, <2>3, <2>6
<1> QED BY <1>4, <1>5, <1>6, <1>7, <1>8, <1>9 DEF OperatorStep

\* Stripe's events and the refund sweep, of a Pay & Send order: the letter is stopped, and
\* the money is on its way back.
LEMMA JitMoneyKeepsStory ==
    ASSUME TypeOK, Story, NEW l \in JitLetters, JitMoney(l) PROVE Story'
<1>1. /\ l \in Letters /\ LetterInv(l) /\ letter[l] \in LetterStatus /\ JobFits(l)
      /\ order'[l].status \in OrderStatus
  BY StepTyped, OutboxAssumption DEF Story, LetterInv, TypeOK, Next, OrderRow
<1>2. /\ \A k \in Letters \ {l} : letter'[k] = letter[k] /\ job'[k] = job[k]
      /\ \A k \in JitLetters \ {l} : order'[k] = order[k]
      /\ UNCHANGED <<pack, returned, released, piece, worker>>
      /\ MoneyGone(l)'
      /\ \/ StopFundedMail(l)
         \/ letter' = letter /\ job' = job /\ order[l].status = "refund_pending"
  BY <1>1, JitMoneyDoes
<1>3. OnlyLetter(l)
  BY <1>1, <1>2, OnlyLetterByRows
<1>4. order'[l].status \in OnItsWayBack
  BY <1>2 DEF MoneyGone, OnItsWayBack
<1>5. \/ /\ letter' = letter /\ job' = job
         /\ \/ letter[l] \in {"draft", "accepted", "failed"}
            \/ order[l].status = "refund_pending"
      \/ /\ letter[l] # "draft" /\ letter'[l] = "cancelled" /\ RowIs(l, "cancelled", "not_dispatched")
         /\ job[l].outcome = "not_dispatched"
      \/ letter[l] # "draft" /\ letter'[l] = "held" /\ RowIs(l, "held", "ambiguous")
  <2>1. CASE StopFundedMail(l)
    BY <1>1, <2>1, StopFundedMailDoes DEF Stopped
  <2> QED BY <1>2, <2>1
<1>6. CASE letter' = letter /\ job' = job /\ (letter[l] \in {"draft", "accepted", "failed"}
                                              \/ order[l].status = "refund_pending")
  <2>1. letter[l] \notin {"queued", "processing"}
    BY <1>1, <1>6 DEF LetterInv, OrderFits
  <2>2. JobFits(l)' /\ TakenFits(l)' /\ ReturnedFits(l)'
    BY <1>1, <1>2, <1>6 DEF LetterInv, JobFits, TakenFits, ReturnedFits
  <2>3. OrderFits(l)'
    BY <1>4, <1>6, <2>1 DEF OrderFits
  <2> QED BY <1>1, <1>2, <1>3, <1>6, <2>2, <2>3, RowsTell, IdleWorkersKeep, OnlyLetterKeeps
          DEF LetterInv
<1>7. CASE /\ letter[l] # "draft" /\ letter'[l] = "cancelled" /\ RowIs(l, "cancelled", "not_dispatched")
           /\ job[l].outcome = "not_dispatched"
  <2>1. l \notin piece /\ l \notin returned
    BY <1>1, <1>7 DEF LetterInv, TakenFits, Open
  <2>2. JobFits(l)' /\ TakenFits(l)' /\ ReturnedFits(l)' /\ OrderFits(l)'
    BY <1>2, <1>4, <1>7, <2>1 DEF JobFits, TakenFits, ReturnedFits, OrderFits, RowIs
  <2>3. LetterInv(l)'
    BY <1>1, <1>2, <2>1, <2>2, RowsTell
  <2>4. \A k \in Letters : letter'[k] = "draft" => letter[k] = "draft"
    BY <1>2, <1>7
  <2> QED BY <1>1, <1>2, <1>3, <2>3, <2>4, IdleWorkersKeep, OnlyLetterKeeps
<1>8. CASE letter[l] # "draft" /\ letter'[l] = "held" /\ RowIs(l, "held", "ambiguous")
  <2>1. l \notin returned
    BY <1>1 DEF LetterInv
  <2>2. JobFits(l)' /\ TakenFits(l)' /\ ReturnedFits(l)' /\ OrderFits(l)'
    BY <1>2, <1>4, <1>8, <2>1 DEF JobFits, TakenFits, ReturnedFits, OrderFits, RowIs, Open
  <2>3. LetterInv(l)'
    BY <1>1, <1>2, <2>1, <2>2, RowsTell
  <2>4. \A k \in Letters : letter'[k] = "draft" => letter[k] = "draft"
    BY <1>2, <1>8
  <2> QED BY <1>1, <1>2, <1>3, <2>3, <2>4, IdleWorkersKeep, OnlyLetterKeeps
<1> QED BY <1>5, <1>6, <1>7, <1>8

\* What Stripe says of a pack: its mail that waits is held before its lots are revoked.
LEMMA PackMoneyKeepsStory ==
    ASSUME TypeOK, Story, NEW p \in Packs, PackMoney(p) PROVE Story'
<1>1. /\ UNCHANGED <<letter, order, returned, piece, worker>>
      /\ \A q \in Packs \ {p} : pack'[q] = pack[q]
      /\ \/ /\ pack'[p] \in {"refund_pending", "swept"} /\ pack[p] \in {"live", "refund_pending"}
            /\ job' = job /\ released' = released
         \/ pack'[p] = "won" /\ pack[p] = "disputed" /\ job' = job /\ released' = released
         \/ pack'[p] \in {"refunded", "disputed"} /\ HoldMailFundedBy(p)
  BY DEF PackMoney, PackRefundPending, PackRefundEvent, PackRefundFoundBySweep, PackDisputeLoss,
     PackDisputeWon, TypeOK
<1>2. \A q \in Packs : Revoked(q) => Revoked(q)'
  BY <1>1 DEF PackMoney, PackRefundPending, PackRefundEvent, PackRefundFoundBySweep,
     PackDisputeLoss, PackDisputeWon, Revoked
<1>3. ASSUME NEW l \in Letters
      PROVE  /\ RowIs(l, job[l].status, job[l].outcome)
             /\ \/ job'[l].hold = job[l].hold /\ (l \in released' <=> l \in released)
                \/ l \in HoldableMailOf(p) /\ job'[l].hold = "funding"
  <2>1. CASE job' = job /\ released' = released
    BY <2>1 DEF RowIs
  <2>2. CASE HoldMailFundedBy(p) /\ l \in HoldableMailOf(p)
    <3>1. job'[l] = [job[l] EXCEPT !.hold = "funding"] /\ job[l] \in JobRow
      BY <2>2 DEF HoldMailFundedBy, TypeOK
    <3> QED BY <2>2, <3>1 DEF RowIs, JobRow
  <2>3. CASE HoldMailFundedBy(p) /\ l \notin HoldableMailOf(p)
    <3>1. job'[l] = job[l] /\ (l \in released' <=> l \in released)
      BY <2>3 DEF HoldMailFundedBy
    <3> QED BY <3>1 DEF RowIs
  <2> QED BY <1>1, <2>1, <2>2, <2>3
<1>4. ASSUME NEW l \in Letters PROVE LetterInv(l)'
  <2>1. LetterInv(l)
    BY DEF Story
  <2>2. JobFits(l)' /\ TakenFits(l)' /\ ReturnedFits(l)'
    BY <1>1, <1>3, <2>1 DEF LetterInv, JobFits, TakenFits, ReturnedFits, RowIs
  <2>3. l \in JitLetters => OrderFits(l)' /\ l \notin returned'
    BY <1>1, <2>1 DEF LetterInv, OrderFits
  <2>4. ASSUME l \notin JitLetters PROVE MadeGood(l)'
    BY <1>1, <1>2, <2>1, <2>4, OutboxAssumption DEF LetterInv, MadeGood
  <2>5. ASSUME l \notin JitLetters PROVE Waits(l)'
    <3>1. SUFFICES ASSUME letter[l] = "queued", Reversed(Pack[l])'
                   PROVE  job'[l].hold = "funding" \/ l \in released'
      BY <1>1 DEF Waits
    <3>2. CASE Reversed(Pack[l])
      BY <1>3, <2>1, <2>5, <3>1, <3>2 DEF LetterInv, Waits
    <3>3. CASE ~Reversed(Pack[l])
      <4>1. Pack[l] = p /\ HoldMailFundedBy(p)
        BY <1>1, <3>1, <3>3, OutboxAssumption DEF Reversed
      <4>2. l \in HoldableMailOf(p)
        BY <2>1, <2>5, <3>1, <4>1 DEF HoldableMailOf, LetterInv, JobFits
      <4>3. job'[l] = [job[l] EXCEPT !.hold = "funding"] /\ job[l] \in JobRow
        BY <4>1, <4>2 DEF HoldMailFundedBy, TypeOK
      <4> QED BY <4>3 DEF JobRow
    <3> QED BY <3>2, <3>3
  <2> QED BY <2>2, <2>3, <2>4, <2>5, RowsTell
<1>5. \A w \in Workers : WorkerInv(w)'
  BY <1>1, IdleWorkersKeep
<1> QED BY <1>4, <1>5 DEF Story

\* The statement that puts claims back moves no letter.
LEMMA SweepPutsBackKeepsStory == ASSUME TypeOK, Story, SweepPutsBack PROVE Story'
<1>1. UNCHANGED <<letter, order, pack, returned, released, piece, worker>>
  BY DEF SweepPutsBack
<1>2. ASSUME NEW l \in Letters PROVE SameLetter(l)
  <2>1. \/ job'[l] = job[l]
        \/ JobIs(l, "processing", "not_dispatched") /\ job'[l] = PutBackRow(job[l])
    BY DEF SweepPutsBack, StaleUndispatched
  <2>2. job[l] \in JobRow
    BY DEF TypeOK
  <2> QED BY <1>1, <2>1, <2>2, PutBackRowSame DEF SameLetter, JobIs
<1>3. \A l \in Letters : LetterInv(l)'
  BY <1>1, <1>2, SameLetterKeeps DEF Story
<1>4. \A w \in Workers : WorkerInv(w)'
  BY <1>1, IdleWorkersKeep
<1> QED BY <1>3, <1>4 DEF Story

\* The invariants about claims, calls and attempts that the story rests on.
Support == TypeOK /\ ClaimInv /\ CallInv /\ SpentInv

\* Every step keeps the story, and what the spent attempts say.
LEMMA StoryStep ==
    ASSUME OperatorWaits, Support, TypeOK', ClaimInv', Story, [Next]_vars
    PROVE  Story' /\ SpentInv'
<1> USE DEF Support
<1>1. CASE UNCHANGED vars
  <2>1. \A l \in Letters : LetterInv(l)'
    BY <1>1, SameLetterKeeps DEF vars, Story, SameLetter
  <2>2. \A w \in Workers : WorkerInv(w)'
    BY <1>1, IdleWorkersKeep DEF vars
  <2>3. SpentInv'
    BY <1>1 DEF vars, SpentInv, FailedIsSpent, JobIs, VerdictHolds
  <2> QED BY <2>1, <2>2, <2>3 DEF Story
<1>2. CASE \E w \in Workers : WorkerStep(w) \/ Crash(w)
  BY <1>2, WorkerGoesOnKeepsStory, ProviderAnswersKeepsStory, MarkKeepsStory, SettleKeepsStory,
     WorkerStepKeepsSpent DEF WorkerStep
<1>3. CASE \E w \in Workers, l \in Letters : ClaimJob(w, l) \/ Sweep(w, l)
  BY <1>3, TakesUpKeepsStory, TakesUpKeepsSpent
<1>4. CASE \E l \in Letters : \/ \E dated \in BOOLEAN : Send(l, dated)
                              \/ BecomesDue(l) \/ LockAges(l)
                              \/ OperatorStep(l) \/ CancelScheduledMail(l)
  BY <1>4, LetterStepKeepsStory, LetterStepKeepsSpent
<1>5. CASE \E l \in JitLetters : JitMoney(l)
  BY <1>5, JitMoneyKeepsStory, OthersKeepSpent
<1>6. CASE \E p \in Packs : PackMoney(p)
  BY <1>6, PackMoneyKeepsStory, OthersKeepSpent
<1>7. CASE SweepPutsBack
  BY <1>7, SweepPutsBackKeepsStory, OthersKeepSpent
<1> QED BY <1>1, <1>2, <1>3, <1>4, <1>5, <1>6, <1>7 DEF Next

\* At the start nothing is sent, and nothing came back.
LEMMA StoryStarts == Init => Support /\ Story
<1> SUFFICES ASSUME Init PROVE Support /\ Story
  OBVIOUS
<1>1. TypeOK /\ ClaimInv /\ CallInv
  BY InitTyped DEF Init, ClaimInv, PendingIsClaimable, AttemptsKept, RetryableIsTrue, NoJob,
     IdleWorker, CallInv, OneCallInFlight, CallIsOpen, InFlight
<1>2. SpentInv
  BY OutboxAssumption DEF Init, SpentInv, FailedIsSpent, JobIs, VerdictHolds, NoJob, IdleWorker
<1>3. ASSUME NEW l \in Letters PROVE LetterInv(l)
  BY DEF Init, LetterInv, JobFits, OrderFits, TakenFits, ReturnedFits, MadeGood, Waits, NoJob
<1>4. \A w \in Workers : WorkerInv(w)
  BY DEF Init, WorkerInv, IdleWorker, InFlight
<1> QED BY <1>1, <1>2, <1>3, <1>4 DEF Support, Story

\* The inductive invariant.
LEMMA StoryAlways == ASSUME OperatorWaits PROVE Spec => [](Support /\ Story)
<1>1. Support /\ Story /\ [Next]_vars => (Support /\ Story)'
  <2> SUFFICES ASSUME Support, Story, [Next]_vars PROVE Support' /\ Story'
    OBVIOUS
  <2>1. TypeOK' /\ ClaimInv' /\ CallInv'
    BY StepTyped, ClaimInvStep, CallInvStep DEF Support
  <2> QED BY <2>1, StoryStep DEF Support
<1> QED BY <1>1, StoryStarts, PTL DEF Spec

\* The letter, its job and its order tell one story in every state: the constraint
\* valid_letter_job_outcome_state of migration 023, and the states that go with it.
THEOREM RowsTellOneStory == ASSUME OperatorWaits PROVE Spec => []RowsAgree
<1>1. Support /\ Story => RowsAgree
  <2> SUFFICES ASSUME Support, Story, NEW l \in Letters
               PROVE  /\ job[l].status = "processing" => job[l].outcome \in {"not_dispatched", "dispatching"}
                      /\ job[l].status = "held" => job[l].outcome = "ambiguous"
                      /\ job[l].status = "completed" <=> job[l].outcome = "accepted"
                      /\ job[l].status \in {"none", "pending", "cancelled"} => job[l].outcome = "not_dispatched"
                      /\ letter[l] = "accepted" <=> job[l].status = "completed"
                      /\ letter[l] = "held" <=> job[l].status = "held"
                      /\ letter[l] = "processing" <=> JobIs(l, "processing", "dispatching")
                      /\ letter[l] = "failed" <=> job[l].status = "failed"
                      /\ l \in JitLetters /\ order[l].status = "fulfillment_pending" =>
                           letter[l] \in {"queued", "processing"}
                      /\ l \in JitLetters /\ order[l].status = "held" => letter[l] \in {"held", "accepted"}
    BY Zenon DEF RowsAgree
  <2>1. JobFits(l) /\ letter[l] \in LetterStatus /\ (l \in JitLetters => OrderFits(l))
    BY DEF Support, TypeOK, Story, LetterInv
  <2>2. l \in JitLetters =>
          /\ order[l].status = "fulfillment_pending" => letter[l] \in {"queued", "processing"}
          /\ order[l].status = "held" => letter[l] \in {"held", "accepted"}
    BY <2>1 DEF OrderFits, OnItsWayBack, LetterStatus
  <2> QED BY <2>1, <2>2 DEF JobFits, JobIs, LetterStatus
<1> QED BY <1>1, StoryAlways, PTL

\* A letter is mailed or made good and never both: nothing comes back for a piece the
\* provider took, no such letter is called failed or cancelled, and a letter that did end
\* so was re-issued, or its lots were revoked, or its order's money is on its way back.
THEOREM MailedXorMadeGood == ASSUME OperatorWaits PROVE Spec => []MailedOrMadeGood
<1>1. Support /\ Story => MailedOrMadeGood
  <2> SUFFICES ASSUME Support, Story, NEW l \in Letters
               PROVE  /\ l \in returned \/ letter[l] \in {"failed", "cancelled"} => l \notin piece
                      /\ letter[l] \in {"failed", "cancelled"} =>
                           IF l \in JitLetters
                           THEN order[l].status \in {"refund_pending", "refunded", "disputed"}
                           ELSE l \in returned \/ Revoked(Pack[l])
    BY DEF MailedOrMadeGood, GivenUpIsNotMailed, EndedUnmailedIsSettled
  <2>1. LetterInv(l)
    BY DEF Story
  <2>2. l \in returned => l \notin piece
    BY <2>1 DEF LetterInv, ReturnedFits
  <2>3. letter[l] \in {"failed", "cancelled"} => l \notin piece
    BY <2>1 DEF LetterInv, JobFits, TakenFits, Open
  <2>4. letter[l] \in {"failed", "cancelled"} =>
           IF l \in JitLetters
           THEN order[l].status \in {"refund_pending", "refunded", "disputed"}
           ELSE l \in returned \/ Revoked(Pack[l])
    BY <2>1 DEF LetterInv, OrderFits, MadeGood, OnItsWayBack
  <2> QED BY <2>2, <2>3, <2>4
<1> QED BY <1>1, StoryAlways, PTL

-----------------------------------------------------------------------------
(* Which step hands a letter over. *)

\* No step but the marker turns a job to dispatching.
LEMMA OnlyTheMarkerDispatches ==
    ASSUME Support, Story, [Next]_vars, NEW k \in Letters, BecomesDispatched(k)
    PROVE  \E w \in Workers : worker[w].l = k /\ MarkProviderDispatch(w)
<1> USE DEF Support
<1>0. job'[k].outcome = "dispatching" /\ job[k].outcome # "dispatching"
  BY DEF BecomesDispatched
<1>1. ASSUME NEW l \in Letters, OnlyLetter(l) PROVE k = l
  BY <1>0, <1>1 DEF OnlyLetter, SameLetter
<1>2. CASE \E w \in Workers : WorkerStep(w) \/ Crash(w)
  <2>1. PICK w \in Workers : WorkerStep(w) \/ Crash(w)
    BY <1>2
  <2>2. CASE ProviderUnavailable(w) \/ MarkRefused(w) \/ ProviderAnswers(w) \/ SettleFails(w)
             \/ RecoverAcceptance(w) \/ Crash(w)
    BY <1>0, <2>2 DEF ProviderUnavailable, MarkRefused, ProviderAnswers, SettleFails,
       RecoverAcceptance, Crash
  <2>l. CASE MarkProviderDispatch(w)
    BY <1>1, <2>l, MarkProviderDispatchDoes
  <2>3. CASE CompleteJob(w)
    BY <1>0, <1>1, <2>3, CompleteJobDoes DEF RowIs
  <2>4. CASE HoldAmbiguousDispatch(w)
    BY <1>0, <1>1, <2>4, HoldAmbiguousDispatchDoes DEF RowIs
  <2>5. CASE FailOrRescheduleJob(w)
    BY <1>0, <1>1, <2>5, FailOrRescheduleJobDoes DEF RowIs
  <2>6. CASE FailBeforeDispatch(w)
    BY <1>0, <1>1, <2>6, FailBeforeDispatchDoes DEF RowIs, SameLetter
  <2>7. CASE MarkPutsBack(w)
    <3>1. /\ worker[w].l \in Letters /\ PutBack(worker[w].l)
          /\ JobIs(worker[w].l, "processing", "not_dispatched")
          /\ UNCHANGED <<letter, order, pack, returned, released, piece>>
      BY <2>7, HasLetter DEF MarkPutsBack, StillThisClaim
    <3> QED BY <1>0, <1>1, <3>1, PutBackSame DEF SameLetter
  <2> QED BY <2>1, <2>2, <2>l, <2>3, <2>4, <2>5, <2>6, <2>7 DEF WorkerStep
<1>3. CASE \E w \in Workers, l \in Letters : ClaimJob(w, l) \/ Sweep(w, l)
  <2>1. job'[k].outcome = job[k].outcome
    BY <1>3 DEF ClaimJob, Sweep, SweepStaleDispatched, SweepStaleUndispatched, TypeOK, JobRow
  <2> QED BY <1>0, <2>1
<1>4. CASE \E l \in Letters : \/ \E dated \in BOOLEAN : Send(l, dated)
                              \/ BecomesDue(l) \/ LockAges(l)
                              \/ OperatorStep(l) \/ CancelScheduledMail(l)
  <2>1. PICK l \in Letters : \/ \E dated \in BOOLEAN : Send(l, dated)
                             \/ BecomesDue(l) \/ LockAges(l)
                             \/ OperatorStep(l) \/ CancelScheduledMail(l)
    BY <1>4
  <2>2. CASE \E dated \in BOOLEAN : Send(l, dated)
    BY <1>0, <1>1, <2>2, SendDoes DEF RowIs
  <2>3. CASE BecomesDue(l) \/ LockAges(l)
    BY <1>0, <1>1, <2>3, ClockDoes DEF SameLetter
  <2>4. CASE ResolveAccepted(l) \/ ResolveRetry(l) \/ ResolveRejected(l)
    BY <1>0, <1>1, <2>4, ResolveDoes DEF RowIs
  <2>5. CASE RetryLetterJob(l)
    BY <1>0, <1>1, <2>5, RetryLetterJobDoes DEF RowIs
  <2>6. CASE ReleaseHeldLetterJob(l)
    BY <1>0, <1>1, <2>6, ReleaseDoes DEF RowIs
  <2>7. CASE CancelLeftLetterJob(l) \/ CancelScheduledMail(l)
    BY <1>0, <1>1, <2>7, CancelDoes DEF RowIs
  <2> QED BY <2>1, <2>2, <2>3, <2>4, <2>5, <2>6, <2>7 DEF OperatorStep
<1>5. CASE \E l \in JitLetters : JitMoney(l)
  <2>1. PICK l \in JitLetters : JitMoney(l)
    BY <1>5
  <2>2. /\ \A j \in Letters \ {l} : job'[j] = job[j]
        /\ StopFundedMail(l) \/ job' = job
        /\ l \in Letters /\ JobFits(l)
    BY <2>1, JitMoneyDoes, OutboxAssumption DEF Story, LetterInv
  <2> QED BY <1>0, <2>2, StopFundedMailDoes DEF Stopped, RowIs
<1>6. CASE \E p \in Packs : PackMoney(p)
  <2>1. job'[k].outcome = job[k].outcome
    BY <1>6 DEF PackMoney, PackRefundPending, PackRefundEvent, PackRefundFoundBySweep,
       PackDisputeLoss, PackDisputeWon, HoldMailFundedBy, TypeOK, JobRow
  <2> QED BY <1>0, <2>1
<1>7. CASE SweepPutsBack
  <2>1. job'[k].outcome = job[k].outcome
    BY <1>7, Zenon DEF SweepPutsBack, PutBackRow, TypeOK, JobRow
  <2> QED BY <1>0, <2>1
<1>8. CASE UNCHANGED vars
  BY <1>0, <1>8 DEF vars
<1> QED BY <1>2, <1>3, <1>4, <1>5, <1>6, <1>7, <1>8 DEF Next

\* And it hands over a letter that waited, was owed, and is free of its pack's reversal.
LEMMA DispatchedLetterWasOwed ==
    ASSUME Support, Story, [Next]_vars, NEW l \in Letters, BecomesDispatched(l)
    PROVE  /\ l \notin piece /\ l \notin returned
           /\ l \notin JitLetters /\ Reversed(Pack[l]) => l \in released
<1>1. PICK w \in Workers : worker[w].l = l /\ MarkProviderDispatch(w)
  BY OnlyTheMarkerDispatches
<1>2. JobIs(l, "processing", "not_dispatched") /\ job[l].hold # "funding"
  BY <1>1, MarkProviderDispatchDoes DEF Support
<1>3. LetterInv(l) /\ letter[l] \in LetterStatus
  BY DEF Support, Story, TypeOK
<1>4. letter[l] = "queued"
  BY <1>2, <1>3 DEF LetterInv, JobFits, JobIs, LetterStatus
<1> QED BY <1>2, <1>3, <1>4 DEF LetterInv, TakenFits, ReturnedFits, Waits, JobIs, Open

\* A letter is handed to the provider only while it is owed: the provider has no piece of
\* it, and nothing was given back for it, however many retries and put-backs came before.
LEMMA OnlyOwedMailIsDispatched == ASSUME OperatorWaits PROVE Spec => DispatchIsOwed
<1>1. Support /\ Story /\ [Next]_vars =>
        [\A l \in Letters : BecomesDispatched(l) => l \notin piece /\ l \notin returned]_vars
  BY DispatchedLetterWasOwed
<1> QED BY <1>1, StoryAlways, PTL DEF Spec, DispatchIsOwed

\* Mail whose pack was refunded by Stripe's event, or disputed, is handed over only after
\* an operator released it (#696).
LEMMA ReversedMailWaits == ASSUME OperatorWaits PROVE Spec => ReversedFundingWaits
<1>1. Support /\ Story /\ [Next]_vars =>
        [\A l \in Letters \ JitLetters :
            BecomesDispatched(l) /\ pack[Pack[l]] \in {"refunded", "disputed", "won"}
                => l \in released]_vars
  BY DispatchedLetterWasOwed DEF Reversed
<1> QED BY <1>1, StoryAlways, PTL DEF Spec, ReversedFundingWaits

\* However many retries, put-backs, refunds and disputes came before, a letter is handed to
\* the provider once, while nothing was given back for it and its funding stands or was looked at.
THEOREM OnlyDueMailIsDispatched == ASSUME OperatorWaits PROVE Spec => DispatchIsDue
BY OnlyOwedMailIsDispatched, ReversedMailWaits DEF DispatchIsDue

-----------------------------------------------------------------------------
(* MailOutbox implements MailFate: the fate of one letter at most moves in a step, and   *)
(* only on: from unsent to owed, and from owed to mailed or cleared.                     *)

Calling(k) == \E w \in Workers : worker[w].pc = "calling" /\ worker[w].l = k

\* What the fate of a letter is told from stays.
SameFate(k) ==
    /\ letter'[k] = "draft" <=> letter[k] = "draft"
    /\ k \in piece' <=> k \in piece
    /\ letter[k] # "draft" => (Cleared(k)' <=> Cleared(k))

\* Once sent, it stays sent, mailed mail stays mailed, and what is cleared stays so.
FateGoesOn(k) ==
    /\ letter[k] # "draft" /\ letter'[k] # "draft"
    /\ k \in piece => k \in piece'
    /\ k \notin piece /\ Cleared(k) => k \notin piece' /\ Cleared(k)'

\* A send makes a letter owed.
FateStarts(k) ==
    letter[k] = "draft" /\ letter'[k] # "draft" /\ k \notin piece' /\ ~Cleared(k)'

OneFateMoves ==
    \E l \in Letters : /\ SameFate(l) \/ FateGoesOn(l) \/ FateStarts(l)
                       /\ \A k \in Letters \ {l} : SameFate(k)

\* Such a step is one of MailFate's, or leaves every fate as it was.
LEMMA OneFateRefines == ASSUME OneFateMoves PROVE [Promise!Next]_fate
<1>1. PICK l \in Letters : /\ SameFate(l) \/ FateGoesOn(l) \/ FateStarts(l)
                           /\ \A k \in Letters \ {l} : SameFate(k)
  BY DEF OneFateMoves
<1>2. \A k \in Letters \ {l} : fate'[k] = fate[k]
  BY <1>1 DEF SameFate, fate
<1>3. \/ fate'[l] = fate[l]
      \/ fate[l] = "unsent" /\ fate'[l] = "owed"
      \/ fate[l] = "owed" /\ fate'[l] \in {"mailed", "cleared"}
  <2>1. CASE SameFate(l)
    BY <2>1 DEF SameFate, fate
  <2>2. CASE FateGoesOn(l)
    BY <2>2 DEF FateGoesOn, fate
  <2>3. CASE FateStarts(l)
    BY <2>3 DEF FateStarts, fate
  <2> QED BY <1>1, <2>1, <2>2, <2>3
<1>4. fate \in [Letters -> {fate[k] : k \in Letters}] /\ DOMAIN fate' = Letters
      /\ fate = [k \in Letters |-> fate[k]] /\ fate' = [k \in Letters |-> fate'[k]]
  BY DEF fate
<1>5. fate' = [fate EXCEPT ![l] = fate'[l]]
  BY <1>2, <1>4
<1>6. fate'[l] = fate[l] => fate' = fate
  BY <1>2, <1>4
<1> QED BY <1>3, <1>5, <1>6 DEF Promise!Next, Promise!Accept, Promise!Mail, Promise!Clear,
         Promise!Becomes

\* The letters a step leaves alone keep their fate.
LEMMA SameLetterSameFate ==
    ASSUME NEW k \in Letters, SameLetter(k), Calling(k)' <=> Calling(k)
    PROVE  SameFate(k)
BY DEF SameLetter, SameFate, Cleared, Calling

\* A debt cleared stays cleared where nothing is asked of the provider anew.
LEMMA ClearedStays ==
    ASSUME NEW k \in Letters, Cleared(k), k \in returned => k \in returned',
           k \in JitLetters /\ MoneyGone(k) => MoneyGone(k)', Calling(k)' => Calling(k)
    PROVE  Cleared(k)'
BY DEF Cleared, MoneyGone, Calling

\* The code moves an order on only from where the money is still its own.
LEMMA MoneyStaysGone ==
    ASSUME NEW k \in JitLetters, MoneyGone(k), NEW from, NEW to, OrderMoves(k, from, to),
           from \in {"paid", "fulfillment_pending", "held"}
    PROVE  MoneyGone(k)'
BY DEF MoneyGone, OrderMoves

\* A worker that is not asking the provider and does not begin to.
LEMMA OtherCallsStay ==
    ASSUME TypeOK, NEW w \in Workers, \A v \in Workers \ {w} : worker'[v] = worker[v],
           worker[w].pc = "calling" => worker'[w].pc = "calling" /\ worker'[w].l = worker[w].l,
           worker'[w].pc = "calling" => worker[w].pc = "calling",
           NEW k
    PROVE  Calling(k)' <=> Calling(k)
BY DEF Calling

\* A call that begins or ends is about one letter.
LEMMA OneCallMoves ==
    ASSUME TypeOK, NEW w \in Workers, \A v \in Workers \ {w} : worker'[v] = worker[v],
           NEW k, worker[w].l # k, worker'[w].pc = "calling" => worker'[w].l # k
    PROVE  Calling(k)' <=> Calling(k)
BY DEF Calling

\* One that ends, or goes on to anything else, is not calling.
LEMMA NotCalling ==
    ASSUME TypeOK, NEW w \in Workers, Finish(w) \/ \E pc \in WorkerPc \ {"calling"} : Goto(w, pc)
    PROVE  worker'[w].pc # "calling"
BY DEF Finish, Goto, TypeOK, WorkerState, IdleWorker

\* Where no worker moves, no call does.
LEMMA IdleCallsStay == ASSUME worker' = worker, NEW k PROVE Calling(k)' <=> Calling(k)
BY DEF Calling

\* A worker's step or death.
LEMMA WorkerStepMovesFate ==
    ASSUME Support, Story, NEW w \in Workers, WorkerStep(w) \/ Crash(w) PROVE OneFateMoves
<1> USE DEF Support
<1>l. PICK l \in Letters : l = worker[w].l
  BY HasLetter, Zenon DEF WorkerStep, Crash, ProviderUnavailable, MarkRefused, MarkPutsBack,
     MarkProviderDispatch, ProviderAnswers, CompleteJob, SettleFails, RecoverAcceptance,
     HoldAmbiguousDispatch, FailOrRescheduleJob, FailBeforeDispatch
<1>0. /\ LetterInv(l) /\ letter[l] \in LetterStatus
      /\ worker[w].pc # "idle" /\ letter[l] # "draft"
  BY <1>l, Zenon DEF Story, WorkerInv, TypeOK, WorkerStep, Crash, ProviderUnavailable, MarkRefused,
     MarkPutsBack, MarkProviderDispatch, ProviderAnswers, CompleteJob, SettleFails,
     RecoverAcceptance, HoldAmbiguousDispatch, FailOrRescheduleJob, FailBeforeDispatch
<1>1. /\ \A v \in Workers \ {w} : worker'[v] = worker[v]
      /\ worker'[w].pc = "calling" => worker'[w].l = l
  <2>1. Finish(w) \/ \E pc \in WorkerPc : Goto(w, pc)
    BY Zenon DEF WorkerStep, Crash, ProviderUnavailable, MarkRefused, MarkPutsBack,
       MarkProviderDispatch, ProviderAnswers, CompleteJob, SettleFails, RecoverAcceptance,
       HoldAmbiguousDispatch, FailOrRescheduleJob, FailBeforeDispatch, WorkerPc
  <2> QED BY <1>l, <2>1 DEF Finish, Goto, TypeOK, WorkerState, IdleWorker
<1>2. \A k \in Letters \ {l} : Calling(k)' <=> Calling(k)
  BY <1>l, <1>1, OneCallMoves
<1>3. ASSUME OnlyLetter(l), SameFate(l) \/ FateGoesOn(l) PROVE OneFateMoves
  BY <1>2, <1>3, SameLetterSameFate DEF OnlyLetter, OneFateMoves
<1>4. CASE ProviderUnavailable(w) \/ MarkRefused(w) \/ SettleFails(w) \/ RecoverAcceptance(w)
           \/ Crash(w) \/ ProviderAnswers(w)
  <2>1. /\ UNCHANGED <<letter, job, order, pack, returned, released>>
        /\ piece' = piece \/ (piece' = piece \cup {l} /\ worker[w].pc = "calling")
        /\ worker'[w].pc # "calling"
    <3>1. Finish(w) \/ \E pc \in WorkerPc \ {"calling"} : Goto(w, pc)
      BY <1>4 DEF ProviderUnavailable, MarkRefused, SettleFails, RecoverAcceptance, Crash,
         ProviderAnswers, WorkerPc
    <3>2. /\ UNCHANGED <<letter, job, order, pack, returned, released>>
          /\ piece' = piece \/ (piece' = piece \cup {l} /\ worker[w].pc = "calling")
      BY <1>l, <1>4 DEF ProviderUnavailable, MarkRefused, SettleFails, RecoverAcceptance, Crash,
         ProviderAnswers
    <3> QED BY <3>1, <3>2, NotCalling
  <2>2. OnlyLetter(l)
    <3>1. \A k \in Letters \ {l} : k \in piece' <=> k \in piece
      BY <2>1
    <3> QED BY <2>1, <3>1, OnlyLetterByRows
  <2>3. worker[w].pc = "calling" => ~Cleared(l)
    BY <1>l DEF Story, WorkerInv, InFlight, Cleared
  <2>4. Calling(l)' => Calling(l)
    BY <1>1, <2>1 DEF Calling
  <2>5. Cleared(l) => Cleared(l)' /\ piece' = piece
    BY <2>1, <2>3, <2>4, ClearedStays DEF MoneyGone
  <2>6. FateGoesOn(l)
    BY <1>0, <2>1, <2>5 DEF FateGoesOn
  <2> QED BY <1>3, <2>2, <2>6
<1>5. CASE MarkProviderDispatch(w)
  <2>1. /\ OnlyLetter(l) /\ JobIs(l, "processing", "not_dispatched")
        /\ letter'[l] = "processing"
        /\ l \in JitLetters => order[l].status = "fulfillment_pending"
        /\ UNCHANGED <<order, pack, returned, released, piece>>
    BY <1>l, <1>5, MarkProviderDispatchDoes
  <2>2. ~Cleared(l)
    BY <1>0, <2>1 DEF LetterInv, JobFits, ReturnedFits, Cleared, JobIs, LetterStatus
  <2>3. FateGoesOn(l)
    BY <1>0, <2>1, <2>2 DEF FateGoesOn
  <2> QED BY <1>3, <2>1, <2>3
<1>6. CASE CompleteJob(w) \/ HoldAmbiguousDispatch(w) \/ FailOrRescheduleJob(w)
           \/ FailBeforeDispatch(w) \/ MarkPutsBack(w)
  <2>1. /\ OnlyLetter(l) /\ piece' = piece /\ letter'[l] # "draft"
        /\ l \in returned => l \in returned'
        /\ l \in JitLetters => \/ order'[l] = order[l]
                               \/ \E to \in OrderStatus : OrderMoves(l, "fulfillment_pending", to)
    <3>1. CASE CompleteJob(w)
      <4>1. order' = order \/ OrderMoves(l, "fulfillment_pending", "fulfilled")
        BY <1>l, <3>1, CompleteJobDoes
      <4> QED BY <1>0, <1>l, <3>1, <4>1, CompleteJobDoes DEF OrderStatus
    <3>2. CASE HoldAmbiguousDispatch(w)
      BY <1>0, <1>l, <3>2, HoldAmbiguousDispatchDoes DEF OrderStatus
    <3>3. CASE FailOrRescheduleJob(w)
      BY <1>0, <1>l, <3>3, FailOrRescheduleJobDoes DEF OrderStatus, ReturnPrepaid
    <3>4. CASE FailBeforeDispatch(w)
      <4>1. piece' = piece
        BY <3>4 DEF FailBeforeDispatch
      <4> QED BY <1>0, <1>l, <3>4, <4>1, FailBeforeDispatchDoes DEF OrderStatus, ReturnPrepaid, SameLetter
    <3>5. CASE MarkPutsBack(w)
      <4>1. /\ PutBack(l) /\ JobIs(l, "processing", "not_dispatched")
            /\ UNCHANGED <<letter, order, pack, returned, released, piece>>
        BY <1>l, <3>5 DEF MarkPutsBack, StillThisClaim
      <4> QED BY <1>0, <4>1, PutBackSame
    <3> QED BY <1>6, <3>1, <3>2, <3>3, <3>4, <3>5
  <2>2. l \in JitLetters /\ MoneyGone(l) => MoneyGone(l)'
    BY <2>1, MoneyStaysGone DEF MoneyGone
  <2>3. Calling(l)' => Calling(l)
    <3>1. worker'[w].pc # "calling"
      <4>1. Finish(w) \/ \E pc \in WorkerPc \ {"calling"} : Goto(w, pc)
        BY <1>6, Zenon DEF CompleteJob, HoldAmbiguousDispatch, FailOrRescheduleJob, FailBeforeDispatch,
           MarkPutsBack, WorkerPc
      <4> QED BY <4>1, NotCalling
    <3> QED BY <1>1, <3>1 DEF Calling
  <2>4. Cleared(l) => Cleared(l)'
    BY <2>1, <2>2, <2>3, ClearedStays
  <2>5. FateGoesOn(l)
    BY <1>0, <2>1, <2>4 DEF FateGoesOn
  <2> QED BY <1>3, <2>1, <2>5
<1> QED BY <1>4, <1>5, <1>6 DEF WorkerStep

\* Taking up a letter asks nothing yet.
LEMMA TakesUpMovesNoFate ==
    ASSUME Support, Story, NEW w \in Workers, NEW l \in Letters, ClaimJob(w, l) \/ Sweep(w, l)
    PROVE  OneFateMoves
<1>1. UNCHANGED <<letter, order, returned, piece>>
  BY DEF ClaimJob, Sweep, SweepStaleDispatched, SweepStaleUndispatched
<1>2. /\ \A v \in Workers \ {w} : worker'[v] = worker[v]
      /\ worker[w].pc = "idle" /\ worker'[w].pc \in {"claimed", "holding", "prefail"}
  BY DEF ClaimJob, Sweep, SweepStaleDispatched, SweepStaleUndispatched, Working, Support, TypeOK
<1>3. \A k \in Letters : Calling(k)' <=> Calling(k)
  BY <1>2 DEF Calling
<1> QED BY <1>1, <1>3 DEF OneFateMoves, SameFate, Cleared, Calling

\* The send starts a letter's fate; the clock, the operator and the customer go on with it.
LEMMA LetterStepMovesFate ==
    ASSUME Support, Story, NEW l \in Letters,
           \/ \E dated \in BOOLEAN : Send(l, dated)
           \/ BecomesDue(l) \/ LockAges(l) \/ OperatorStep(l) \/ CancelScheduledMail(l)
    PROVE  OneFateMoves
<1> USE DEF Support
<1>0. LetterInv(l)
  BY DEF Story
<1>1. worker' = worker /\ piece' = piece
  BY Zenon DEF Send, BecomesDue, LockAges, OperatorStep, ResolveAccepted, ResolveRetry, ResolveRejected,
     RetryLetterJob, ReleaseHeldLetterJob, CancelLeftLetterJob, CancelScheduledMail, CancelPending
<1>2. \A k \in Letters : Calling(k)' <=> Calling(k)
  BY <1>1, IdleCallsStay
<1>3. ASSUME OnlyLetter(l), SameFate(l) \/ FateGoesOn(l) \/ FateStarts(l) PROVE OneFateMoves
  BY <1>2, <1>3, SameLetterSameFate DEF OnlyLetter, OneFateMoves
<1>4. ASSUME OnlyLetter(l), letter[l] # "draft", letter'[l] # "draft",
             l \in returned => l \in returned',
             l \in JitLetters /\ MoneyGone(l) => MoneyGone(l)'
      PROVE  OneFateMoves
  BY <1>1, <1>2, <1>3, <1>4, ClearedStays DEF FateGoesOn
<1>5. CASE \E dated \in BOOLEAN : Send(l, dated)
  <2>1. PICK dated \in BOOLEAN : Send(l, dated)
    BY <1>5
  <2>2. /\ OnlyLetter(l) /\ letter[l] = "draft" /\ letter'[l] = "queued"
        /\ OrderMoves(l, "paid", "fulfillment_pending")
        /\ l \in JitLetters => order[l].status = "paid"
        /\ UNCHANGED <<pack, returned, released, piece, worker>>
    BY <2>1, SendDoes
  <2>3. l \notin piece /\ l \notin returned
    BY <1>0, <2>2 DEF LetterInv, JobFits, TakenFits, ReturnedFits, Open
  <2>4. FateStarts(l)
    BY <2>2, <2>3 DEF FateStarts, Cleared, OrderMoves
  <2> QED BY <1>3, <2>2, <2>4
<1>6. CASE BecomesDue(l) \/ LockAges(l)
  BY <1>2, <1>3, <1>6, ClockDoes, SameLetterSameFate
<1>7. CASE ResolveAccepted(l) \/ ResolveRetry(l) \/ ResolveRejected(l)
  <2>1. /\ OnlyLetter(l) /\ letter[l] = "held" /\ letter'[l] # "draft"
        /\ l \in returned => l \in returned'
        /\ \E to \in OrderStatus : OrderMoves(l, "held", to)
    BY <1>7, ResolveDoes DEF ReturnPrepaid, OrderStatus
  <2> QED BY <1>4, <2>1, MoneyStaysGone
<1>8. CASE RetryLetterJob(l)
  <2>1. /\ OnlyLetter(l) /\ letter[l] = "failed" /\ letter'[l] = "queued" /\ returned' = returned
        /\ l \in JitLetters => order[l].status = "fulfillment_pending" \/ RetryableJitRefund(l)
    BY <1>8, RetryLetterJobDoes
  <2>2. l \in JitLetters => ~MoneyGone(l)
    BY <2>1 DEF MoneyGone, RetryableJitRefund
  <2> QED BY <1>4, <2>1, <2>2
<1>9. CASE ReleaseHeldLetterJob(l)
  <2>1. /\ OnlyLetter(l) /\ letter' = letter /\ UNCHANGED <<order, returned>>
    BY <1>9, ReleaseDoes
  <2>2. SameFate(l)
    BY <1>1, <2>1 DEF SameFate, Cleared
  <2> QED BY <1>3, <2>1, <2>2
<1>10. CASE CancelLeftLetterJob(l) \/ CancelScheduledMail(l)
  <2>1. /\ OnlyLetter(l) /\ l \notin JitLetters /\ letter[l] = "queued"
        /\ letter'[l] = "cancelled" /\ ReturnPrepaid(l)
    BY <1>10, CancelDoes
  <2> QED BY <1>4, <2>1 DEF ReturnPrepaid
<1> QED BY <1>5, <1>6, <1>7, <1>8, <1>9, <1>10 DEF OperatorStep

\* Stripe's events and the refund sweep, of a Pay & Send order.
LEMMA JitMoneyMovesFate ==
    ASSUME Support, Story, NEW l \in JitLetters, JitMoney(l) PROVE OneFateMoves
<1>0. l \in Letters /\ JobFits(l) /\ letter[l] \in LetterStatus
  BY OutboxAssumption DEF Support, Story, LetterInv, TypeOK
<1>1. /\ \A k \in Letters \ {l} : letter'[k] = letter[k] /\ job'[k] = job[k]
      /\ \A k \in JitLetters \ {l} : order'[k] = order[k]
      /\ UNCHANGED <<pack, returned, released, piece, worker>>
      /\ MoneyGone(l)'
      /\ StopFundedMail(l) \/ letter' = letter
  BY <1>0, JitMoneyDoes DEF Support
<1>2. OnlyLetter(l)
  BY <1>0, <1>1, OnlyLetterByRows
<1>3. \A k \in Letters : Calling(k)' <=> Calling(k)
  BY <1>1, IdleCallsStay
<1>4. \A k \in Letters \ {l} : SameFate(k)
  BY <1>2, <1>3, SameLetterSameFate DEF OnlyLetter
<1>5. letter'[l] = "draft" <=> letter[l] = "draft"
  BY <1>0, <1>1, StopFundedMailDoes DEF Stopped, Support
<1>6. Cleared(l) => Cleared(l)'
  BY <1>0, <1>1, <1>3, ClearedStays
<1>7. CASE letter[l] # "draft"
  BY <1>0, <1>1, <1>4, <1>5, <1>6, <1>7 DEF FateGoesOn, OneFateMoves
<1>8. CASE letter[l] = "draft"
  BY <1>0, <1>1, <1>4, <1>5, <1>8 DEF SameFate, OneFateMoves
<1> QED BY <1>7, <1>8

\* What Stripe says of a pack, and the statement that puts claims back, move no fate.
LEMMA RestMovesNoFate ==
    ASSUME SweepPutsBack \/ (\E p \in Packs : PackMoney(p)) \/ UNCHANGED vars
    PROVE  UNCHANGED fate
<1>1. UNCHANGED <<letter, order, returned, piece, worker>>
  BY DEF SweepPutsBack, PackMoney, PackRefundPending, PackRefundEvent, PackRefundFoundBySweep,
     PackDisputeLoss, PackDisputeWon, vars
<1> QED BY <1>1 DEF fate, Cleared

\* Whatever crashes, stalls, retries and refunds come, the outbox does what MailFate
\* promises: no letter is both mailed and cleared, and neither is ever undone.
THEOREM OutboxKeepsPromise == ASSUME OperatorWaits PROVE Spec => KeepsPromise
<1>1. Init => Promise!Init
  BY DEF Init, Promise!Init, fate
<1>2. Support /\ Story /\ [Next]_vars => [Promise!Next]_fate
  <2> SUFFICES ASSUME Support, Story, [Next]_vars PROVE [Promise!Next]_fate
    OBVIOUS
  <2>1. CASE OneFateMoves
    BY <2>1, OneFateRefines
  <2>2. CASE SweepPutsBack \/ (\E p \in Packs : PackMoney(p)) \/ UNCHANGED vars
    BY <2>2, RestMovesNoFate
  <2> QED BY <2>1, <2>2, WorkerStepMovesFate, TakesUpMovesNoFate, LetterStepMovesFate,
          JitMoneyMovesFate DEF Next
<1> QED BY <1>1, <1>2, StoryAlways, PTL DEF Spec, KeepsPromise, Promise!Spec

=============================================================================
