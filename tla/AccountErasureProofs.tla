------------------------ MODULE AccountErasureProofs ------------------------
(* TombstoneIsQuiet for any drafts, packs, disputes and number of crashes, provided     *)
(* that no held mail comes due or is released inside an erasure's transaction.          *)
EXTENDS AccountErasure, TLAPS

\* The run past the rows' locks.
PastRows == run.at \in {"rows", "account", "open"}

Standing(x) == dispute[x] \in {"open", "lost"}

-----------------------------------------------------------------------------
(* The inductive invariant: *)

\* a run works on a queued operation, which has an attempt left,
OpInv ==
    /\ run.at # "idle" => op.status = "pending"
    /\ op.status = "pending" => op.attempts < MAX_OPERATION_ATTEMPTS /\ ~account.erased

\* sends are blocked while a dispute stands, and for a dispute only then,
BlockInv ==
    /\ (\E x \in Disputes : Standing(x)) => account.block # "none"
    /\ account.block = "payment_disputed" => \E x \in Disputes : Standing(x)

\* a draft the run holds is held by nobody else, and what is held, sold or sent was written,
DraftInv ==
    \A d \in Drafts :
       /\ d \in run.has => ~HoldsDraft(d)
       /\ HoldsDraft(d) \/ order[d] # "none" => draft[d] # "none"
       /\ call[d] \in {"sending", "buying"} => draft[d] = "unsent"
       /\ draft[d] # "gone" => mail[d] = "none"
       /\ d \in paused => mail[d] # "none"

\* a letter younger than the rows' locks met no dispute: it waits for no operator, and fails
\* for good only with its payment,
LateInv ==
    PastRows =>
       \A d \in Drafts \ run.rows :
          /\ d \notin paused
          /\ mail[d] \in {"claimed", "calling"} => \A x \in Disputes : ~Standing(x)
          /\ mail[d] = "failed" => order[d] \in {"refund", "settled"}

\* what the gate let through stays so until the writes,
OpenInv == run.at = "open" => ~ErasureBlocked

\* and a tombstone has no call left that could mail, nor a block that could be lifted.
TombInv ==
    account.erased =>
       /\ TombstoneIsQuiet
       /\ \A d \in Drafts : call[d] \notin {"sending", "fulfilling"}
       /\ account.block = "payment_disputed" => \E x \in Disputes : dispute[x] = "lost"

IInv == TypeOK /\ OpInv /\ BlockInv /\ DraftInv /\ LateInv /\ OpenInv /\ TombInv

\* The abbreviations of the model, expanded in every step.
USE DEF MAX_OPERATION_ATTEMPTS, Purchases, AccountIsFree, RowsAreFree, HoldsDraft, HeldMail, Blocker,
        ErasureBlocked, BlockedFor, Idle, ClockIsShared, DisputeMayRun, Unblocks, Counted,
        PastRows, Standing, OpInv, BlockInv, DraftInv, LateInv, OpenInv, TombInv, TombstoneIsQuiet

LEMMA InitInv == Init => IInv
BY ErasureAssumption DEF Init, IInv, TypeOK

LEMMA AnAttemptIsLeft ==
    ASSUME IInv, run.at # "idle"
    PROVE  /\ op.status = "pending" /\ op.attempts \in 0 .. 2 /\ ~account.erased
           /\ op.attempts + 1 \in 0 .. MAX_OPERATION_ATTEMPTS
BY DEF IInv, TypeOK

\* A run that ends without erasing changes only itself and the operation.
LEMMA RunEnds ==
    ASSUME IInv, run' = Idle \/ run' = [Idle EXCEPT !.at = "outside"],
           op' \in [status : {"none", "pending", "succeeded", "failed"},
                    attempts : 0 .. MAX_OPERATION_ATTEMPTS, due : BOOLEAN],
           UNCHANGED <<account, draft, order, mail, paused, dispute, call>>,
           crashes' \in 0 .. MaxCrashes,
           run'.at # "idle" => op'.status = "pending",
           op'.status = "pending" => op'.attempts < MAX_OPERATION_ATTEMPTS,
           ~account.erased
    PROVE  IInv'
<1>1. TypeOK' /\ OpInv'
  BY DEF IInv, TypeOK
<1>2. run'.at \in {"idle", "outside"} /\ run'.has = {}
  OBVIOUS
<1> QED
  BY <1>1, <1>2 DEF IInv, TypeOK

-----------------------------------------------------------------------------
(* The customer's calls and Stripe's payments *)

LEMMA SignsInStep ==
    ASSUME IInv, ~DueMeanwhile, NEW p \in Purchases, SignsIn(p)
    PROVE  IInv'
BY DEF IInv, TypeOK, SignsIn

LEMMA WritesDraftStep ==
    ASSUME IInv, ~DueMeanwhile, NEW d \in Drafts, WritesDraft(d)
    PROVE  IInv'
BY DEF IInv, TypeOK, WritesDraft

LEMMA LocksForSendStep ==
    ASSUME IInv, ~DueMeanwhile, NEW d \in Drafts, LocksForSend(d)
    PROVE  IInv'
BY DEF IInv, TypeOK, LocksForSend

LEMMA SendsStep ==
    ASSUME IInv, ~DueMeanwhile, NEW d \in Drafts, Sends(d)
    PROVE  IInv'
BY DEF IInv, TypeOK, Sends

LEMMA LocksForCheckoutStep ==
    ASSUME IInv, ~DueMeanwhile, NEW d \in Drafts, LocksForCheckout(d)
    PROVE  IInv'
BY DEF IInv, TypeOK, LocksForCheckout

LEMMA ChecksOutPackStep ==
    ASSUME IInv, ~DueMeanwhile, NEW p \in Packs, ChecksOutPack(p)
    PROVE  IInv'
BY ErasureAssumption DEF IInv, TypeOK, ChecksOutPack

LEMMA OpensOrderStep ==
    ASSUME IInv, ~DueMeanwhile, NEW p \in Purchases, OpensOrder(p)
    PROVE  IInv'
<1>1. UNCHANGED <<account, op, run, draft, mail, paused, dispute, crashes>>
  BY DEF OpensOrder
<1>2. TypeOK' /\ OpInv' /\ BlockInv' /\ DraftInv'
  BY DEF IInv, TypeOK, OpensOrder
<1>3. LateInv'
  <2> SUFFICES ASSUME PastRows, NEW d \in Drafts \ run.rows, mail[d] = "failed"
               PROVE  order'[d] \in {"refund", "settled"}
    BY <1>1 DEF IInv
  <2>1. order[d] \in {"refund", "settled"}
    BY DEF IInv
  <2>2. CASE d = p
    BY <2>2 DEF IInv, OpensOrder
  <2>3. CASE d # p
    BY <2>1, <2>3 DEF IInv, TypeOK, OpensOrder
  <2> QED
    BY <2>2, <2>3
<1>4. OpenInv' /\ TombInv'
  BY DEF IInv, TypeOK, OpensOrder
<1> QED
  BY <1>2, <1>3, <1>4 DEF IInv

LEMMA PaymentArrivesStep ==
    ASSUME IInv, ~DueMeanwhile, NEW d \in Drafts, PaymentArrives(d)
    PROVE  IInv'
BY DEF IInv, TypeOK, PaymentArrives

LEMMA FulfilsStep ==
    ASSUME IInv, ~DueMeanwhile, NEW d \in Drafts, Fulfils(d)
    PROVE  IInv'
BY DEF IInv, TypeOK, Fulfils

LEMMA PackIsPaidStep ==
    ASSUME IInv, ~DueMeanwhile, NEW p \in Packs, PackIsPaid(p)
    PROVE  IInv'
BY DEF IInv, TypeOK, PackIsPaid

LEMMA RollsBackStep ==
    ASSUME IInv, ~DueMeanwhile, NEW p \in Purchases, RollsBack(p)
    PROVE  IInv'
BY DEF IInv, TypeOK, RollsBack

LEMMA OrderClosesStep ==
    ASSUME IInv, ~DueMeanwhile, NEW p \in Purchases, OrderCloses(p)
    PROVE  IInv'
BY DEF IInv, TypeOK, OrderCloses

LEMMA RefundSettlesStep ==
    ASSUME IInv, ~DueMeanwhile, NEW d \in Drafts, RefundSettles(d)
    PROVE  IInv'
BY DEF IInv, TypeOK, RefundSettles

-----------------------------------------------------------------------------
(* The outbox, disputes and the operator *)

LEMMA BecomesDueStep ==
    ASSUME IInv, ~DueMeanwhile, NEW d \in Drafts, BecomesDue(d)
    PROVE  IInv'
BY DEF IInv, TypeOK, BecomesDue

LEMMA ClaimJobStep ==
    ASSUME IInv, ~DueMeanwhile, NEW d \in Drafts, ClaimJob(d)
    PROVE  IInv'
BY DEF IInv, TypeOK, ClaimJob

LEMMA MarkProviderDispatchStep ==
    ASSUME IInv, ~DueMeanwhile, NEW d \in Drafts, MarkProviderDispatch(d)
    PROVE  IInv'
BY DEF IInv, TypeOK, MarkProviderDispatch

LEMMA MailTakenStep ==
    ASSUME IInv, ~DueMeanwhile, NEW d \in Drafts, MailTaken(d)
    PROVE  IInv'
BY DEF IInv, TypeOK, MailTaken

LEMMA MailFailsStep ==
    ASSUME IInv, ~DueMeanwhile, NEW d \in Drafts, MailFails(d)
    PROVE  IInv'
BY DEF IInv, TypeOK, MailFails

LEMMA RetryLetterJobStep ==
    ASSUME IInv, ~DueMeanwhile, NEW d \in Drafts, RetryLetterJob(d)
    PROVE  IInv'
BY DEF IInv, TypeOK, RetryLetterJob

LEMMA OperatorReleasesStep ==
    ASSUME IInv, ~DueMeanwhile, NEW d \in Drafts, OperatorReleases(d)
    PROVE  IInv'
BY DEF IInv, TypeOK, OperatorReleases

LEMMA OperatorCancelsStep ==
    ASSUME IInv, ~DueMeanwhile, NEW d \in Drafts, OperatorCancels(d)
    PROVE  IInv'
BY DEF IInv, TypeOK, OperatorCancels

LEMMA DisputeTakesStep ==
    ASSUME IInv, ~DueMeanwhile, NEW x \in Disputes, DisputeTakes(x)
    PROVE  IInv'
BY DEF IInv, TypeOK, DisputeTakes

LEMMA DisputeWonStep ==
    ASSUME IInv, ~DueMeanwhile, NEW x \in Disputes, DisputeWon(x)
    PROVE  IInv'
BY DEF IInv, TypeOK, DisputeWon

LEMMA QueueErasureStep ==
    ASSUME IInv, ~DueMeanwhile, QueueErasure
    PROVE  IInv'
BY DEF IInv, TypeOK, QueueErasure

-----------------------------------------------------------------------------
(* The run *)

LEMMA ClaimOperationStep ==
    ASSUME IInv, ~DueMeanwhile, ClaimOperation
    PROVE  IInv'
BY DEF IInv, TypeOK, ClaimOperation

LEMMA LocksDraftStep ==
    ASSUME IInv, ~DueMeanwhile, NEW d \in Drafts, LocksDraft(d)
    PROVE  IInv'
<1>1. UNCHANGED <<account, op, draft, order, mail, paused, dispute, call, crashes>>
  BY DEF LocksDraft
<1>2. run' = [run EXCEPT !.todo = @ \ {d}, !.has = @ \cup {d}] /\ run.at = "drafts" /\ ~HoldsDraft(d)
  BY DEF LocksDraft
<1>3. /\ run' \in [at : {"idle", "drafts", "rows", "account", "open", "outside"},
                    todo : SUBSET Drafts, has : SUBSET Drafts, rows : SUBSET Purchases]
      /\ run'.at = "drafts" /\ run'.has = run.has \cup {d}
  <2>1. run \in [at : {"idle", "drafts", "rows", "account", "open", "outside"},
                 todo : SUBSET Drafts, has : SUBSET Drafts, rows : SUBSET Purchases]
    BY DEF IInv, TypeOK
  <2> QED
    BY <1>2, <2>1
<1> HIDE <1>2
<1>4. TypeOK'
  BY <1>1, <1>3 DEF IInv, TypeOK
<1>5. OpInv'
  BY <1>1, <1>2, <1>3 DEF IInv
<1>6. DraftInv'
  BY <1>1, <1>2, <1>3 DEF IInv
<1>7. BlockInv' /\ LateInv' /\ OpenInv' /\ TombInv'
  BY <1>1, <1>2, <1>3, <1>5 DEF IInv
<1> QED
  BY <1>4, <1>5, <1>6, <1>7 DEF IInv

LEMMA LocksRowsStep ==
    ASSUME IInv, ~DueMeanwhile, LocksRows
    PROVE  IInv'
<1>1. UNCHANGED <<account, op, draft, order, mail, paused, dispute, call, crashes>>
  BY DEF LocksRows
<1>2. /\ run' = [run EXCEPT !.at = "rows",
                           !.rows = {p \in Purchases :
                                        order[p] # "none" \/ (p \in Drafts /\ mail[p] # "none")}]
      /\ run.at = "drafts"
  BY DEF LocksRows
<1>3. /\ run' \in [at : {"idle", "drafts", "rows", "account", "open", "outside"},
                    todo : SUBSET Drafts, has : SUBSET Drafts, rows : SUBSET Purchases]
      /\ run'.at = "rows" /\ run'.has = run.has
      /\ \A d \in Drafts : d \in run'.rows <=> order[d] # "none" \/ mail[d] # "none"
  BY <1>2 DEF IInv, TypeOK
<1> HIDE <1>2
<1>4. TypeOK'
  BY <1>1, <1>3 DEF IInv, TypeOK
<1>5. OpInv'
  BY <1>1, <1>2, <1>3 DEF IInv
<1>6. DraftInv'
  BY <1>1, <1>3 DEF IInv
<1>7. LateInv'
  BY <1>1, <1>3 DEF IInv
<1>8. BlockInv' /\ OpenInv' /\ TombInv'
  BY <1>1, <1>3, <1>5 DEF IInv
<1> QED
  BY <1>4, <1>5, <1>6, <1>7, <1>8 DEF IInv

LEMMA LocksAccountStep ==
    ASSUME IInv, ~DueMeanwhile, LocksAccount
    PROVE  IInv'
BY DEF IInv, TypeOK, LocksAccount

LEMMA ReadsGateStep ==
    ASSUME IInv, ~DueMeanwhile, ReadsGate
    PROVE  IInv'
<1>1. CASE ErasureBlocked
  <2>1. /\ run.at = "account" /\ run' = Idle
        /\ op' = [op EXCEPT !.status = "failed", !.attempts = @ + 1]
    BY <1>1 DEF ReadsGate
  <2>2. op' \in [status : {"none", "pending", "succeeded", "failed"},
                 attempts : 0 .. MAX_OPERATION_ATTEMPTS, due : BOOLEAN]
    BY <2>1, AnAttemptIsLeft DEF IInv, TypeOK
  <2> QED
    BY <2>1, <2>2, AnAttemptIsLeft, RunEnds DEF ReadsGate, IInv, TypeOK
<1>2. CASE ~ErasureBlocked
  <2>1. /\ run.at = "account" /\ run' = [run EXCEPT !.at = "open"]
        /\ UNCHANGED <<account, op, draft, order, mail, paused, dispute, call, crashes>>
    BY <1>2 DEF ReadsGate
  <2>2. OpenInv'
    BY <1>2, <2>1
  <2>3. TypeOK' /\ OpInv' /\ DraftInv' /\ LateInv'
    BY <2>1 DEF IInv, TypeOK
  <2> QED
    BY <2>1, <2>2, <2>3 DEF IInv, TypeOK
<1> QED
  BY <1>1, <1>2

LEMMA ErasesStep ==
    ASSUME IInv, ~DueMeanwhile, Erases
    PROVE  IInv'
<1>1. /\ run.at = "open" /\ run' = Idle /\ account'.erased
      /\ op' = [op EXCEPT !.status = "succeeded", !.attempts = @ + 1]
      /\ UNCHANGED <<order, paused, dispute, call, crashes>>
  BY DEF Erases
<1>2. TypeOK' /\ OpInv'
  <2>1. op' \in [status : {"none", "pending", "succeeded", "failed"},
                 attempts : 0 .. MAX_OPERATION_ATTEMPTS, due : BOOLEAN]
    BY <1>1, AnAttemptIsLeft DEF IInv, TypeOK
  <2>2. /\ account' \in [erased : BOOLEAN, block : {"none", "payment_disputed", "account_erased"}]
        /\ draft' \in [Drafts -> {"none", "unsent", "gone"}]
        /\ mail' \in [Drafts -> {"none", "held", "pending", "claimed", "calling", "failed", "over"}]
    BY DEF IInv, TypeOK, Erases
  <2> QED
    BY <1>1, <2>1, <2>2 DEF IInv, TypeOK
<1>3. BlockInv' /\ DraftInv' /\ LateInv' /\ OpenInv'
  BY DEF IInv, TypeOK, Erases
<1>4. TombInv'
  BY DEF IInv, TypeOK, Erases
<1> QED
  BY <1>2, <1>3, <1>4 DEF IInv

LEMMA LockConflictStep ==
    ASSUME IInv, ~DueMeanwhile, LockConflict
    PROVE  IInv'
BY DEF IInv, TypeOK, LockConflict

LEMMA UnexpectedFailureStep ==
    ASSUME IInv, ~DueMeanwhile, UnexpectedFailure
    PROVE  IInv'
<1>1. run.at # "idle" /\ run' = Idle /\ op' = Counted(op)
  BY DEF UnexpectedFailure
<1>2. op' \in [status : {"none", "pending", "succeeded", "failed"},
               attempts : 0 .. MAX_OPERATION_ATTEMPTS, due : BOOLEAN]
  BY <1>1, AnAttemptIsLeft DEF IInv, TypeOK
<1>3. op'.status = "pending" => op'.attempts < MAX_OPERATION_ATTEMPTS
  BY <1>1, AnAttemptIsLeft DEF IInv, TypeOK
<1> QED
  BY <1>1, <1>2, <1>3, AnAttemptIsLeft, RunEnds DEF UnexpectedFailure, IInv, TypeOK

LEMMA BookkeepingFailsStep ==
    ASSUME IInv, ~DueMeanwhile, BookkeepingFails
    PROVE  IInv'
BY DEF IInv, TypeOK, BookkeepingFails

LEMMA RecordAttemptOutsideStep ==
    ASSUME IInv, ~DueMeanwhile, RecordAttemptOutside
    PROVE  IInv'
<1>1. run.at # "idle" /\ run' = Idle /\ op' = Counted(op)
  BY DEF RecordAttemptOutside
<1>2. op' \in [status : {"none", "pending", "succeeded", "failed"},
               attempts : 0 .. MAX_OPERATION_ATTEMPTS, due : BOOLEAN]
  BY <1>1, AnAttemptIsLeft DEF IInv, TypeOK
<1>3. op'.status = "pending" => op'.attempts < MAX_OPERATION_ATTEMPTS
  BY <1>1, AnAttemptIsLeft DEF IInv, TypeOK
<1> QED
  BY <1>1, <1>2, <1>3, AnAttemptIsLeft, RunEnds DEF RecordAttemptOutside, IInv, TypeOK

LEMMA DiesStep ==
    ASSUME IInv, ~DueMeanwhile, Dies
    PROVE  IInv'
BY ErasureAssumption DEF IInv, TypeOK, Dies

LEMMA HourPassesStep ==
    ASSUME IInv, ~DueMeanwhile, HourPasses
    PROVE  IInv'
BY DEF IInv, TypeOK, HourPasses

-----------------------------------------------------------------------------

LEMMA Inductive == ~DueMeanwhile => (IInv /\ [Next]_vars => IInv')
<1> SUFFICES ASSUME ~DueMeanwhile, IInv, [Next]_vars PROVE IInv'
  OBVIOUS
<1>1. CASE UNCHANGED vars
  BY <1>1 DEF vars, IInv, TypeOK
<1>2. ASSUME NEW d \in Drafts,
             \/ SignsIn(d) \/ WritesDraft(d) \/ LocksForSend(d) \/ LocksForCheckout(d)
             \/ PaymentArrives(d) \/ CallEnds(d) \/ OrderCloses(d) \/ RefundSettles(d)
      PROVE  IInv'
  BY <1>2, SignsInStep, WritesDraftStep, LocksForSendStep, LocksForCheckoutStep, PaymentArrivesStep,
     SendsStep, OpensOrderStep, FulfilsStep, RollsBackStep, OrderClosesStep, RefundSettlesStep DEF CallEnds
<1>3. ASSUME NEW d \in Drafts,
             \/ BecomesDue(d) \/ ClaimJob(d) \/ MarkProviderDispatch(d) \/ MailTaken(d) \/ MailFails(d)
             \/ RetryLetterJob(d) \/ OperatorReleases(d) \/ OperatorCancels(d) \/ LocksDraft(d)
      PROVE  IInv'
  BY <1>3, BecomesDueStep, ClaimJobStep, MarkProviderDispatchStep, MailTakenStep, MailFailsStep,
     RetryLetterJobStep, OperatorReleasesStep, OperatorCancelsStep, LocksDraftStep
<1>4. ASSUME NEW p \in Packs,
             \/ SignsIn(p) \/ ChecksOutPack(p) \/ OpensOrder(p) \/ RollsBack(p)
             \/ PackIsPaid(p) \/ OrderCloses(p)
      PROVE  IInv'
  BY <1>4, SignsInStep, ChecksOutPackStep, OpensOrderStep, RollsBackStep, PackIsPaidStep, OrderClosesStep
<1>5. ASSUME NEW x \in Disputes, DisputeTakes(x) \/ DisputeWon(x)
      PROVE  IInv'
  BY <1>5, DisputeTakesStep, DisputeWonStep
<1>6. CASE QueueErasure \/ ClaimOperation \/ RunAdvances
  BY <1>6, QueueErasureStep, ClaimOperationStep, LocksRowsStep, LocksAccountStep, ReadsGateStep,
     ErasesStep, LockConflictStep, RecordAttemptOutsideStep DEF RunAdvances
<1>7. CASE UnexpectedFailure \/ BookkeepingFails \/ Dies \/ HourPasses
  BY <1>7, UnexpectedFailureStep, BookkeepingFailsStep, DiesStep, HourPassesStep
<1> QED
  BY <1>1, <1>2, <1>3, <1>4, <1>5, <1>6, <1>7 DEF Next

\* The types of the model's state, of which the account's block and the operation's attempts are
\* bounds the code keeps (MAX_OPERATION_ATTEMPTS, COALESCE of the block's reason).
THEOREM ErasureTypeCorrect == ~DueMeanwhile => (Spec => []TypeOK)
<1> SUFFICES ASSUME ~DueMeanwhile PROVE Spec => []TypeOK
  OBVIOUS
<1>1. IInv => TypeOK
  BY DEF IInv
<1> QED
  BY <1>1, InitInv, Inductive, PTL DEF Spec

\* Nothing of an erased account moves (eraseAccountWithClient): for any drafts, packs, disputes
\* and crashes, if no held mail comes due or is released inside an erasure's transaction.
THEOREM ErasedIsQuiet == ~DueMeanwhile => (Spec => []TombstoneIsQuiet)
<1> SUFFICES ASSUME ~DueMeanwhile PROVE Spec => []TombstoneIsQuiet
  OBVIOUS
<1>1. Init => IInv
  BY InitInv
<1>2. IInv /\ [Next]_vars => IInv'
  BY Inductive
<1>3. IInv => TombstoneIsQuiet
  BY DEF IInv
<1> QED
  BY <1>1, <1>2, <1>3, PTL DEF Spec
=============================================================================
