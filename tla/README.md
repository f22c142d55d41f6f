# Letter IRL: a verification development

TLA+ models of the parts of the Letter IRL API in which money and mail can come apart:
the checkout that takes a payment for a draft, the requests that send it, the outbox that takes
a paid letter to the printer, the sync that follows it through the post, the ledger, the gift
letters and the image allowance that pay for it, the refunds that take the payment back, and the
erasure of an account while all of them go on.
Each model is translated from `src/src/`; TLC checks it on small instances and TLAPS proves
its main properties for every instance.

Line numbers in this file are of `src/src/services/` unless a path says otherwise.

## 1. The system

A customer talks to the API process through MCP tools, widgets or REST; an hourly
maintenance process (`cli/runMaintenance.ts`) and an operator panel (`admin/`) work on the
same Postgres database. Stripe takes payments and sends webhooks, PostGrid prints and posts,
Auth0 signs people in. There is no in-memory state that matters: **the processes interact
through rows, row locks and the provider**. Transactions take locks in one canonical order
(drafts, orders, letters, jobs, image reservations, users, credit ledger, entitlements), so
each transaction is one atomic step; everything hard happens between transactions.

| component | state | operations | hard behaviour | what makes it correct |
|---|---|---|---|---|
| Mail outbox (`letterJobService`) | `letters`, `letter_jobs`, the funding order | send, claim, mark dispatch, call the provider, complete, hold, fail, sweep stale claims, retry / release / resolve / cancel | several processors; crashes between transactions; provider answers that are late, lost or unclear | no letter is both mailed and paid back; at most one request in flight; nothing is stranded |
| Scheduled mail (`scheduledMailService`) | `mail_hold_until` of the job | send with a date, come due, cancel | the cancel against the claim | as above |
| Status sync (`statusSyncService`) | `letters.status`, carrier number, history, alert | list, ask, store number, write status, write history, fail a cancelled letter | reads long before it writes, concurrent runs, each statement may fail | the alert agrees with the money; printed mail is left to a person; ends settle |
| Credit ledger (`creditLedgerService`) | `credit_ledger` lots, `users.credits`, consumption rows | grant, deduct, return, expire, reconcile | a cached balance beside the lots; a daily task that writes what it read earlier | no credit out of nothing; the cache covers and returns to the ledger |
| Commerce (`commerceService`) | `orders`, `stripe_disputes`, `stripe_webhook_events` | checkout, fulfil, refund, dispute, sweeps | webhooks duplicated, late and out of order against sweeps | one fulfilment per payment; reversed funding stops mail |
| Pack refunds (`packRefundService`) | order, lots, request row | request, call Stripe, settle, compensate, reconcile | the provider call between two transactions | only unspent credits go back, once |
| Gift letters (`giftLetterService`, `promoService`) | gift rows, printed codes, campaigns and claims | grant, send, redeem, claim, return, revoke | two redeemers of one code; a failed letter against its redeemed code; reversal against both | each grant starts a path of bounded cost; what was reversed stays gone |
| Sending drafts (`mailSendService`, `draftService`) | drafts and versions | edit, preview, confirm, send | an edit against a send; a repeated send; counts before inserts | what is printed is what was approved, once; no cap is passed; no deadlock |
| Image generation (`imageGenerationLimitService`) | reservations, entitlements | reserve, dispatch, commit, release, reconcile | crashed and ambiguous generations | no allowance lost or used twice |
| Limits (`betaSpendLimits`, `dailyLimits`, `api/middleware/rateLimit`) | counters, windows | check, charge | check then charge | never over the cap |
| Retention and erasure (`retentionService`, `accountErasureService`) | letter contents, accounts | redact, hold, erase | erasing while money or mail is open | open business is never erased |
| Address requests, tokens, uploads | one table each | create, answer, cancel, expire | expiry against answer | one outcome per request |
| Operator panel (`admin/commands/runner`, `admin/http`) | audit rows, account versions, elevation | run a command, elevate, queue | two operators on one account | a command acts on what its operator saw |
| Maintenance (`maintenanceTaskService`) | `maintenance_tasks` | claim a task for an hour, run, release | a task longer than its hour | tasks repeat until done |
| Rendering, tools, routes, configuration | none of their own | parse, lay out, format | none between steps | covered by the unit tests |

## 2. The modules

| module | models | lines of code behind it |
|---|---|---|
| `MailOutbox` | the outbox, scheduled mail, the operator's decisions about letters, and what refunds and disputes do to mail | `letterJobService`, `scheduledMailService`, `heldMail`, parts of `commerceService` |
| `MailFate` | the abstract promise: a letter sent is owed until it is mailed or its debt is cleared, never both | (none: a specification) |
| `StatusSync` | a letter's record after the provider took it | `statusSyncService`, `failProviderCancelledLetter`, PostGrid's status map |
| `CreditLedger` | the lots, the cached balance, and what refunds and disputes do to both | `creditLedgerService`, `creditExpirationWorker`, parts of `commerceService` |
| `PayAndSend` | one draft and the ways it can be paid for: checkouts, edits and a send from the balance | `createJitCheckout`, Stripe's checkout events and the sweep of checkouts in `commerceService`, `stripeService`, `draftService`, `mailSendService` |
| `PackPayments` | letter packs between Stripe and the rows: checkout, payment, refund and dispute, heard in any order, with or without an order to match | `createPackCheckout`, Stripe's checkout, refund and dispute events, the recovery of unmatched money and the sweep of refunds in `commerceService` |
| `PackRefunds` | a refund of some of a pack's letters, between the operator, Stripe and the sweep | `packRefundService`, the refund events in `commerceService` |
| `SendRequests` | concurrent sends, checkouts, payments and refunds, lock by lock | `mailSendService`, `betaSpendLimits`, `dailyLimits`, `mailDateCapacity`, `duplicateMailService`, `prepareJitOrder` and the fulfilment in `commerceService` |
| `GiftCodes` | gift letters and the codes that pass them on | `giftLetterService`, `promoService`, `codeRedemptionService` |
| `GiftChain` | the abstract promise: each grant starts a path, never a tree | (none: a specification) |
| `ImageReservations` | the allowance of generated images | `imageGenerationLimitService`, the tool that generates |
| `AccountErasure` | the erasure of an account and its queue, beside all that acts for the account | `accountErasureService`, `adminOperationsQueue`, the `account.erase` command, and of the others what meets its locks |
| `MC*` | the instances TLC explores | |
| `*Proofs` | the theorems about the component each is named for; `CreditProofs` is about `CreditLedger` and `PackRefunds`, `CheckoutProofs` about `PayAndSend` and `PackPayments` | |

The modules meet at the rows they share: `PayAndSend` ends where `MailOutbox` begins, with a
queued letter and an order in `fulfillment_pending`, and keeps of the outbox only how it ends;
`StatusSync` begins with a letter the provider accepted; `CreditLedger` sees the same refund and
dispute events as `MailOutbox`, by what they do to lots. `SendRequests` opens the transactions
that the others take as one step: it holds the locks they assume. `PackRefunds` keeps a pack's
letters as counts, which `CreditLedger` keeps as lots, and `PackPayments` as there or taken; `GiftCodes` and `ImageReservations` see
a reversed order by what it takes from them. `AccountErasure` keeps of a letter only whether it can
still move, and opens at its locks every transaction the erasure meets.

### MailOutbox

*State.* `letter` is `letters.status`; `job` the row of `letter_jobs` (status, provider
outcome, attempts and limit, hold reason, whether it is dated, due, stale, resolved); `order`
the Pay & Send order; `pack` the state of a letter pack and its lots; `returned` and
`released` are read by the code from ledger and audit rows. `piece` is the provider's truth,
which the code cannot read. `worker` is the local state of each thread of control (a send's
inline dispatch, maintenance, an admin command): which row it read, and what comes next.

*Actions* carry the names of the functions. A worker's way is `ClaimJob`,
`MarkProviderDispatch` (or `MarkRefused`, `MarkPutsBack`), `ProviderAnswers`, then one of
`CompleteJob`, `FailOrRescheduleJob`, `HoldAmbiguousDispatch`, with
`RecoverAcceptance` when recording an acceptance failed, and `FailBeforeDispatch` when
processing failed before the mark. `Crash` forgets a worker at any point; `LockAges` lets its lock go
stale under it while it is still alive. The sweeps read stale jobs first
(`SweepStaleDispatched`, `SweepStaleUndispatched` put a worker on a job they listed) and settle
each later, so that a settlement on an old row is possible in the model as in the code.

*Choices.* `Blocked` is derived from the disputes that stand, as the code keeps the column.
The order's error code is not kept: among reachable states, "refund pending, not refunding,
job failed definitely and unresolved" is exactly the code `PROVIDER_SUBMISSION_FAILED`. A
paused outbox is a `ClaimJob` that is not taken. The operator is truthful (confirms
acceptance only of a piece the provider has). `OperatorWaits` says that an operator decides about a
dispatch only once its call has ended; it is `FALSE` in the run about late rejections.
A gift letter follows the prepaid path. A loss of a dispute takes a pack whatever its order has come to, as
`processDisputeEvent` asks nothing of the order's status. Not modelled here: a request that reaches the
provider after its caller timed out; the lapse of milliseconds between reading a pack's mail
and revoking its lots that `src/docs/letter-send-flow.md:564` accepts.

### StatusSync

*State.* The record (`letter`, `carrier`, `returned`, `alert`, `history`), the provider's truth
(`mail`, `number`), `aged` for letters past the sync's window, `unreturnable` for those of which
nothing is left to give back, and for each run what it has listed and been told. `letter_status_history` is kept as the set of statuses written.
*Actions.* `List` is the SELECT, `Ask` / `AskFails` the provider's answer, then `StoreNumber`,
`WriteStatus`, `WriteHistory`, each its own statement that may fail, or
`FailProviderCancelled`, one transaction under the outbox's locks. `FundingLost` is what
`revokePackLots` does to a letter already sent, at any time before or after the cancel: its depleted lots are
revoked, or its gift is marked reversed (a redeemed code counts as well); `PaidBack` then gives nothing, as
`returnPrepaidCreditsForFailedLetter` does. A letter whose lots are revoked in part counts as one that is not.
Runs may overlap: the
maintenance run's claim on its task lasts an hour (`maintenanceTaskService.ts:26`), and the
admin command claims nothing. `CancelsLate` lets the provider cancel a piece it began to
print, which its documentation rules out and the code nevertheless handles. A dry run
writes nothing and is left out.

### CreditLedger

*State.* One account: `lots` in order of creation, `credits` the cached balance, what each
send took, order and dispute statuses, a `clock` for expiry, and `unfixed`, what
the daily task read and has yet to write. The audit rows of a revocation are the fields
`takenBy` and `held` of its lot. *Actions.* Every balance mutation is one transaction under the
account's lock: `Grant`, `Deduct`, `Return`, `RefundSucceeds`, `Loss`, `Lost`, `Won`.
`reconcileBalances` is not: `ReconcileReads` and `ReconcileWrites` are two statements with
anything in between. `CHECK (credits >= 0)` (migration 001) is a guard of `Deduct`.
`QuietReconcile` excludes mutations in between; `CoverIsKept`, checked without it, says that nothing but
that second statement takes the balance below the lots, where no other credits outlive the
pack. Section 5 has the two divergences this leaves out.
Proportional revocations are in `PackRefunds`.

### PayAndSend

*State.* `draft` (status, version of the content, and what consumed it), the letter it became,
`order` (one row per checkout of the draft: status, recorded Stripe request, the version shown,
whether the session is attached, what is left of its window), `call` (where each
`createJitCheckout` in flight is), `session` (Stripe's truth), `linked` (the orders whose URL
somebody was given), `claimed` (events) and `listed` (what the sweep read and has yet to ask
about).

*Actions.* A checkout call is `Insert` or `Reuse` (`prepareJitOrder`, one transaction under the
draft's lock; `HandBack` and `RefuseSchedule` are its other ends), `StripeOpens` with nothing
locked, and `Attach`; it fails by `FailTransiently` or `FailTerminally`, and its answer may be
lost. `Webhook` and `Reconcile` are the same transaction, `processCheckoutSessionEvent`, under
two event ids. The rest are `Edit`, `SendFromBalance`, `OutboxEnds`, `DraftExpires`, the
sweeps, and what the customer, the bank, Stripe and time do.

*Choices.* `paid` is written and left in one transaction, so no row keeps it, and
`fulfillPaidOrder`, which looks for such rows, is left out. A payment of the wrong amount goes
the way of a rejected fulfilment, to `refund_pending`. That an operator looks at it first, and the
provider call of a refund, are left out: `RefundSucceeds` is the end of both. Refusals that
change nothing (caps, duplicates, a changed price, a product mismatch, a blocked account) are
actions not taken; an event about a session whose payment is still on its way changes no row. A
window is not past while a call to Stripe is in flight: it has half an hour left when the call
begins. Disputes and unmatched money are not modelled here; `PackPayments` has them, for packs. `LoneFaults` says that a
configuration fault meets only an order without a session; section 5 says what happens otherwise.

### PackPayments

*State.* One account's packs: `status`, `code` and whether the order is `known` by its payment
intent; how often its letters were granted, whether they are `live`, and what a dispute `took`; the
dispute's `row`, whether it is `ours` (names the account), and the account's block. `event` has, of
each event Stripe can send about a payment, how far its hearing is. `checkout`, `refund` and
`dispute` are Stripe's truth; `opening` and `asked` where the two calls to Stripe made with nothing
locked are.

*Actions.* A checkout is `InsertsOrder`, `OpensSession`, `AttachCheckout`, or one of its failures.
A checkout event (the webhook's, or the sweep's own of a session it retrieved) is one transaction with
five ends: `FindsNoOrder`, `RecoversMoney`, `CheckoutFails`, `TransitionPaidCheckout`, and for a session of an
earlier version the adoption of an order first. A refund or dispute that finds its order is `HearsRefund`,
`HearsDispute`. One that does not is two steps or three, for the checkout event that tells the
intent may commit in between: `DisputeFindsNoOrder` looks, `LooksAgain` looks once more under the
dispute's locks, `RecordsUnmatchedDispute` commits. `DisputeIsFree` is the advisory lock and the row lock
`applyRecoveredDisputes` waits for, which differ in whether the order had its intent. The sweep is
`SweepAsks`, then `SweepRecords`, `SweepFails` or `SweepDies`.

*Choices.* A payment has at most one dispute, a session at most one order, and each event one
delivery that is heard: a repetition is refused by `claimStripeEvent`, and a delivery that fails is sent
again. What a webhook holds of the pack's mail is in `MailOutbox`; a command's proportional refund,
which is not the order's own, in `PackRefunds`; the credits themselves in `CreditLedger`. The limit of the
sweep's attempts is left out: the model may always try again. `odd` are the packs whose session is of
another amount than the pack's price. `late` is no state of the code: it remembers the packs whose
unmatched money was recovered after another checkout event had told the intent.

### PackRefunds

*State.* The pack's `order`, its letters in counts (`left`, `spent`, `taken` whole, taken `back` by
commands), the money on the books, the `row` of each command, the open alerts, and Stripe's
truth: the statuses each refund `had`, what its idempotency `key` still answers, what the
dashboard refunded (`rest`). *Actions.* A command is `RefundPackLetters` (one transaction: checks,
letters taken, row written), the call with nothing locked, and the transaction that records the
answer. `RefundEvent` and `ChargeEvent` are webhooks, `SweepLists` and `SweepPending` the hourly
reconciliation; each settles through the same `SettleSuccess`, `SettleFailure` and `Compensate`
as the code. A worker may crash anywhere, an answer be lost, a key expire, the bank return a
refund that had succeeded. *Choices.* One unit of money is the price of a letter. `OneRefunder`
says that nobody refunds the rest in Stripe's dashboard while a command is under way: section 5 says what
happens otherwise.

### SendRequests

*State.* `letters`, the live `order` of each draft, what each account has left, which packs were
refunded, and `call`, the transaction each connection runs. `at` names the last lock or check it
has behind it, from which the `Holds...` operators tell its locks. *Actions.* One action per lock
or check: `SendLocksDraft`, `SendCountsDate` (the date's advisory lock), `SendTakesFunds` (the
account's row), `CountsAccount`, `CountsGlobal`, `SendCountsGifts` (the caps' advisory locks),
`SendComparesMail`, `SendCommits`, and the like for a checkout, the fulfilment of a payment and a
full refund. Writes happen at the commit, so another transaction sees none of them
before; a statement sees what had committed when it began (`READ COMMITTED`). `CheckoutInserts`
shares the account's row, which a foreign key locks; `RollsBack` is a refusal, an error or a lost
connection. *Choices.* A count and its comparison are one statement's step. Caps are those of one
day and one month at once, as a day of the model has no end. A draft is known by what it prints (`Mail`) and when (`MailOn`).

### GiftCodes

*State.* `gifts`, keyed by what granted each (the table's unique source and reference), each with its
status, the letter it paid for and the code that letter printed; `campaign`, `claims`, what
`reversed` an order's money, and the reading each `call` made before its transaction.
*Actions.* `RedeemReads` and `RedeemCommits`, `ClaimReads` and `ClaimCommits` are the reading
outside and the transaction inside; `SendsGift`, `SendFails` (a refusal, an expiry or a cancel of the
letter), `Resends` by an operator, `ReversesPack` by a refund or a dispute, `CodeEnds` for an operator's
void and a code's last day, which every reader treats alike, `GiftLapses`, and an operator's moves
of a campaign. *Choices.* Only campaigns that grant a gift letter are modelled. The code uses the
gift letter that expires first, the model any. A claim that commits after a campaign's end date is
accepted, as in the code, where the transaction compares only the status and the cap.
*Refinement.* `Path == INSTANCE GiftChain`: `ChainOf` maps the family of a grant to where its one
end is. A family with two ends is "tree", which no step of `GiftChain` allows.

### ImageReservations

*State.* Entitlements (`ent`, `past` their expiry), the `used` counter, reservations and their
leases, how far each `call` is, what the provider `made`, and the operator's decisions. *Actions.* A
call is `CheckCeiling`, `ReserveGeneration`, `MarkDispatched`, `ProviderAnswers`, then
`CommitGeneration` or one of its failures; each commit may be heard of or not; a call
may die anywhere. `Reconcile` is the hourly maintenance, `Resolve` the operator's decision about an
ambiguous generation. *Choices.* A call makes one reservation (a retry by the customer is another call).
Entitlements expire though no path of today's code gives one an expiry: the columns and the
sweep are there. Where images are stored is left out.

### AccountErasure

*State.* One account: `account` (tombstone or not, and why its sends are blocked), `op` the queued
operation, `run` the erasure's transaction (how far it is, which drafts and rows it holds), and what
acts for the account: `draft`, `order`, `mail`, `paused` (held for its funding), `dispute`, and
`call`, where each tool call, checkout or webhook is. *Actions.* The run is `ClaimOperation`, one
`LocksDraft` for each draft there was at its first statement, `LocksRows`, `LocksAccount`, `ReadsGate`,
`Erases`; it ends early by `LockConflict` (not counted), `UnexpectedFailure` (counted under the
savepoint), `BookkeepingFails` and `RecordAttemptOutside` (counted by a statement of its own), or `Dies`,
and is tried again when `HourPasses`. A send is `LocksForSend` and `Sends`, a checkout `LocksForCheckout` and
`OpensOrder`, a pack's `ChecksOutPack` and `OpensOrder`, a fulfilment `PaymentArrives` and `Fulfils`: each
waits for a draft, a row or the account where the code's statement would. The outbox, disputes and the
operator's decisions about mail are one step each, under the rows they lock. *Choices.* Transactions meet only at their
locks, so those of one step take the step when the locks they end with are free. `RollsBack` is also
the deadlock's victim where the run is not. An order that ended unpaid counts as none. A second maintenance run
skips the claimed row (`SKIP LOCKED`) and so adds nothing. Images and pack refunds under way are two more
counts at the gate and are left out, as are the contents erased, which no property tells
apart, and disputes of Pay & Send payments, which reverse an order that has ended.
`DueMeanwhile` lets held mail come due, to everybody but the run, inside the run's transaction: section 5.

## 3. The runs

The cfg of each run has the run's constants; `PROJECT.json` lists properties and mutants.

| run | instance | shows |
|---|---|---|
| `outbox_prepaid` | 1 prepaid letter, 3 processors, 2 attempts, 3 with a retry, fairness; 151,183 states | a letter is mailed or made good, never both; a pending job is claimable; no two calls overlap; only owed mail is dispatched; reversed funding waits for the operator; claims settle, and queued mail moves or is left to the operator |
| `outbox_promise` | a prepaid and a Pay & Send letter of one account, 1 processor, 1 attempt, 2 with a retry; 1,276,152 | `MailOutbox` implements `MailFate`; the three rows tell one story |
| `sync_two_runs` | 1 prepaid certified letter, 2 runs, late cancels, funding lost at any time, fairness of one run; 381,744 | the alert agrees with the money; nothing printed is paid back by itself; the record settles on an end; the carrier number is stored |
| `ledger` | 2 sends, 1 pack, 2 disputes, expiry of the pack, interrupted daily task, fairness; 987,384 | lots are well formed and hold no credit from nothing; a refunded pack is empty; a won dispute makes good; only the daily task's late write takes the balance below the lots, and the next settles it |
| `pay_and_send` | 2 orders, 2 calls from 2 surfaces, 2 versions of the draft, fairness; 619,228 | what was paid for is mailed; a draft is charged once; a payment becomes mail or goes back, never both; only Stripe's word closes a session; every payment is answered; a dead checkout lets its draft go |
| `pack_payments` | 1 pack, its session of any age and amount, 1 refund or a part of one, 1 dispute; 1,093,795 | letters are granted once, for the pack's price; they go when the money goes; a loss blocks the account and takes the pack, and nothing else blocks it |
| `pack_refunds` | 1 command, 2 workers, 2 letters, 2 attempts, 2 lives of the key, fairness; 161,049 | letters and money add up; nothing is paid twice, nor money and letters both given; every command settles or is told; a returned refund is noticed |
| `send_requests` | 4 drafts of 2 accounts (2 of the same mail, 2 of one date, 1 by gift), 2 connections, caps 2, 2, 1 and 1; 1,598,940 | a draft is mailed once, for one payment; no cap is passed; no twins; a refund reaches the mail it read; one of those under way waits for no lock, and who waits for none goes on |
| `gift_codes` | 4 accounts (2 of one mailbox), 1 pack, 1 seed campaign, 1 operator's invite, 2 requests, 3 gift letters; 355,808 | `GiftCodes` implements `GiftChain`; gifts and claims are bounded; a reversal is final |
| `image_generations` | 2 calls on 2 grants, ceiling 2, fairness; 146,347 | both counters say what the reservations say; what was made is counted; a reservation ends, once |
| `account_erasure` | 1 draft with its letter and order, 1 pack, 2 disputes, 1 crash, fairness; 253,618 | nothing of an erased account can move, then or later; a queued erasure is answered |
| `outbox_late_rejection` | as `outbox_prepaid`, an impatient operator | violation: section 5 |

Type invariants are conjuncts of `LotsAreSound`, `FundsAgree`, `GiftsBounded`, `GrantedOnce` and the two
`BooksAgree`. `DispatchIsDue`, `ChargesAreSound` and `ImagesAreCounted` each join two claims about one hazard; the type invariants of the outbox, the sync, Pay & Send, the sends and the erasure are proved by themselves
(section 4).

*Why the bounds are enough.* The hazards of the outbox are about one letter and the threads
that touch it: two processors are needed for a stale claim, three for a sweep beside it. `MailMoves` is about claims and queues,
which a Pay & Send letter passes as a prepaid one does; one was explored once, with two processors (134,232 states). Two
letters meet only through their account's disputes and the pack, which
`outbox_promise` covers. The attempt limit of 2 gives both the retryable and the spent
case, and one operator retry past it (`AttemptBound`) the raised limit. A status sync treats
each letter of its list by itself, and runs meet only on one letter's rows. Two sends and two
disputes give every order of fail, return, revoke and compensate; `PackCredits = 4` and
`Cost = 2` let a pack be unspent, half spent and spent, and the odd promotional credit
makes one send span two lots. `MaxLots` leaves room for every lot the instance's sends and disputes can make.
Orders of one draft meet only through the draft and the rule that one at a time is active, so two,
a checkout and the one that takes its place, show every hazard; the theorems lift the bound.
Packs of one account meet only in its block, so one pack, with every order of its payment's, refund's and dispute's
events, shows every hazard of `PackPayments` but that a block outlives the first of two losses won; the theorems
are for any set of packs.
Two workers are a command and the sweep beside it, or two sweeps. A refused refund, its retry under a
forgotten key and its return by the bank need no second command; what needs one is in section 5, and the
theorems are for any number. Two connections are enough for
every pair of the transactions of `SendRequests`; that more wait for each other in no circle either, and
its other safety properties, are proved for any number. With one letter to spend and one pair of drafts of the same
mail, the run meets a send beside an order but never two sends of that mail from the balance; `SendsNoTwins` proves those.
In `gift_codes` budget 1 gives a gift letter that passes on and one that does not, `MaxGifts = 3` a
grant, a redemption and a return; two mailboxless accounts are interchangeable, as are the requests (symmetry).
Two image calls share one generation, or draw on two grants.
An erasure meets each draft, letter and order by itself and the drafts only share the account, so one of each, a
pack beside them, and two disputes, of which one can be lost while the other is won, show every pair; the
theorem lifts the bound, and two drafts were explored once for safety (5,181,956 states).
Deadlock is not checked: a letter that ended and a provider with nothing to do are real stops.

*Fairness.* The maintenance run is hourly, so claims, sweeps and worker steps are weakly fair
(a worker may still crash at any step). Strong fairness is asked only where a crash or failure
could repeat for ever at the same point: `HoldAmbiguousDispatch` and `FailBeforeDispatch` in
the outbox; the provider's answer and the two writes in the sync, of the maintenance's runs only
(`Scheduled`; an operator's may stop anywhere for good); the daily task's second statement. It says that not every run dies, or fails, at the same place; of the sweep's
questions to Stripe about checkouts it is asked too. In the outbox time passes (`BecomesDue` and
`LockAges` are weakly fair). Of webhooks only the one about a payment that failed is assumed to
arrive (Stripe retries for days), since no sweep asks for it: without it `CheckoutEnds` fails.
`PackPayments` is checked for safety only, with no fairness: its properties say what holds while an event is still on its way.
In `PackRefunds` the sweep and Stripe's webhooks are weakly fair, and a worker's call and its record
strongly fair, as a run may die at the same point any number of times but not for ever. In
`ImageReservations` only the maintenance and the lapse of leases are fair: nothing makes a call finish.
In `AccountErasure` the run's statements, its claim and the hour are weakly fair, a call that holds a
draft ends, and the lock on a draft is strongly fair, since Postgres grants a lock in turn; a run
can meet a lock conflict only on a draft written while it was under way, of which there are finitely many in
an instance. `MaxCrashes` bounds the failures nobody could count.
Operators, customers, the bank, the provider's progress and the ageing of a letter in the sync
have no fairness; what waits for them is named in the property (`LeftForOperator`, `held`,
`aged`, `IsDead`).

## 4. What is proved

TLAPS checks these for any letters, packs, accounts, commands, processors and bounds that satisfy the
modules' named assumptions (`OutboxAssumption`, `SyncAssumption`, `PackRefundAssumption`, `PayAndSendAssumption`,
`SendAssumption`, `LedgerAssumption`, `GiftAssumption`, `ImageAssumption`, `ErasureAssumption`), which say that the
constants have their types, that what is counted is finite, and that there is a request to send Stripe and a
version of the draft. Where a theorem assumes more, its entry says so.

**The outbox** (`MailOutboxProofs`).

* `TypeCorrect`: `TypeOK` is inductive; one lemma per group of actions.
* `PendingStaysClaimable`: a pending job always has an attempt left. `PendingIsClaimable`
  is not inductive: the put-back and the reschedule write from a row the worker read
  earlier. `ClaimInv` adds `AttemptsKept`, a processing job has had between one attempt and its
  limit, and `RetryableIsTrue`, a worker that remembers "retryable" works on a row with an attempt
  left, because limits never go down.
* `OneCallAtATime`: no two requests for one letter are under way. `CallInv` adds that while a worker is in a
  call its letter's outcome is dispatching or ambiguous, so that nobody may mark another dispatch.
* `RowsTellOneStory`, `MailedXorMadeGood`, `OnlyDueMailIsDispatched`. They follow from one
  invariant, `Story`, told of each letter and of each worker. `LetterInv` says which job and which order go with each
  status of the letter, what the provider's piece implies of them, that nothing came back for a piece the provider took, and that
  prepaid mail that ended unmailed was made good. `WorkerInv` says that what a worker is about was sent, that
  nothing comes back while the provider is asked, and that what the provider refused it does not have.
  `SpentInv` adds what a worker that will not reschedule remembers of attempts it has not spent since.
* `OutboxKeepsPromise`: `MailOutbox` implements `MailFate`. The initial states map to "unsent"; a send maps to its
  step, an acceptance to "mailed", each way back of the credits or the money to "cleared", and under `Story` every other action leaves
  the fate of each letter as it was.

All but the first two assume `OperatorWaits`: `outbox_late_rejection` is what happens otherwise.

**The sync** (`StatusSyncProofs`): `SyncTypeCorrect`, `AlertAgreesWithMoney`, `PrintedIsLeftToAPerson`, all from
`SyncInv`: types, the record never runs ahead of the piece (`NeverAhead`), what a run holds between
its statements (`TurnInv`), a letter with history has left "accepted" and never comes back to it (`MovedInv`), and a letter with
a critical alert can never be paid back by a later run; funding once lost stays lost, so a warning that
came with nothing stays explained.

**Pack refunds** (`CreditProofs`, its first half), for any number of commands, workers and letters.

* `BooksAlwaysAgree`: every letter of the pack is in one place and the order's figures are those of its commands.
  `BookInv` keeps both figures as sums over the commands, and between "refunded" and "disputed", where the money on the books may
  exceed what commands paid, as a bound. `Move` is what the three ways of settling a row have in common: every
  answer, from whomever it comes, moves one row or nothing but alerts.
* `NoCommandPaysTwice`: Stripe never holds two live refunds of a command, with no assumption about the
  dashboard. `AskInv` says that whoever asks for a refund holds its key or knows that Stripe has no refund of the command;
  keys are forgotten only while nobody is at their command, so the second refund never comes to be (`StripeInv`).
* `MoneyGoesBackOnce`, assuming `OneRefunder`: what the dashboard refunded and what the commands took are of one
  payment (`CapInv`), and once that is all refunded the letters left are of refunds that came back or of commands told as both.

The sums are the community modules' folds, which are recursive functions. What such a function is, and that its order does not
matter, is proved by induction over the subsets of a finite set, stated of a set of subsets
(`SetInduction`, from the well-foundedness of strict inclusion) so that no operator needs to be instantiated.

**The ledger** (`CreditProofs`, its second half), for any number of sends, packs, disputes and lots, and any amounts, costs and
expiries that `LedgerAssumption` admits. The module extends both books of a pack, which is why the
definitions `CreditLedger` shares by name with the others are called `LedgerInit`, `LedgerNext`, `LedgerSpec` there.

* `LedgerHoldsWhatWasBought`. `LotsAreSound` is not inductive: a lost dispute takes what is left on a pack's lots,
  a failed send puts back what it took, and a dispute won later adds lots for both. `LedgerInv` therefore sums, for each
  pack, what is left on its lots, what a dispute or a refund holds of them and has yet to make good (`Owed`), and what its sends
  took and did not return: never more than the pack granted (`Bought`). `LotsInv` says
  that a lot holds nothing exactly when it is depleted or revoked, that only a revoked lot is owed for, by a dispute of its own pack, that a lot
  comes from an earlier one, and that every lot of a refunded pack is revoked; `TookInv`, that what a send took was of lots that are there. Every step then adds rows each of which is
  matched by another that gives it up (`GivenBack`), or only takes.
* `RefundTakesThePack` and `WonDisputeGivesBack` follow from the same invariant.
* `OnlyTheTaskUncovers`, assuming `PromoExpiry <= PackExpiry` (section 5 has what happens otherwise): only the write of
  `reconcileBalances` takes the cached balance below the lots. It needs what the order of spending is for: going through the lots
  from the first to expire, each paying what those before it left, a deduction takes the whole cost from lots it could spend wherever they
  hold it (`GreedyPays`, by induction along any strict total order of a finite set), so what is left to spend goes down by what the balance does, and a revocation lowers the balance by no more than the lots it empties could still pay.

**Pay & Send** (`CheckoutProofs`, its first half): `PayTypeCorrect`, whatever faults meet the calls; and, assuming `LoneFaults`,
`WhatWasShownIsMailed`, `PaymentsBuyOneMail` and `StripesWordCloses`, for any
number of orders, calls, surfaces and edits. None of these properties is inductive. `PayInv` adds
what a call holds (`CallInv`: an order whose window outlasts the call), that an order in the
outbox or through it leaves no other active (`OneActive`), that an order which can be paid is
pending with its session attached (`LinkInv`), that a held draft is what its order was shown
(`HeldAsShown`), and that mail, draft and order tell one story (`FateInv`). Every local cancel
then meets only orders without a session.

**Pack payments** (`CheckoutProofs`, its second half): `PackIsGrantedOnce`, `PackLossesStand` and
`LettersFollowTheMoney`, for any set of packs and with no assumption. `GrantedOnce` is not inductive without what a
pack's status says of it (`GrantFacts`: a pack granted is funded, and its order known), and the other two need
both what Stripe said and who has heard it:

* `SentFacts`: each event stands for a state Stripe was in, which the order of its moves makes lasting (a payment
  stays paid, a dispute closed stays closed).
* `DisputeFacts`: a row without the account has an unmatched event with its alert, or nothing; a row in its end tells the truth; while
  an event that looked again has yet to commit, the account cannot have the row, which is what `DisputeIsFree`
  is for.
* `LossFacts` and `RefundFacts`: what was heard has been acted on. A refund heard has taken the letters, and leaves nothing
  that a dispute won later gives back: the order is refunded, the dispute took nothing, or its close was heard before.
* `SomeLoss`, of all packs together: an account is blocked by a loss that stands. It is the one fact that a step of one pack could
  break for another, so every lemma about a step ends in `OnePackStep`, which carries the facts of the other packs over.

**Sends, caps and locks** (`SendRequestsProofs`), for any number of connections, drafts, accounts and any caps.

* `SendsOncePerDraft`, `RefundsReachMail`, `SendTypeCorrect`. `IInv` says of the locks that each is held once
  (`DraftsHeldOnce`, `AccountsHeldOnce`, `RefundsOnce`), of a request that what it works on is its draft's
  (`AboutDraft`, `AboutAccount`), that a send under way is of an unmailed draft
  (`SendsAreOfUnmailed`) and past the account's lock has something to pay with (`FundsCover`), and of
  a refund that the mail it read is the pack's and still there (`SeenIsFunded`, `SeenStays`).
* `FundsAlwaysAgree`: what an account has lost is what its letters were paid with. `FundInv` counts letters by what
  paid for them; a letter and its payment are committed together.
* `LimitsAlwaysHold`: no cap is passed. A count is taken before the insert it is for, so `LimitInv` says that between
  the two the requester holds the lock of what it counted, and that the count it compared still stands: whoever else would
  add to it needs that lock.
* `SendsNoTwins`: the same mail is not sent twice for an account unless asked for. `TwinInv`: past the comparison no copy of
  the mail is there that it would have refused, until the account's lock is given back.
* `SendsNeverDeadlock`: of the requests under way one waits for no lock. `OnWay` says that each is at a step of its kind, so
  that what it waits for comes after all it holds: a date, then an account, then the caps of the account, of all and of gifts.
  From the last of these down, the holder of a lock either waits for none or for the holder of a later one.

**Gift letters** (`GiftCodesProofs`), for any packs, campaigns and number of gift letters.

* `ReversalsAreFinal`. `RowInv` strengthens it: a gift letter of a reversed pack that was sent is marked so, which is what a
  failure later looks at, and no code of a disputed pack is issued. Only bought packs are reversed.
* `GrantsStartPaths`: `GiftCodes` implements `GiftChain`. The root of a gift letter is a recursive function of what
  granted it; that it is well defined is part of the invariant (`Rooted`), carried from step to step, as each
  gift letter is added after its parent. `PathInv` adds that each has its parent in the table (`Parents`), that its root is a grant
  (`RootsIn`), which rows a letter and its code leave (`Shapes`), and that at most one gift letter of a family can still be
  sent or passed on (`Tip`). Each step then is one of `GiftChain`'s about one grant, or leaves every chain as it was.
* `ChainCosts`, of `GiftChain`: a grant mails at most its budget and one letters; letters mailed and budget left never exceed that.
* `GiftsAreBounded`: with the refinement and `ChainCosts`, and `ClaimInv`, which counts the claims of a campaign: its counter is their
  number, and each is of another account and mailbox.

**Images** (`ImageReservationsProofs`): `ImagesAlwaysCounted` and `ReservationEndsOnce`, where `CallInv` ties how far a call
is to its reservation's status (a call in flight is dispatched, or was taken for lost by the
maintenance, and is never released under it) and both counters are the number of reservations
that hold a generation, by `BookInv`, which counts them as sets and follows the one reservation each step moves.

**Erasure** (`AccountErasureProofs`): `ErasureTypeCorrect` and, for `~DueMeanwhile`, `ErasedIsQuiet`: for any drafts, packs, disputes
and crashes. That nothing moves on a tombstone is not inductive. `IInv` adds how the queue and the run
agree (`OpInv`), that a dispute which stands keeps the account blocked (`BlockInv`), that a call holding a draft
and a run holding it exclude each other (`DraftInv`), that a letter sent behind the run's locks met no dispute and waits for no operator (`LateInv`), that from the gate
to the writes nothing can open what the gate found shut (`OpenInv`), and that a tombstone has no call left that could mail (`TombInv`).

*Only model-checked:* that nothing but a lock stops a transaction of `SendRequests` before its end (`OnlyLocksStop`, stated
with `ENABLED`) and all liveness (`MailMoves` and the claims' settling, `RecordCatchesUp`,
`BalanceSettles`, `CheckoutEnds`, `CommandSettles`, `ReservationEnds`, `ErasureIsAnswered`): `ENABLED`, on which
both rest, is out of the prover's reach.

## 5. Where the code and what is said of it differ

Checked by a run of its own, `outbox_late_rejection`, whose counterexample is the schedule: **a late
rejection settles a later dispatch** (`letterJobService.ts:955`). The guard is "processing and
dispatching", which the dispatch of a later claim satisfies too, while the comment at line 938
says "The predicate is the dispatch this result belongs to".

Each of the following is stated as a property in its module and kept out of the regular runs; adding
the property to the named cfg, with the change named, makes TLC show it.

* **A dispute's row takes the account although its effects never ran** (`commerceService.ts:3835`).
  `OursHadItsEffects`, `PackPayments.cfg`. A lost dispute's close finds no order; a checkout event commits the intent before
  the close does, so the close is recorded unmatched and the checkout finds nothing to recover. An older event of the dispute,
  heard next, finds the order, and `settledBefore` looks only at `resolved_at`: it is recorded only, and
  `recordDispute` writes the account into the row. The comment at line 3808 says "A row recorded while no order matched (user_id still null)
  ran none, so its next event acts". The account is neither blocked nor its letters taken, and no checkout event
  recovers it later, for its row has an account; the unmatched close's alert is what an operator is left with, until such a checkout
  event resolves it. These packs `LossesStand` and `MoneyBackTakesLetters` except, by
  their alert and by `late`; `late` has also those whose refund was recovered after the intent was known, which wait in
  `refund_pending` for the sweep to find it and take their letters.
* **The sweep refunds the rest of a payment refunded in part** (`stripeService.ts:406`).
  `RefundIsFoundNotMade`, `PackPayments.cfg` (as a PROPERTY). Heard with an order, a part is for a person and changes nothing
  (`commerceService.ts:3222`). Heard before there is one, the checkout event that recovers it puts the order in `refund_pending` with a code
  the sweep does not skip; `classifyOrderRefunds` rightly takes no part for the order's refund, so the sweep
  makes one, of the rest. The comment at `commerceService.ts:4772` says of this lane that `requestRefund` discovers the existing refund
  "rather than creating another".
* **A pack refund the sweep finalises does not hold the pack's mail** (`commerceService.ts:4576`).
  `FullRefundHoldsMail`, `MailOutboxPrepaid.cfg`. The sweep's finalisation of `requestRefund` revokes the lots
  without `holdMailFundedByOrder`, and the webhook that follows finds the order refunded and is ignored.
* **A letter that ends while its pack is disputed gets nothing when the dispute is won**
  (`creditLedgerService.ts:839`). `UnreturnedWasPaidBack`, `MailOutboxPrepaid.cfg`. `returnConsumedCreditsForLetter`
  skips lots a dispute revoked, and a won dispute restores only what remained of them.
* **The daily task loses a grant or return made between its read and its write**
  (`creditLedgerService.ts:628`). `BalanceCoversSpendable`, `CreditLedger.cfg`, whose daily task may be interrupted
  (`QuietReconcile = FALSE`). `reconcileBalances` reads and then writes with no lock, against
  `src/docs/acid-transaction-standard.md:70`. `BalanceSettles` shows that the next run repairs
  it; until then a send the ledger could pay for can be rejected.
* **Taking back a pack with an expired lot debits other credits** (`commerceService.ts:2182`, `2251`).
  `RevocationTakesOnlyItsPack`, `CreditLedger.cfg` with `QuietReconcile = TRUE`, `PackExpiry = 1`,
  `PromoCredits = 3` and `PromoExpiry = 3`. `revokeWholePack` debits the
  `remaining_amount` of expired lots, which had left the balance before (`src/docs/acid-transaction-standard.md:27`).
* **The dashboard's refund of the rest meets a command under way.** `PackRefunds.cfg` with `OneRefunder =
  FALSE`. (a) `MoneyOrLetters` fails: when the command's own refund is then refused, `compensatePackRefund`
  (`commerceService.ts:2946`, `2962`) gives its letters back without looking at the order, which is
  refunded; `packRefundService.ts:20` says "never the customer holding both". (b) `CommandSettles` fails: when
  the refund of the rest is heard first, the command's success would pass the `CHECK` of migration
  029 (lines 22 to 27), its transaction aborts each time it is heard, and the row never settles, though
  `packRefundService.ts:16` says that it does. (c) Where a compensation is withheld because the payment
  is disputed, `amount_refunded_cents` goes on counting money the bank returned.
* **A command told as both leaves its letters to spend** (`packRefundService.ts:20`, the same words), even with
  `OneRefunder`. A command whose refund was made may be compensated on a later refusal of the same request; the customer then has both, which the
  alert "both" tells the operator, and the letters stay. With two such commands, `PackRefunds.cfg` with `Commands = {c1, c2}`
  shows a payment that Stripe reports as wholly refunded with letters left. `NeverBoth` therefore excepts the commands
  that `BothIsTold` brings before the operator, and only those.

* **Mail that comes due inside an erasure's transaction stays on the tombstone.** `AccountErasure.cfg` with
  `DueMeanwhile = TRUE` shows `TombstoneIsQuiet` violated. The gate and the cancel ask whether held mail is still
  waiting by the time the transaction began (`NOW()`, `heldMail.ts:22`). A draft written after the erasure's first
  statement can be sent, with a date, between its lock on the letters and its lock on the account
  (`accountErasureService.ts:458` to `469`); if that mail comes due within those moments the outbox claims it,
  and the cancel leaves it claimed (it now reads the job as no longer pending). It is never printed, since the
  marker finds the account blocked and puts it back, pending for ever on the erased account.

Differences the models follow the code in, which no property names:

* `docs/account-erasure.md:131` says that "one thing can still slip through" the erasure, a draft. So can the
  reservation of an image: `reserveGeneration` (`imageGenerationLimitService.ts:283`) does not read the account's erasure again.
* The tool for images says that "none of your generations were used" also where the release failed
  after the dispatch, so that the generation waits for an operator.
* A send and a checkout of the same mail, from two drafts, can both pass the comparison with recent
  mail: neither is a row when the other looks. `NoTwins` is about sends.
* An order whose window had lapsed, and was paid late, is mailed past the caps (`InTime`).
* A send reads whether its account is blocked before it locks the account; the outbox reads it again.
* Whether a claimant is new is read before the transaction of a claim and not in it.
* A sign-in without an address bounds claims by account only.
* A dispute that is won restores credits but no gift letters, a limitation the docs name.

`LoneFaults` stands for one more. `markCheckoutCreationFailure` (`commerceService.ts:696`) cancels any
pending order when a call to Stripe fails for a reason no retry clears (a revoked key, a product
withdrawn across a redeploy). Two calls that share an order may meet different answers: one
attaches its session and hands out the URL, the other then cancels the order. "Only Stripe's word
(its webhook, or the sweep) cancels a session-bearing order" (`commerceService.ts:1139`) no longer
holds, and the draft may take a second checkout while the first can be paid. `PayAndSend.cfg` with
`LoneFaults = FALSE` shows `OnlyStripeCloses` and `OneCharge`, a conjunct of `ChargesAreSound`, violated.

Stated in the modules, found violated while modelling, and kept out of the regular runs; adding
the property to the named cfg reproduces each:

* `CancelledIsFinal` (`MailOutboxPrepaid.cfg`): `holdAmbiguousDispatch` (`letterJobService.ts:338`) may take a
  letter the operator cancelled back to held.
* `AcceptanceFulfilsOrder` (`MailOutboxPrepaid.cfg` with `JitLetters = {l1}`, as an INVARIANT): an acceptance recorded after the hold leaves the order held.
* `EndedNeverChanges` (`StatusSyncTwoRuns.cfg`): a late write of one sync takes a letter out of its
  end (`statusSyncService.ts:171`); `RecordCatchesUp` shows the next sync puts it right.
* `WarningMeansReturned` (`StatusSyncTwoRuns.cfg`, as an INVARIANT): a letter whose pack or gift was refunded or
  disputed after it was sent is cancelled by the provider and gets the warning, though nothing comes
  back. `failProviderCancelledLetter` chooses the severity (`letterJobService.ts:879`) without asking what
  `returnPrepaidCreditsForFailedLetter` (868) gave, which is nothing for revoked lots
  (`creditLedgerService.ts:844`) and for a gift reversed or redeemed (`giftLetterService.ts:678`, `667`);
  `letterJobService.ts:818` says "a warning when what paid came back". After a refund the customer has the money;
  after a dispute that is won nothing is restored for the letter either (above), and the operator
  has read a warning. `ReturnIsAnnounced` says what does hold.
* `RefundedIsNeverCompensated` (`CreditLedger.cfg`): a second dispute's event takes a
  refunded order to disputed, and the first dispute, won, then compensates it (`commerceService.ts:3354`).

## 6. Not modelled, and the plan

Rendering, previews, argument parsing, routes, sign-in and configuration hold no state of
their own that a model could tell apart. Price arithmetic is covered by the unit tests. What an edit
writes to a draft, where images are stored, what a held letter's file holds and the wording of
every message are data the properties do not tell apart.

Components with behaviour a model could show, in the order they would come:

1. The retention sweeps: a letter redacted, kept a while in quarantine and restored, while its mail, refund or dispute is open.
2. `PackPayments` composed with `CreditLedger` and `MailOutbox`, whose refund and dispute events it splits into what is heard when; and unmatched
   money of Pay & Send payments, whose orders it meets in the same code. `stripeReconciliation` only reads and raises alerts.
3. The operator panel's command runner with its version locks and elevation; the hour's claim of a maintenance task.
4. Address requests, tokens, uploads, rate limits: one table and one outcome each.

Known gaps inside the modelled components, which no property covers: the history of a letter's statuses is
a second statement, so a run that dies between leaves no history (`statusSyncService.ts:181`); a maintenance
task longer than its hour is claimed again, which the sync is checked under, and the first to end
clears the other's claim (`maintenanceTaskService.ts:26`); `PayAndSend` keeps of the outbox only how it
ends, and the two are not composed in one run, whose product is too large for TLC.

