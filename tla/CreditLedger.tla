------------------------------ MODULE CreditLedger ------------------------------
(***************************************************************************)
(* One account's prepaid balance: the lots of credit_ledger, the cached    *)
(* users.credits, and what grants, sends, returns, expiry, refunds and     *)
(* disputes do to both.                                                    *)
(*                                                                         *)
(* Every balance mutation is one transaction under the account's row lock, *)
(* so it is one action.  The daily task is not: it marks expired lots in   *)
(* one statement, reads which cached balances differ from the ledger in    *)
(* another, and then writes each of them blindly.                          *)
(***************************************************************************)
EXTENDS Integers, Sequences, FiniteSets, Functions

CONSTANTS
    Sends,           \* the account's prepaid sends
    Packs,           \* its letter pack orders
    Disputes,        \* Stripe disputes of their payments
    DisputedPack,    \* [Disputes -> Packs]
    PackCredits,     \* credits a pack grants
    PackExpiry,      \* when a pack's lot expires
    PromoCredits,    \* credits of the lot that did not come from a pack
    PromoExpiry,     \* when that one expires
    Cost,            \* CREDITS_PER_LETTER
    Never,           \* the expiry of a lot that has none; also the end of the clock
    QuietReconcile,  \* whether nothing touches a balance while the daily task reconciles it
    MaxLots          \* bound of the model: rows of credit_ledger

ASSUME LedgerAssumption ==
    /\ IsFiniteSet(Sends)
    /\ "none" \notin Sends \cup Packs \cup Disputes /\ "refund" \notin Disputes
    /\ DisputedPack \in [Disputes -> Packs]
    /\ {PackCredits, PromoCredits, Cost, MaxLots} \subseteq Nat \ {0}
    /\ Never \in Nat \ {0}
    /\ PackExpiry \in 1..Never /\ PromoExpiry \in 1..Never
    /\ QuietReconcile \in BOOLEAN

VARIABLES
    lots,       \* credit_ledger, in the order of created_at, without its audit rows
    credits,    \* users.credits
    send,       \* per letter: what became of it, and the credit_consumption of its deduction
    orders,     \* status of each pack's order
    refundedAt, \* the packs whose orders.refunded_at is set
    dispute,    \* stripe_disputes.status of each dispute
    clock,      \* time: a lot is past when its expiry is not after it
    unfixed     \* what reconcileBalances read and has yet to write, or NothingRead

ledgerVars == <<lots, credits, send, orders, refundedAt, dispute, clock, unfixed>>

-----------------------------------------------------------------------------
(* The rows. *)

NothingRead == -1
NoPack == "none"
NoDispute == "none"

OrderStatus == {"paid", "fulfilled", "refund_pending", "refunded", "disputed"}
DisputeStatus == {"none", "inquiry", "loss", "won", "lost"}
SendState == {"unsent", "sent", "mailed"}
LotStatus == {"active", "depleted", "expired", "revoked"}

\* pack: the order source_reference_id names.  source: how the lot came to be: bought (or
\* given), re-issued for a send that failed, or for a dispute won.  from: related_ledger_id.
\* letter: the letter_id of its metadata.  takenBy, held: what its audit row says, once it
\* is revoked: by a refund or which dispute, and remaining_at_revocation.
Source == {"grant", "send_failed", "dispute_won"}

NewLot(amount, p, source, expires, from, letter, status) ==
    [remaining |-> amount, pack |-> p, source |-> source, expires |-> expires, from |-> from,
     letter |-> letter, status |-> status, takenBy |-> NoDispute, held |-> 0]

LotIds == DOMAIN lots
NoLetter == "none"

LedgerInit ==
    /\ lots = <<NewLot(PromoCredits, NoPack, "grant", PromoExpiry, 0, NoLetter, "active")>>
    /\ credits = PromoCredits
    /\ send = [l \in Sends |-> [state |-> "unsent", took |-> [i \in 1..MaxLots |-> 0]]]
    /\ orders = [p \in Packs |-> "paid"]
    /\ refundedAt = {}
    /\ dispute = [d \in Disputes |-> "none"]
    /\ clock = 0
    /\ unfixed = NothingRead

-----------------------------------------------------------------------------
(* What the balance reads count. *)

Past(lot) == lot.expires # Never /\ lot.expires <= clock

\* status = 'active' AND remaining_amount > 0 AND not past
IsSpendable(i) == lots[i].status = "active" /\ lots[i].remaining > 0 /\ ~Past(lots[i])

SumOf(amount, S) == SumFunctionOnSet(amount, S)
Remaining == [i \in LotIds |-> lots[i].remaining]

\* getAvailableCredits, and the ledger's side of reconcileBalances.
Available == SumOf(Remaining, {i \in LotIds : IsSpendable(i)})

\* ORDER BY expires_at NULLS LAST, created_at
Before(i, j) == lots[i].expires < lots[j].expires \/ (lots[i].expires = lots[j].expires /\ i < j)

\* sends_blocked_reason
SendsBlocked == \E d \in Disputes : dispute[d] \in {"loss", "lost"}

\* A mutation takes the account's lock; a quiet reconciliation lets none in between.
Mutable == QuietReconcile => unfixed = NothingRead

Room(n) == Len(lots) + n <= MaxLots

-----------------------------------------------------------------------------
(* Grants and sends. *)

\* addCreditsToLedgerWithClient, for a paid pack
Grant(p) ==
    /\ orders[p] = "paid" /\ Mutable /\ Room(1)
    /\ orders' = [orders EXCEPT ![p] = "fulfilled"]
    /\ lots' = Append(lots, NewLot(PackCredits, p, "grant", PackExpiry, 0, NoLetter, "active"))
    /\ credits' = credits + PackCredits
    /\ UNCHANGED <<refundedAt, send, dispute, clock, unfixed>>

\* What the deduction takes from lot i: all of it, until the cost is met.
Take(i) ==
    LET earlier == {j \in LotIds : IsSpendable(j) /\ Before(j, i)}
        needed == Cost - SumOf(Remaining, earlier)
    IN  IF ~IsSpendable(i) \/ needed <= 0 THEN 0
        ELSE IF needed < lots[i].remaining THEN needed ELSE lots[i].remaining

\* deductCreditsFromLedgerWithClient, in the send's transaction.  CHECK (credits >= 0)
\* rejects the whole transaction when the cached balance is short.
Deduct(l) ==
    /\ send[l].state = "unsent" /\ ~SendsBlocked /\ Mutable
    /\ Available >= Cost
    /\ credits >= Cost
    /\ credits' = credits - Cost
    /\ lots' = [i \in LotIds |->
                  IF Take(i) = 0 THEN lots[i]
                  ELSE [lots[i] EXCEPT !.remaining = @ - Take(i),
                                       !.status = IF Take(i) = lots[i].remaining THEN "depleted" ELSE @]]
    /\ send' = [send EXCEPT ![l] = [state |-> "sent",
                                    took |-> [i \in 1..MaxLots |-> IF i \in LotIds THEN Take(i) ELSE 0]]]
    /\ UNCHANGED <<refundedAt, orders, dispute, clock, unfixed>>

\* The provider takes the letter: it cannot fail any more.
Mailed(l) ==
    /\ send[l].state = "sent"
    /\ \A i \in LotIds : lots[i].letter # l
    /\ send' = [send EXCEPT ![l].state = "mailed"]
    /\ UNCHANGED <<refundedAt, lots, credits, orders, dispute, clock, unfixed>>

HasReturned(l) == \E i \in LotIds : lots[i].letter = l /\ lots[i].source = "send_failed"

ReturnableOfRevokedMutant(l) == {i \in LotIds : send[l].took[i] > 0}

\* The lots of a letter that give back what it took: those not revoked.
Returnable(l) == {i \in LotIds : send[l].took[i] > 0 /\ lots[i].status # "revoked"}

\* The lots of S in their order.
Ordered(S) == CHOOSE s \in [1..Cardinality(S) -> S] : \A a, b \in DOMAIN s : a < b => s[a] < s[b]

ReturnUncachedExpiryMutant(l) ==
    LET back == Ordered(Returnable(l))
        status(i) == IF Past(lots[i]) THEN "expired" ELSE "active"
    IN  /\ send[l].state = "sent" /\ Mutable /\ Room(Len(back))
        /\ back # <<>> /\ ~HasReturned(l)
        /\ lots' = lots \o [k \in DOMAIN back |->
                              LET i == back[k] IN
                              NewLot(send[l].took[i], lots[i].pack, "send_failed", lots[i].expires,
                                     i, l, status(i))]
        /\ UNCHANGED <<refundedAt, credits, send, orders, dispute, clock, unfixed>>

\* returnConsumedCreditsForLetter, for a send that ended unmailed: once per letter.
Return(l) ==
    LET back == Ordered(Returnable(l))
        status(i) == IF Past(lots[i]) THEN "expired" ELSE "active"
        usable == [i \in LotIds |-> IF Past(lots[i]) THEN 0 ELSE send[l].took[i]]
    IN  /\ send[l].state = "sent" /\ Mutable /\ Room(Len(back))
        /\ back # <<>> /\ ~HasReturned(l)
        /\ lots' = lots \o [k \in DOMAIN back |->
                              LET i == back[k] IN
                              NewLot(send[l].took[i], lots[i].pack, "send_failed", lots[i].expires,
                                     i, l, status(i))]
        /\ credits' = credits + SumOf(usable, Returnable(l))
        /\ UNCHANGED <<refundedAt, send, orders, dispute, clock, unfixed>>

-----------------------------------------------------------------------------
(* Refunds and disputes. *)

LotsOf(p) == {i \in LotIds : lots[i].pack = p /\ lots[i].status # "revoked"}

Floor(n) == IF n > 0 THEN n ELSE 0

\* revokeWholePack: bought, returned and compensated lots alike, past ones included; the
\* account's balance is debited by all that was left on them.
RevokeWholePack(p, by) ==
    /\ lots' = [i \in LotIds |->
                  IF i \in LotsOf(p)
                  THEN [lots[i] EXCEPT !.remaining = 0, !.status = "revoked", !.takenBy = by,
                                       !.held = lots[i].remaining]
                  ELSE lots[i]]
    /\ credits' = Floor(credits - SumOf(Remaining, LotsOf(p)))

\* A refund event of the whole payment that is not final yet.
RefundPending(p) ==
    /\ orders[p] \in {"fulfilled", "disputed"} /\ Mutable
    /\ orders' = [orders EXCEPT ![p] = "refund_pending"]
    /\ UNCHANGED <<refundedAt, lots, credits, send, dispute, clock, unfixed>>

\* processRefundEvent: the whole payment went back.
RefundSucceeds(p) ==
    /\ orders[p] \in {"fulfilled", "refund_pending", "disputed"} /\ Mutable
    /\ RevokeWholePack(p, "refund")
    /\ orders' = [orders EXCEPT ![p] = "refunded"]
    /\ refundedAt' = refundedAt \cup {p}
    /\ UNCHANGED <<send, dispute, clock, unfixed>>

\* processDisputeEvent: an inquiry takes nothing, and stops the order all the same.
Inquiry(d) ==
    /\ dispute[d] = "none" /\ orders[DisputedPack[d]] # "paid" /\ Mutable
    /\ dispute' = [dispute EXCEPT ![d] = "inquiry"]
    /\ orders' = [orders EXCEPT ![DisputedPack[d]] = "disputed"]
    /\ UNCHANGED <<refundedAt, lots, credits, send, clock, unfixed>>

\* The events that make it a loss, once: created, or an inquiry escalated.
Loss(d) ==
    /\ dispute[d] \in {"none", "inquiry"} /\ orders[DisputedPack[d]] # "paid" /\ Mutable
    /\ RevokeWholePack(DisputedPack[d], d)
    /\ dispute' = [dispute EXCEPT ![d] = "loss"]
    /\ orders' = [orders EXCEPT ![DisputedPack[d]] = "disputed"]
    /\ UNCHANGED <<refundedAt, send, clock, unfixed>>

\* A losing close revokes too: it may arrive without its opening.
Lost(d) ==
    /\ dispute[d] \in {"none", "inquiry", "loss"} /\ orders[DisputedPack[d]] # "paid" /\ Mutable
    /\ RevokeWholePack(DisputedPack[d], d)
    /\ dispute' = [dispute EXCEPT ![d] = "lost"]
    /\ orders' = [orders EXCEPT ![DisputedPack[d]] = "disputed"]
    /\ UNCHANGED <<refundedAt, send, clock, unfixed>>

CompensableLinkedMutant(d) ==
    {i \in LotIds :
        /\ lots[i].pack = DisputedPack[d] /\ lots[i].takenBy = d /\ lots[i].held > 0
        /\ \A j \in LotIds : lots[j].from # i}

CompensableAgainMutant(d) ==
    {i \in LotIds : lots[i].pack = DisputedPack[d] /\ lots[i].takenBy # NoDispute /\ lots[i].held > 0}

\* The lots this dispute took, each not yet made good by any dispute.
Compensable(d) ==
    {i \in LotIds :
        /\ lots[i].pack = DisputedPack[d] /\ lots[i].takenBy = d /\ lots[i].held > 0
        /\ ~\E j \in LotIds : lots[j].from = i /\ lots[j].source = "dispute_won"}

\* compensateDisputedPacks gives nothing for an order refunded or being refunded.
NotRefunded(p) == orders[p] \notin {"refunded", "refund_pending"}

\* compensateDisputedPacks: a new lot for each, with its expiry, active whatever the clock.
Won(d) ==
    LET owed == IF NotRefunded(DisputedPack[d]) THEN Compensable(d) ELSE {}
        back == Ordered(owed)
        held == [i \in LotIds |-> lots[i].held]
    IN  /\ dispute[d] \in {"none", "inquiry", "loss"} /\ orders[DisputedPack[d]] # "paid"
        /\ Mutable /\ Room(Len(back))
        /\ lots' = lots \o [k \in DOMAIN back |->
                              LET i == back[k] IN
                              NewLot(lots[i].held, lots[i].pack, "dispute_won", lots[i].expires,
                                     i, NoLetter, "active")]
        /\ credits' = credits + SumOf(held, owed)
        /\ dispute' = [dispute EXCEPT ![d] = "won"]
        /\ orders' = [orders EXCEPT ![DisputedPack[d]] = "disputed"]
        /\ UNCHANGED <<refundedAt, send, clock, unfixed>>

-----------------------------------------------------------------------------
(* Time, and the daily task. *)

Tick ==
    /\ clock < Never - 1
    /\ clock' = clock + 1
    /\ UNCHANGED <<refundedAt, lots, credits, send, orders, dispute, unfixed>>

MarkExpired ==
    /\ Mutable
    /\ \E i \in LotIds : lots[i].status = "active" /\ Past(lots[i]) /\ lots[i].remaining > 0
    /\ lots' = [i \in LotIds |->
                  IF lots[i].status = "active" /\ Past(lots[i]) /\ lots[i].remaining > 0
                  THEN [lots[i] EXCEPT !.status = "expired"] ELSE lots[i]]
    /\ UNCHANGED <<refundedAt, credits, send, orders, dispute, clock, unfixed>>

ReconcileReadsRaisesOnlyMutant ==
    /\ unfixed = NothingRead
    /\ credits < Available
    /\ unfixed' = Available
    /\ UNCHANGED <<refundedAt, lots, credits, send, orders, dispute, clock>>

\* reconcileBalances, the SELECT of the mismatches.
ReconcileReads ==
    /\ unfixed = NothingRead
    /\ credits # Available
    /\ unfixed' = Available
    /\ UNCHANGED <<refundedAt, lots, credits, send, orders, dispute, clock>>

\* Its UPDATE of one account, with the value it read.
ReconcileWrites ==
    /\ unfixed # NothingRead
    /\ credits' = unfixed
    /\ unfixed' = NothingRead
    /\ UNCHANGED <<refundedAt, lots, send, orders, dispute, clock>>

\* The run dies between the two.
ReconcileDies ==
    /\ unfixed # NothingRead
    /\ unfixed' = NothingRead
    /\ UNCHANGED <<refundedAt, lots, credits, send, orders, dispute, clock>>

-----------------------------------------------------------------------------
LedgerNext ==
    \/ \E p \in Packs : Grant(p) \/ RefundPending(p) \/ RefundSucceeds(p)
    \/ \E l \in Sends : Deduct(l) \/ Mailed(l) \/ Return(l)
    \/ \E d \in Disputes : Inquiry(d) \/ Loss(d) \/ Lost(d) \/ Won(d)
    \/ Tick \/ MarkExpired \/ ReconcileReads \/ ReconcileWrites \/ ReconcileDies

LedgerSpec == LedgerInit /\ [][LedgerNext]_ledgerVars

\* The daily task runs for ever, and does not die every time.
LedgerFairSpec == LedgerSpec /\ WF_ledgerVars(ReconcileReads) /\ SF_ledgerVars(ReconcileWrites)

-----------------------------------------------------------------------------
(* Properties. *)

\* Types: the account's rows, and CHECK (credits >= 0).
LedgerTypeOK ==
    /\ \A i \in LotIds :
          /\ lots[i].remaining \in Nat /\ lots[i].held \in Nat
          /\ lots[i].pack \in Packs \cup {NoPack}
          /\ lots[i].source \in Source /\ lots[i].status \in LotStatus
          /\ lots[i].from \in 0..(i - 1) /\ lots[i].letter \in Sends \cup {NoLetter}
          /\ lots[i].takenBy \in Disputes \cup {"refund", NoDispute}
          /\ lots[i].status \in {"revoked", "depleted"} <=> lots[i].remaining = 0
    /\ Len(lots) <= MaxLots
    /\ credits \in Nat /\ unfixed \in Nat \cup {NothingRead}
    /\ send \in [Sends -> [state : SendState, took : [1..MaxLots -> 0..Cost]]]
    /\ orders \in [Packs -> OrderStatus]
    /\ refundedAt \subseteq Packs
    /\ dispute \in [Disputes -> DisputeStatus]
    /\ clock \in 0..Never

\* What a letter still stands for: the credits it took that did not come back.
Unreturned(l, p) ==
    LET took == [i \in LotIds |->
                   IF lots[i].pack = p /\ ~\E j \in LotIds : lots[j].from = i /\ lots[j].letter = l
                   THEN send[l].took[i] ELSE 0]
    IN  SumOf(took, LotIds)

\* However sends fail and are paid back, and disputes open, are won, and open again: what is
\* left on a pack's lots and what its unreturned sends took never exceed what was bought.
NothingFromNothing ==
    \A p \in Packs :
        LET mailed == [l \in Sends |-> Unreturned(l, p)]
        IN  SumOf(Remaining, {i \in LotIds : lots[i].pack = p}) + SumOf(mailed, Sends) <= PackCredits

\* The lots are well formed and hold nothing that was not bought.
LotsAreSound == LedgerTypeOK /\ NothingFromNothing

\* A customer whose whole payment went back holds nothing of the pack, whatever fails, is
\* returned, or is decided later.
RefundedPackIsEmpty ==
    \A p \in Packs :
        orders[p] = "refunded" => \A i \in LotIds : lots[i].pack = p => lots[i].remaining = 0

\* The same of every pack ever refunded, whatever status its order has since taken.  The
\* comment of compensateDisputedPacks: "A refunded order must never be compensated."
\* A second dispute of a refunded payment breaks it: README.
RefundedIsNeverCompensated ==
    \A p \in refundedAt : \A i \in LotIds : lots[i].pack = p => lots[i].remaining = 0

\* A dispute that is won makes good each lot it took, even one a failed send had since been
\* paid back from, unless the payment itself is being refunded.
WonGivesBack ==
    [][\A d \in Disputes :
          dispute[d] # "won" /\ dispute'[d] = "won" /\ NotRefunded(DisputedPack[d]) =>
             \A i \in LotIds :
                lots[i].takenBy = d /\ lots[i].held > 0 =>
                   \E j \in DOMAIN lots' : lots'[j].from = i /\ lots'[j].source = "dispute_won"]_ledgerVars

\* The cached balance covers what the ledger would spend: a send the ledger can pay for is
\* not rejected by CHECK (credits >= 0).
BalanceCoversSpendable == credits >= Available

\* Where no other credits outlive the pack, only the daily task's write, made on a balance read
\* earlier, takes that cover away: no grant, send, return, expiry, refund or dispute does, in any
\* order. Where some do, reversing an expired pack takes it too: RevocationTakesOnlyItsPack.
CoverIsKept ==
    [][BalanceCoversSpendable => BalanceCoversSpendable' \/ (unfixed # NothingRead /\ credits' = unfixed)]_ledgerVars

\* Taking a refunded or disputed pack back leaves the account's other credits spendable.
RevocationTakesOnlyItsPack ==
    [][BalanceCoversSpendable /\ orders' # orders => BalanceCoversSpendable']_ledgerVars

\* Whatever races put into the cached balance, it agrees with the ledger in the end.
BalanceSettles == <>[](credits = Available)

=============================================================================
