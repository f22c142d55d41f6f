---------------------------- MODULE SendRequests ----------------------------
(***************************************************************************)
(* Requests that end in mail, each one database transaction taken lock by  *)
(* lock: a send paid from the balance or by a gift letter                  *)
(* (mailSendService), the preparation of a Pay & Send checkout             *)
(* (commerceService.prepareJitOrder), the fulfilment of a paid one, and    *)
(* the full refund of the pack an account's letters came from.             *)
(*                                                                         *)
(* Nothing a transaction writes is seen before it commits, so a request's  *)
(* writes are made by its commit; `at` names the last lock or check it has *)
(* behind it, and tells which locks it holds.                              *)
(***************************************************************************)
EXTENDS Naturals, FiniteSets

CONSTANTS Requests,     \* connections, each running one transaction at a time
          Accounts, Drafts,
          Owner,        \* the account of a draft
          Mail,         \* what a draft would print: equal for the same mail
          MailOn,       \* the mail date of a draft, or None
          GiftDrafts,   \* drafts a gift letter pays for
          None,
          AccountCap, GlobalCap, GiftCap, DateCap,
          Funds         \* letters an account's pack pays for, and its gifts

ASSUME SendAssumption ==
    /\ Owner \in [Drafts -> Accounts]
    /\ GiftDrafts \subseteq Drafts
    /\ None \notin Drafts \cup Accounts
    /\ {AccountCap, GlobalCap, GiftCap, DateCap, Funds} \subseteq Nat

VARIABLES
    letters,   \* the letters table: who paid, where it is, whether it is held
    order,     \* the live Pay & Send order of a draft
    late,      \* drafts whose order was paid after it stopped being counted
    funds,     \* what an account has left: credits and gift letters
    refunded,  \* accounts whose pack was refunded in full
    call       \* the transaction each connection runs

vars == <<letters, order, late, funds, refunded, call>>

Balances == {"balance", "gift"}
Source(d) == IF d \in GiftDrafts THEN "gift" ELSE "balance"
Idle == [kind |-> "none", at |-> "idle", draft |-> None, account |-> None,
         again |-> FALSE, seen |-> {}]
Letter == [draft : Drafts, nth : Nat, by : Balances \cup {"order"},
           status : {"queued", "taken"}, held : BOOLEAN]

Running(r) == call[r].at # "idle"
Consumed(d) == \E l \in letters : l.draft = d

-----------------------------------------------------------------------------
(* Locks: what each connection holds, by how far it is. *)
Capped == {"account cap", "global cap", "gift cap", "compared"}
HoldsDraft(r, d) == Running(r) /\ call[r].draft = d
HoldsDate(r, day) == /\ call[r].kind = "send" /\ MailOn[call[r].draft] = day
                     /\ call[r].at \in {"date", "account"} \cup Capped
HoldsAccount(r, a) == /\ call[r].account = a /\ call[r].kind # "checkout"
                      /\ call[r].at \in {"account"} \cup Capped
SharesAccount(r, a) == /\ call[r].account = a /\ call[r].kind = "checkout"
                       /\ call[r].at \in {"inserted"} \cup Capped
HoldsAccountCap(r, a) == call[r].account = a /\ call[r].at \in Capped
HoldsGlobalCap(r) == call[r].at \in Capped \ {"account cap"}
HoldsGiftCap(r) == /\ call[r].draft \in GiftDrafts
                   /\ call[r].at \in {"gift cap", "compared"}

DraftFree(d) == \A r \in Requests : ~HoldsDraft(r, d)
DateFree(day) == \A r \in Requests : ~HoldsDate(r, day)
AccountFree(a) == \A r \in Requests : ~HoldsAccount(r, a) /\ ~SharesAccount(r, a)
AccountShareable(a) == \A r \in Requests : ~HoldsAccount(r, a)
AccountCapFree(a) == \A r \in Requests : ~HoldsAccountCap(r, a)
GlobalCapFree == \A r \in Requests : ~HoldsGlobalCap(r)
GiftCapFree == \A r \in Requests : ~HoldsGiftCap(r)

-----------------------------------------------------------------------------
(* Counts, as one statement each reads them. *)
\* mailTodayCount: every letter, and every open order, which will become one
Today(A) == Cardinality({l \in letters : Owner[l.draft] \in A})
          + Cardinality({d \in Drafts : Owner[d] \in A /\ order[d] = "open"})
\* the same with this request's own row, in place of the order it replaces
WithOwn(d, A) == Today(A) + (IF order[d] = "open" THEN 0 ELSE 1)
GiftsToday == Cardinality({l \in letters : l.by = "gift"})
HeldOn(day) == Cardinality({l \in letters : l.status = "queued" /\ MailOn[l.draft] = day})
DateFull(d) == MailOn[d] # None /\ HeldOn(MailOn[d]) >= DateCap
\* findRecentDuplicateMail: the same mail sent, paid for or awaiting payment
Twin(d) == {e \in Drafts \ {d} :
              /\ Owner[e] = Owner[d] /\ Mail[e] = Mail[d]
              /\ Consumed(e) \/ order[e] = "open"}

Init ==
    /\ letters = {} /\ late = {} /\ refunded = {}
    /\ order = [d \in Drafts |-> "none"]
    /\ funds = [a \in Accounts |-> [s \in Balances |-> Funds]]
    /\ call = [r \in Requests |-> Idle]

Reaches(r, step) == call' = [call EXCEPT ![r].at = step]
Ends(r) == call' = [call EXCEPT ![r] = Idle]
Tables == <<letters, order, late, funds, refunded>>
Begins(r, kind, d, again, step) ==
    call' = [call EXCEPT ![r] = [kind |-> kind, at |-> step, draft |-> d, again |-> again,
                                 account |-> Owner[d], seen |-> {}]]

-----------------------------------------------------------------------------
(* A send from the balance or by a gift letter. *)

\* The draft under its lock. A consumed draft answers with its letter, and one
\* with an open checkout is refused: neither changes anything.
SendLocksDraft(r) ==
    /\ ~Running(r)
    /\ \E d \in Drafts, again \in BOOLEAN :
         /\ DraftFree(d) /\ ~Consumed(d) /\ order[d] # "open"
         /\ Begins(r, "send", d, again, "draft")
    /\ UNCHANGED Tables

SendCountsDate(r) ==
    /\ call[r].kind = "send" /\ call[r].at = "draft"
    /\ LET day == MailOn[call[r].draft] IN day = None \/ DateFree(day)
    /\ IF DateFull(call[r].draft) THEN Ends(r) ELSE Reaches(r, "date")
    /\ UNCHANGED Tables

\* lockAccountForBalanceChange, then the letter's insert and what pays for it
SendTakesFunds(r) ==
    LET c == call[r] IN
    /\ c.kind = "send" /\ c.at = "date" /\ AccountFree(c.account)
    /\ IF funds[c.account][Source(c.draft)] = 0 THEN Ends(r) ELSE Reaches(r, "account")
    /\ UNCHANGED Tables

CountsAccount(r) ==
    LET c == call[r] IN
    /\ \/ c.kind = "send" /\ c.at = "account"
       \/ c.kind = "checkout" /\ c.at = "inserted"
    /\ AccountCapFree(c.account)
    /\ IF WithOwn(c.draft, {c.account}) > AccountCap THEN Ends(r) ELSE Reaches(r, "account cap")
    /\ UNCHANGED Tables

\* mutant of CountsGlobal: the global count is read without its lock
CountsGlobalUnlockedMutant(r) ==
    /\ call[r].at = "account cap"
    /\ IF WithOwn(call[r].draft, Accounts) > GlobalCap THEN Ends(r) ELSE Reaches(r, "global cap")
    /\ UNCHANGED Tables

CountsGlobal(r) ==
    /\ call[r].at = "account cap" /\ GlobalCapFree
    /\ IF WithOwn(call[r].draft, Accounts) > GlobalCap THEN Ends(r) ELSE Reaches(r, "global cap")
    /\ UNCHANGED Tables

SendCountsGifts(r) ==
    /\ call[r].kind = "send" /\ call[r].at = "global cap"
    /\ call[r].draft \in GiftDrafts => GiftCapFree
    /\ IF call[r].draft \in GiftDrafts /\ GiftsToday + 1 > GiftCap
         THEN Ends(r) ELSE Reaches(r, "gift cap")
    /\ UNCHANGED Tables

\* mutant of SendComparesMail: open checkouts are compared, sent mail is not
SendComparesOrdersMutant(r) ==
    LET d == call[r].draft IN
    /\ call[r].kind = "send" /\ call[r].at = "gift cap"
    /\ IF ~call[r].again /\ (\E e \in Twin(d) : order[e] = "open")
         THEN Ends(r) ELSE Reaches(r, "compared")
    /\ UNCHANGED Tables

SendComparesMail(r) ==
    /\ call[r].kind = "send" /\ call[r].at = "gift cap"
    /\ IF ~call[r].again /\ Twin(call[r].draft) # {} THEN Ends(r) ELSE Reaches(r, "compared")
    /\ UNCHANGED Tables

Insert(d, by) ==
    letters' = letters \cup
      {[draft |-> d, nth |-> Cardinality({l \in letters : l.draft = d}) + 1, by |-> by,
        status |-> "queued", held |-> FALSE]}

\* mutant of SendCommits: a gift send takes a letter off the balance
SendCommitsFromBalanceMutant(r) ==
    LET c == call[r] IN
    /\ c.kind = "send" /\ c.at = "compared"
    /\ Insert(c.draft, Source(c.draft))
    /\ funds' = [funds EXCEPT ![c.account]["balance"] = @ - 1]
    /\ Ends(r)
    /\ UNCHANGED <<order, late, refunded>>

\* The commit: the letter and its job, what paid for it, the draft consumed
SendCommits(r) ==
    LET c == call[r] IN
    /\ c.kind = "send" /\ c.at = "compared"
    /\ Insert(c.draft, Source(c.draft))
    /\ funds' = [funds EXCEPT ![c.account][Source(c.draft)] = @ - 1]
    /\ Ends(r)
    /\ UNCHANGED <<order, late, refunded>>

-----------------------------------------------------------------------------
(* A checkout's preparation, a payment's fulfilment, a pack's full refund. *)

\* A draft whose live order has a Stripe session gets that order back, which
\* changes nothing; one whose session was never made may be replaced.
CheckoutLocksDraft(r) ==
    /\ ~Running(r)
    /\ \E d \in Drafts \ GiftDrafts, again \in BOOLEAN :
         /\ DraftFree(d) /\ ~Consumed(d) /\ order[d] \in {"none", "open"}
         /\ Begins(r, "checkout", d, again, "draft")
    /\ UNCHANGED Tables

\* The mail date, read without its lock, then the same mail, without the
\* account's: a sessionless order on a full date is cancelled, and committed
CheckoutCompares(r) ==
    LET d == call[r].draft IN
    /\ call[r].kind = "checkout" /\ call[r].at = "draft"
    /\ IF DateFull(d) \/ (~call[r].again /\ Twin(d) # {}) THEN Ends(r) ELSE Reaches(r, "checked")
    /\ order' = IF DateFull(d) THEN [order EXCEPT ![d] = "none"] ELSE order
    /\ UNCHANGED <<letters, late, funds, refunded>>

\* The insert shares the account's row: it waits for a holder, and a holder for it
CheckoutInserts(r) ==
    /\ call[r].kind = "checkout" /\ call[r].at = "checked"
    /\ AccountShareable(call[r].account)
    /\ Reaches(r, "inserted")
    /\ UNCHANGED Tables

\* mutant of CheckoutCommits: the account is locked FOR UPDATE after the insert
CheckoutCommitsLockingMutant(r) ==
    /\ call[r].kind = "checkout" /\ call[r].at = "global cap"
    /\ \A q \in Requests \ {r} : ~SharesAccount(q, call[r].account)
    /\ order' = [order EXCEPT ![call[r].draft] = "open"]
    /\ Ends(r)
    /\ UNCHANGED <<letters, late, funds, refunded>>

CheckoutCommits(r) ==
    /\ call[r].kind = "checkout" /\ call[r].at = "global cap"
    /\ order' = [order EXCEPT ![call[r].draft] = "open"]
    /\ Ends(r)
    /\ UNCHANGED <<letters, late, funds, refunded>>

\* transitionPaidCheckout: the draft, then its order, then the account
PaymentLocksDraft(r) ==
    /\ ~Running(r)
    /\ \E d \in Drafts : /\ DraftFree(d) /\ order[d] \in {"open", "lapsed"}
                         /\ Begins(r, "fulfil", d, FALSE, "draft")
    /\ UNCHANGED Tables

PaymentLocksAccount(r) ==
    /\ call[r].kind = "fulfil" /\ call[r].at = "draft" /\ AccountFree(call[r].account)
    /\ Reaches(r, "account")
    /\ UNCHANGED Tables

\* mutant of PaymentCommits: a draft other funding mailed is mailed again
PaymentCommitsAnywayMutant(r) ==
    LET d == call[r].draft IN
    /\ call[r].kind = "fulfil" /\ call[r].at = "account"
    /\ Insert(d, "order")
    /\ order' = [order EXCEPT ![d] = "paid"]
    /\ late' = IF order[d] = "lapsed" THEN late \cup {d} ELSE late
    /\ Ends(r)
    /\ UNCHANGED <<funds, refunded>>

\* Charged already, so no cap and no comparison: mailed, or, when other
\* funding mailed the draft first, refunded
PaymentCommits(r) ==
    LET d == call[r].draft IN
    /\ call[r].kind = "fulfil" /\ call[r].at = "account"
    /\ IF Consumed(d)
         THEN /\ order' = [order EXCEPT ![d] = "refunded"]
              /\ UNCHANGED <<letters, late>>
         ELSE /\ Insert(d, "order")
              /\ order' = [order EXCEPT ![d] = "paid"]
              /\ late' = IF order[d] = "lapsed" THEN late \cup {d} ELSE late
    /\ Ends(r)
    /\ UNCHANGED <<funds, refunded>>

Funded(a) == {l \in letters : Owner[l.draft] = a /\ l.by # "order"}

\* holdMailFundedByOrder: the pack's mail, read and locked before the account
RefundReadsMail(r) ==
    /\ ~Running(r)
    /\ \E a \in Accounts \ refunded :
         /\ \A q \in Requests : ~(call[q].kind = "refund" /\ call[q].account = a)
         /\ call' = [call EXCEPT ![r] = [kind |-> "refund", at |-> "read", draft |-> None,
                       again |-> FALSE, account |-> a, seen |-> Funded(a)]]
    /\ UNCHANGED Tables

RefundLocksAccount(r) ==
    /\ call[r].kind = "refund" /\ call[r].at = "read" /\ AccountFree(call[r].account)
    /\ Reaches(r, "account")
    /\ UNCHANGED Tables

\* mutant of RefundCommits: the letters left are taken, the mail is not held
RefundTakesOnlyMutant(r) ==
    LET c == call[r] IN
    /\ c.kind = "refund" /\ c.at = "account"
    /\ funds' = [funds EXCEPT ![c.account] = [s \in Balances |-> 0]]
    /\ refunded' = refunded \cup {c.account}
    /\ Ends(r)
    /\ UNCHANGED <<letters, order, late>>

RefundCommits(r) ==
    LET c == call[r] IN
    /\ c.kind = "refund" /\ c.at = "account"
    /\ letters' = {IF l \in c.seen /\ l.status = "queued" THEN [l EXCEPT !.held = TRUE] ELSE l :
                     l \in letters}
    /\ funds' = [funds EXCEPT ![c.account] = [s \in Balances |-> 0]]
    /\ refunded' = refunded \cup {c.account}
    /\ Ends(r)
    /\ UNCHANGED <<order, late>>

-----------------------------------------------------------------------------
(* What happens between requests. *)

\* A refusal further on, an error, a lost connection: the transaction rolls back
RollsBack(r) == Running(r) /\ Ends(r) /\ UNCHANGED Tables

\* The window of a checkout passes: it is not counted any more, though a
\* payment under way may still arrive
OrderLapses(d) ==
    /\ order[d] = "open"
    /\ order' = [order EXCEPT ![d] = "lapsed"]
    /\ UNCHANGED <<letters, late, funds, refunded, call>>

\* Stripe's word that its session is closed, under the draft's and order's locks
OrderCloses(d) ==
    /\ order[d] = "lapsed" /\ DraftFree(d)
    /\ order' = [order EXCEPT ![d] = "none"]
    /\ UNCHANGED <<letters, late, funds, refunded, call>>

\* The outbox takes a letter that is due and not held
OutboxTakes(l) ==
    /\ l.status = "queued" /\ ~l.held
    /\ \A r \in Requests : l \notin call[r].seen
    /\ letters' = (letters \ {l}) \cup {[l EXCEPT !.status = "taken"]}
    /\ UNCHANGED <<order, late, funds, refunded, call>>

Begin(r) == SendLocksDraft(r) \/ CheckoutLocksDraft(r) \/ PaymentLocksDraft(r) \/ RefundReadsMail(r)

Continue(r) ==
    \/ SendCountsDate(r) \/ SendTakesFunds(r) \/ SendCountsGifts(r)
    \/ SendComparesMail(r) \/ SendCommits(r)
    \/ CountsAccount(r) \/ CountsGlobal(r)
    \/ CheckoutCompares(r) \/ CheckoutInserts(r) \/ CheckoutCommits(r)
    \/ PaymentLocksAccount(r) \/ PaymentCommits(r)
    \/ RefundLocksAccount(r) \/ RefundCommits(r)

Next ==
    \/ \E r \in Requests : Begin(r) \/ Continue(r) \/ RollsBack(r)
    \/ \E d \in Drafts : OrderLapses(d) \/ OrderCloses(d)
    \/ \E l \in letters : OutboxTakes(l)

Spec == Init /\ [][Next]_vars

\* Where a transaction of each kind can be, from its first statement to its last.
OnItsWay(c) ==
    \/ c.kind = "send" /\ c.at \in {"draft", "date", "account"} \cup Capped
    \/ c.kind = "checkout" /\ c.at \in {"draft", "checked", "inserted", "account cap", "global cap"}
    \/ c.kind = "fulfil" /\ c.at \in {"draft", "account"}
    \/ c.kind = "refund" /\ c.at \in {"read", "account"}

\* mutant of Waits: a checkout locks the account FOR UPDATE once its order is counted
WaitsLockingMutant(r) ==
    LET c == call[r]
        is(kind, at) == c.kind = kind /\ c.at = at IN
    \/ is("send", "draft") /\ MailOn[c.draft] # None /\ ~DateFree(MailOn[c.draft])
    \/ (is("send", "date") \/ is("fulfil", "draft") \/ is("refund", "read")) /\ ~AccountFree(c.account)
    \/ is("checkout", "checked") /\ ~AccountShareable(c.account)
    \/ (is("send", "account") \/ is("checkout", "inserted")) /\ ~AccountCapFree(c.account)
    \/ c.at = "account cap" /\ ~GlobalCapFree
    \/ is("send", "global cap") /\ c.draft \in GiftDrafts /\ ~GiftCapFree
    \/ is("checkout", "global cap") /\ \E q \in Requests \ {r} : SharesAccount(q, c.account)

\* The next statement takes a lock that another holds.
Waits(r) ==
    LET c == call[r]
        is(kind, at) == c.kind = kind /\ c.at = at IN
    \/ is("send", "draft") /\ MailOn[c.draft] # None /\ ~DateFree(MailOn[c.draft])
    \/ (is("send", "date") \/ is("fulfil", "draft") \/ is("refund", "read")) /\ ~AccountFree(c.account)
    \/ is("checkout", "checked") /\ ~AccountShareable(c.account)
    \/ (is("send", "account") \/ is("checkout", "inserted")) /\ ~AccountCapFree(c.account)
    \/ c.at = "account cap" /\ ~GlobalCapFree
    \/ is("send", "global cap") /\ c.draft \in GiftDrafts /\ ~GiftCapFree

-----------------------------------------------------------------------------
(* Properties *)

TypeOK ==
    /\ letters \subseteq Letter
    /\ order \in [Drafts -> {"none", "open", "lapsed", "paid", "refunded"}]
    /\ late \subseteq Drafts /\ refunded \subseteq Accounts
    /\ funds \in [Accounts -> [Balances -> Nat]]
    /\ \A r \in Requests : call[r].seen \subseteq Letter

\* A draft is mailed once, however many sends and payments ask for it at once:
\* its row is locked first and found consumed by all but one of them.
OncePerDraft == \A l, m \in letters : l.draft = m.draft => l = m

\* Until its pack is refunded an account has lost exactly one letter or gift
\* for each letter these paid for: two sends never spend the same one, and a
\* send that was refused, or whose connection was lost, spent none.
EachLetterPaidOnce ==
    \A a \in Accounts \ refunded : \A s \in Balances :
        funds[a][s] + Cardinality({l \in Funded(a) : l.by = s}) = Funds

\* What requests take from an account is what its letters were paid with, and is never owed.
FundsAgree == TypeOK /\ EachLetterPaidOnce

\* betaSpendLimits: a count is a ceiling only if nothing adds a row between it
\* and the commit. Letters and open orders together stay within each cap; only
\* an order paid after its window may be mailed past them.
InTime(l) == ~(l.by = "order" /\ l.draft \in late)
Capacity(A) == Cardinality({l \in letters : Owner[l.draft] \in A /\ InTime(l)})
             + Cardinality({d \in Drafts : Owner[d] \in A /\ order[d] = "open"})
CapsHold ==
    /\ \A a \in Accounts : Capacity({a}) <= AccountCap
    /\ Capacity(Accounts) <= GlobalCap
    /\ GiftsToday <= GiftCap

\* mailDateCapacity: two sends never both take the last place of a mail date.
\* (A checkout holds no place, so letters it paid for may exceed the cap.)
DateCapHolds ==
    \A day \in {MailOn[d] : d \in Drafts} \ {None} :
        Cardinality({l \in letters : /\ l.status = "queued" /\ l.by # "order"
                                     /\ MailOn[l.draft] = day}) <= DateCap

\* No interleaving of counts and inserts passes a limit, of an account, of all or of a date.
LimitsHold == CapsHold /\ DateCapHolds

Mailed == {l \in letters' : ~\E m \in letters : m.draft = l.draft /\ m.nth = l.nth}

\* #412: a send that did not ask for another copy is never mailed beside the
\* same mail of its account, even when both were asked for at the same moment.
NoTwins ==
    [][\A l \in Mailed :
         (l.by # "order" /\ \E r \in Requests : call[r].draft = l.draft /\ ~call[r].again)
           => ~\E m \in letters : /\ m.draft # l.draft /\ Owner[m.draft] = Owner[l.draft]
                                  /\ Mail[m.draft] = Mail[l.draft]]_vars

HoldsWhatItRead ==
    \A a \in refunded' \ refunded : \E r \in Requests :
        /\ call[r].account = a /\ call[r].kind = "refund"
        /\ \A l \in letters' : l.status = "queued" /\ (\E s \in call[r].seen :
                 s.draft = l.draft /\ s.nth = l.nth) => l.held
SpendsNoRefunded ==
    \A l \in Mailed : l.by # "order" => Owner[l.draft] \notin refunded
\* #696: once a pack's refund commits, what it paid for and had been sent when
\* the refund read its mail is held unless it had gone to the printer, and no
\* send spends the pack any more. (What commits between that read and the
\* account's lock is mailed: holdMailFundedByOrder says so.)
RefundReachesMail == [][HoldsWhatItRead /\ SpendsNoRefunded]_vars

\* Of the requests under way one can always go on, without any being killed as
\* a deadlock's victim: the draft, its date, the account and then the caps are
\* taken in one order by sends, checkouts, payments and refunds alike.
SomeoneIsFree ==
    (\E r \in Requests : Running(r)) =>
        \E r \in Requests : Running(r) /\ OnItsWay(call[r]) /\ ~Waits(r)

\* Who waits for no lock can go on, whatever it then finds, and who waits cannot: nothing but a
\* lock stops a transaction between its first statement and its last.
OnlyLocksStop ==
    \A r \in Requests : Running(r) => (ENABLED Continue(r) <=> ~Waits(r))

=============================================================================
