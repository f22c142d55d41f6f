------------------------- MODULE SendRequestsProofs -------------------------
(***************************************************************************)
(* For any number of requests, accounts and drafts and for all limits: a   *)
(* draft is mailed once, a refund reaches the mail its pack paid for, an   *)
(* account loses what its letters were paid with, no limit is passed, and  *)
(* no mail is sent beside its copy that was not asked for.                 *)
(*                                                                         *)
(* The argument is that of the locks.  Whoever sends a draft holds its row *)
(* and so found it unmailed; whoever spends from an account holds the      *)
(* account's row and so what it found there is still there; what a refund  *)
(* has read it has locked; and who has counted holds the lock of the count *)
(* until its row is in.                                                    *)
(***************************************************************************)
EXTENDS SendRequests, FiniteSetTheorems, TLAPS

Kinds == {"none", "send", "checkout", "fulfil", "refund"}
Steps == {"idle", "draft", "date", "checked", "inserted", "read", "account"} \cup Capped
Call == [kind : Kinds, at : Steps, draft : Drafts \cup {None}, account : Accounts \cup {None},
         again : BOOLEAN, seen : SUBSET Letter]
Spending == {"account"} \cup Capped

Types ==
    /\ letters \subseteq Letter
    /\ order \in [Drafts -> {"none", "open", "lapsed", "paid", "refunded"}]
    /\ late \subseteq Drafts /\ refunded \subseteq Accounts
    /\ funds \in [Accounts -> [Balances -> Nat]]
    /\ call \in [Requests -> Call]

\* a request under way is about one draft of its account, or is a refund of one
NoneIdle == \A r \in Requests : call[r].at = "idle" <=> call[r].kind = "none"
AboutDraft ==
    \A r \in Requests : call[r].kind \in {"send", "checkout", "fulfil"} =>
        call[r].draft \in Drafts /\ call[r].account = Owner[call[r].draft]
AboutAccount ==
    \A r \in Requests : call[r].kind = "refund" =>
        call[r].draft = None /\ call[r].account \in Accounts
OnlyRefundsRead == \A r \in Requests : call[r].kind # "refund" => call[r].seen = {}

DraftsHeldOnce ==
    \A r, q \in Requests :
        call[r].kind # "none" /\ call[q].kind # "none" /\ call[r].draft # None
          /\ call[r].draft = call[q].draft => r = q

SendsAreOfUnmailed == \A r \in Requests : call[r].kind = "send" => ~Consumed(call[r].draft)

AccountsHeldOnce ==
    \A r, q \in Requests : \A a \in Accounts : HoldsAccount(r, a) /\ HoldsAccount(q, a) => r = q

NotYetRefunded ==
    \A r \in Requests : call[r].kind = "refund" => call[r].account \notin refunded
RefundsOnce ==
    \A r, q \in Requests :
        call[r].kind = "refund" /\ call[q].kind = "refund"
          /\ call[r].account = call[q].account => r = q

SeenStays == \A r \in Requests : call[r].seen \subseteq letters
SeenIsFunded == \A r \in Requests : \A l \in call[r].seen : Owner[l.draft] = call[r].account

FundsCover ==
    \A r \in Requests : call[r].kind = "send" /\ call[r].at \in Spending =>
        funds[call[r].account][Source(call[r].draft)] > 0

RefundedEmpty == \A a \in refunded : \A s \in Balances : funds[a][s] = 0

CallInv ==
    /\ NoneIdle /\ AboutDraft /\ AboutAccount /\ OnlyRefundsRead
    /\ DraftsHeldOnce /\ AccountsHeldOnce /\ RefundsOnce /\ SeenIsFunded
TableInv ==
    /\ SendsAreOfUnmailed /\ OncePerDraft /\ FundsCover /\ RefundedEmpty
    /\ NotYetRefunded /\ SeenStays
IInv == Types /\ CallInv /\ TableInv

USE SendAssumption DEF Kinds, Steps, Capped, Spending, Running

\* What a transaction writes is in the tables; whether a letter was retaken by
\* the outbox or held, its draft stays consumed.
LEMMA ConsumedByTables ==
    ASSUME UNCHANGED letters PROVE \A d \in Drafts : Consumed(d)' <=> Consumed(d)
  BY DEF Consumed

\* The requests beside the one that moves are where they were.
OthersStay(r) == \A q \in Requests \ {r} : call'[q] = call[q]
SameRequest(r) ==
    /\ call'[r].kind = call[r].kind /\ call'[r].draft = call[r].draft
    /\ call'[r].account = call[r].account /\ call'[r].seen = call[r].seen
    /\ call'[r].again = call[r].again

LEMMA MovesOne ==
    ASSUME Types, NEW r \in Requests, NEW step \in Steps, Reaches(r, step)
    PROVE  /\ call' \in [Requests -> Call] /\ OthersStay(r) /\ SameRequest(r)
           /\ call'[r].at = step
<1>1. call \in [Requests -> Call] /\ call[r] \in Call
  BY DEF Types
<1>2. PICK c \in Call : c = [call[r] EXCEPT !.at = step]
  BY <1>1 DEF Call
<1>3. call' = [call EXCEPT ![r] = c]
  BY <1>2 DEF Reaches
<1>4. /\ c.at = step /\ c.kind = call[r].kind /\ c.draft = call[r].draft
      /\ c.account = call[r].account /\ c.seen = call[r].seen /\ c.again = call[r].again
  BY <1>1, <1>2 DEF Call
<1> QED
  <2> HIDE <1>2
  <2> QED BY <1>1, <1>3, <1>4 DEF OthersStay, SameRequest

\* A request that only goes on, having taken the lock its next step needs.
Progress(r, step) ==
    /\ UNCHANGED Tables
    /\ call[r].kind # "none" /\ step # "idle"
    /\ call' \in [Requests -> Call] /\ OthersStay(r) /\ SameRequest(r) /\ call'[r].at = step
    /\ call[r].kind # "checkout" /\ step \in Spending /\ call[r].at \notin Spending
         => AccountFree(call[r].account)
    /\ call[r].kind = "send" /\ step \in Spending /\ call[r].at \notin Spending
         => funds[call[r].account][Source(call[r].draft)] > 0

LEMMA GoesOn ==
    ASSUME IInv, NEW r \in Requests, NEW step \in Steps, Progress(r, step)
    PROVE  IInv'
<1>1. /\ call \in [Requests -> Call]
      /\ letters' = letters /\ order' = order /\ late' = late /\ funds' = funds
      /\ refunded' = refunded
  BY DEF IInv, Types, Tables, Progress
<1>2. \A q \in Requests : /\ call'[q].kind = call[q].kind /\ call'[q].draft = call[q].draft
                          /\ call'[q].account = call[q].account /\ call'[q].seen = call[q].seen
                          /\ q # r => call'[q] = call[q]
  BY DEF OthersStay, SameRequest, Progress
<1>3. call'[r].at = step /\ step # "idle" /\ call[r].kind # "none"
  BY DEF Progress
<1>4. Types'
  BY <1>1 DEF IInv, Types, Progress
<1>5. NoneIdle'
  <2>1. NoneIdle
    BY DEF IInv, CallInv
  <2> QED
    BY <1>2, <1>3, <2>1 DEF NoneIdle
<1>6. AboutDraft'
  BY <1>2 DEF IInv, CallInv, TableInv, AboutDraft
<1>7. AboutAccount'
  BY <1>2 DEF IInv, CallInv, TableInv, AboutAccount
<1>8. OnlyRefundsRead'
  BY <1>2 DEF IInv, CallInv, TableInv, OnlyRefundsRead
<1>9. DraftsHeldOnce'
  <2>1. DraftsHeldOnce
    BY DEF IInv, CallInv
  <2> SUFFICES ASSUME NEW p \in Requests, NEW q \in Requests,
                      call'[p].kind # "none", call'[q].kind # "none", call'[p].draft # None,
                      call'[p].draft = call'[q].draft
               PROVE  p = q
    BY DEF DraftsHeldOnce
  <2>2. /\ call[p].kind # "none" /\ call[q].kind # "none" /\ call[p].draft # None
        /\ call[p].draft = call[q].draft
    BY <1>2
  <2> QED
    BY <2>1, <2>2 DEF DraftsHeldOnce
<1>10. SendsAreOfUnmailed'
  <2>1. SendsAreOfUnmailed
    BY DEF IInv, TableInv
  <2>2. \A d : Consumed(d)' <=> Consumed(d)
    BY <1>1 DEF Consumed
  <2> QED
    BY <1>2, <2>1, <2>2 DEF SendsAreOfUnmailed
<1>11. OncePerDraft'
  BY <1>1 DEF IInv, CallInv, TableInv, OncePerDraft
<1>12. AccountsHeldOnce'
  <2> SUFFICES ASSUME NEW p \in Requests, NEW q \in Requests, NEW a \in Accounts,
                      HoldsAccount(p, a)', HoldsAccount(q, a)'
               PROVE  p = q
    BY DEF AccountsHeldOnce
  <2>1. \A x \in Requests : x # r /\ HoldsAccount(x, a)' => HoldsAccount(x, a)
    BY <1>2 DEF HoldsAccount
  <2>2. CASE call[r].at \in Spending
    <3>1. HoldsAccount(r, a)' => HoldsAccount(r, a)
      BY <1>2, <2>2 DEF HoldsAccount
    <3> QED BY <2>1, <3>1 DEF IInv, CallInv, TableInv, AccountsHeldOnce
  <2>3. CASE call[r].at \notin Spending
    <3>1. HoldsAccount(r, a)' => \A x \in Requests : ~HoldsAccount(x, a)
      BY <1>2, <1>3, <2>3 DEF HoldsAccount, AccountFree, Progress
    <3> QED BY <2>1, <3>1 DEF IInv, CallInv, TableInv, AccountsHeldOnce
  <2> QED BY <2>2, <2>3
<1>13. FundsCover'
  <2>1. FundsCover
    BY DEF IInv, TableInv
  <2> SUFFICES ASSUME NEW q \in Requests, call'[q].kind = "send", call'[q].at \in Spending
               PROVE  funds'[call'[q].account][Source(call'[q].draft)] > 0
    BY DEF FundsCover
  <2>2. /\ call[q].kind = "send" /\ call'[q].account = call[q].account
        /\ call'[q].draft = call[q].draft
    BY <1>2
  <2>3. funds[call[q].account][Source(call[q].draft)] > 0
    <3>1. CASE q = r
      BY <3>1, <1>3, <2>1, <2>2 DEF FundsCover, Progress
    <3>2. CASE q # r
      BY <3>2, <1>2, <2>1, <2>2 DEF FundsCover
    <3> QED
      BY <3>1, <3>2
  <2> QED
    BY <1>1, <2>2, <2>3
<1>14. RefundedEmpty'
  BY <1>1 DEF IInv, CallInv, TableInv, RefundedEmpty
<1>15. NotYetRefunded'
  BY <1>1, <1>2 DEF IInv, CallInv, TableInv, NotYetRefunded
<1>16. RefundsOnce'
  <2>1. RefundsOnce
    BY DEF IInv, CallInv
  <2> SUFFICES ASSUME NEW p \in Requests, NEW q \in Requests,
                      call'[p].kind = "refund", call'[q].kind = "refund",
                      call'[p].account = call'[q].account
               PROVE  p = q
    BY DEF RefundsOnce
  <2>2. call[p].kind = "refund" /\ call[q].kind = "refund" /\ call[p].account = call[q].account
    BY <1>2
  <2> QED
    BY <2>1, <2>2 DEF RefundsOnce
<1>17. SeenStays'
  <2>1. SeenStays
    BY DEF IInv, TableInv
  <2> QED
    BY <1>1, <1>2, <2>1 DEF SeenStays
<1>18. SeenIsFunded'
  BY <1>2 DEF IInv, CallInv, TableInv, SeenIsFunded
<1> QED
  BY <1>4, <1>5, <1>6, <1>7, <1>8, <1>9, <1>10, <1>11, <1>12, <1>13, <1>14, <1>15, <1>16,
     <1>17, <1>18 DEF IInv, CallInv, TableInv

\* A request that ends frees what it held.
LEMMA EndsCall ==
    ASSUME Types, CallInv, NEW r \in Requests, Ends(r)
    PROVE  /\ call' \in [Requests -> Call] /\ CallInv'
           /\ call'[r].at = "idle" /\ call'[r].kind = "none" /\ call'[r].seen = {}
           /\ call'[r].account = None
           /\ \A q \in Requests \ {r} : call'[q] = call[q]
<1>1. call \in [Requests -> Call]
  BY DEF Types
<1>2. /\ call'[r].at = "idle" /\ call'[r].kind = "none" /\ call'[r].seen = {}
      /\ call'[r].account = None
      /\ \A q \in Requests \ {r} : call'[q] = call[q]
  BY <1>1 DEF Ends, Idle
<1>3. call' \in [Requests -> Call]
  BY <1>1 DEF Ends, Idle, Call
<1>4. NoneIdle'
  BY <1>2 DEF CallInv, NoneIdle
<1>5. AboutDraft'
  BY <1>2 DEF CallInv, AboutDraft
<1>6. AboutAccount'
  BY <1>2 DEF CallInv, AboutAccount
<1>7. OnlyRefundsRead'
  BY <1>2 DEF CallInv, OnlyRefundsRead
<1>8. DraftsHeldOnce'
  BY <1>2 DEF CallInv, DraftsHeldOnce
<1>9. AccountsHeldOnce'
  <2>1. \A q \in Requests, a \in Accounts : HoldsAccount(q, a)' => HoldsAccount(q, a)
    BY <1>2 DEF HoldsAccount
  <2> QED BY <2>1 DEF CallInv, AccountsHeldOnce
<1>10. RefundsOnce'
  BY <1>2 DEF CallInv, RefundsOnce
<1>11. SeenIsFunded'
  BY <1>2 DEF CallInv, SeenIsFunded
<1> QED
  BY <1>2, <1>3, <1>4, <1>5, <1>6, <1>7, <1>8, <1>9, <1>10, <1>11 DEF CallInv

\* A request that ends, its tables as they are: a refusal, an answer, a rollback.
LEMMA Stops ==
    ASSUME IInv, NEW r \in Requests, UNCHANGED Tables, Ends(r)
    PROVE  IInv'
<1>1. /\ letters' = letters /\ order' = order /\ late' = late /\ funds' = funds
      /\ refunded' = refunded
  BY DEF Tables
<1>2. /\ call' \in [Requests -> Call] /\ CallInv'
      /\ call'[r].kind = "none" /\ call'[r].seen = {}
      /\ \A q \in Requests \ {r} : call'[q] = call[q]
  BY EndsCall DEF IInv
<1>3. Types'
  BY <1>1, <1>2 DEF IInv, Types
<1>4. SendsAreOfUnmailed'
  BY <1>1, <1>2 DEF IInv, TableInv, SendsAreOfUnmailed, Consumed
<1>5. OncePerDraft'
  BY <1>1 DEF IInv, TableInv, OncePerDraft
<1>6. FundsCover'
  BY <1>1, <1>2 DEF IInv, TableInv, FundsCover, Source
<1>7. RefundedEmpty'
  BY <1>1 DEF IInv, TableInv, RefundedEmpty
<1>8. NotYetRefunded'
  BY <1>1, <1>2 DEF IInv, TableInv, NotYetRefunded
<1>9. SeenStays'
  BY <1>1, <1>2 DEF IInv, TableInv, SeenStays
<1> QED BY <1>2, <1>3, <1>4, <1>5, <1>6, <1>7, <1>8, <1>9 DEF IInv, TableInv

\* A request about a draft begins by locking it.
LEMMA BeginsDraft ==
    ASSUME IInv, NEW r \in Requests, NEW kind \in {"send", "checkout", "fulfil"},
           NEW d \in Drafts, NEW again \in BOOLEAN,
           UNCHANGED Tables, ~Running(r), DraftFree(d), kind = "send" => ~Consumed(d),
           Begins(r, kind, d, again, "draft")
    PROVE  IInv'
<1>1. /\ letters' = letters /\ order' = order /\ late' = late /\ funds' = funds
      /\ refunded' = refunded /\ call \in [Requests -> Call]
  BY DEF Tables, IInv, Types
<1>2. /\ call'[r].at = "draft" /\ call'[r].kind = kind /\ call'[r].seen = {}
      /\ call'[r].account = Owner[d] /\ call'[r].draft = d
      /\ \A q \in Requests \ {r} : call'[q] = call[q]
  BY <1>1 DEF Begins
<1>3. Types'
  <2>1. call' \in [Requests -> Call]
    BY <1>1 DEF Begins, Call
  <2> QED BY <1>1, <2>1 DEF IInv, Types
<1>4. NoneIdle'
  BY <1>2 DEF IInv, CallInv, NoneIdle
<1>5. AboutDraft'
  BY <1>2 DEF IInv, CallInv, AboutDraft
<1>6. AboutAccount'
  BY <1>2 DEF IInv, CallInv, AboutAccount
<1>7. OnlyRefundsRead'
  BY <1>2 DEF IInv, CallInv, OnlyRefundsRead
<1>8. DraftsHeldOnce'
  <2>1. \A q \in Requests : call[q].kind # "none" => call[q].draft # d
    BY DEF DraftFree, HoldsDraft, IInv, CallInv, NoneIdle
  <2> QED BY <1>2, <2>1 DEF IInv, CallInv, DraftsHeldOnce
<1>9. AccountsHeldOnce'
  <2>1. \A q \in Requests, a \in Accounts : HoldsAccount(q, a)' => HoldsAccount(q, a)
    BY <1>2 DEF HoldsAccount
  <2> QED BY <2>1 DEF IInv, CallInv, AccountsHeldOnce
<1>10. RefundsOnce'
  BY <1>2 DEF IInv, CallInv, RefundsOnce
<1>11. SeenIsFunded'
  BY <1>2 DEF IInv, CallInv, SeenIsFunded
<1>12. SendsAreOfUnmailed'
  BY <1>1, <1>2 DEF IInv, TableInv, SendsAreOfUnmailed, Consumed
<1>13. OncePerDraft'
  BY <1>1 DEF IInv, TableInv, OncePerDraft
<1>14. FundsCover'
  BY <1>1, <1>2 DEF IInv, TableInv, FundsCover, Source
<1>15. RefundedEmpty'
  BY <1>1 DEF IInv, TableInv, RefundedEmpty
<1>16. NotYetRefunded'
  BY <1>1, <1>2 DEF IInv, TableInv, NotYetRefunded
<1>17. SeenStays'
  BY <1>1, <1>2 DEF IInv, TableInv, SeenStays
<1> QED
  BY <1>3, <1>4, <1>5, <1>6, <1>7, <1>8, <1>9, <1>10, <1>11, <1>12, <1>13, <1>14, <1>15,
     <1>16, <1>17 DEF IInv, CallInv, TableInv

LEMMA SourceIsBalance == \A d \in Drafts : Source(d) \in Balances
  BY DEF Source, Balances

\* A letter is inserted for a draft that has none, so it is the draft's first.
LEMMA Inserts ==
    ASSUME Types, OncePerDraft, NEW d \in Drafts, NEW by \in Balances \cup {"order"},
           ~Consumed(d), Insert(d, by)
    PROVE  /\ letters' \subseteq Letter /\ OncePerDraft' /\ letters \subseteq letters'
           /\ \A l \in letters' \ letters : l.draft = d /\ l.by = by
           /\ \A e \in Drafts : Consumed(e)' => Consumed(e) \/ e = d
<1>1. {l \in letters : l.draft = d} = {}
  BY DEF Consumed
<1>2. Cardinality({l \in letters : l.draft = d}) + 1 = 1
  BY <1>1, FS_EmptySet
<1> DEFINE new == [draft |-> d, nth |-> 1, by |-> by, status |-> "queued", held |-> FALSE]
<1>3. letters' = letters \cup {new}
  BY <1>2 DEF Insert
<1>4. new \in Letter /\ new.draft = d /\ new.by = by
  BY DEF Letter
<1> HIDE DEF new
<1>5. letters' \subseteq Letter
  BY <1>3, <1>4 DEF Types
<1>6. OncePerDraft'
  BY <1>3, <1>4 DEF OncePerDraft, Consumed
<1>7. \A e \in Drafts : Consumed(e)' => Consumed(e) \/ e = d
  BY <1>3, <1>4 DEF Consumed
<1> QED BY <1>3, <1>4, <1>5, <1>6, <1>7

LEMMA SendCommitsKeeps ==
    ASSUME IInv, NEW r \in Requests, SendCommits(r)
    PROVE  IInv'
<1> DEFINE d == call[r].draft
           a == call[r].account
           s == Source(d)
<1>1. /\ call[r].kind = "send" /\ call[r].at = "compared" /\ Ends(r) /\ Insert(d, s)
      /\ order' = order /\ late' = late /\ refunded' = refunded
      /\ funds' = [funds EXCEPT ![a][s] = @ - 1]
  BY DEF SendCommits
<1>2. /\ d \in Drafts /\ a = Owner[d] /\ a \in Accounts /\ s \in Balances
      /\ ~Consumed(d) /\ funds[a][s] > 0
  BY <1>1, SourceIsBalance
     DEF IInv, CallInv, TableInv, AboutDraft, SendsAreOfUnmailed, FundsCover
<1>3. /\ call' \in [Requests -> Call] /\ CallInv'
      /\ call'[r].kind = "none" /\ call'[r].seen = {}
      /\ \A q \in Requests \ {r} : call'[q] = call[q]
  BY <1>1, EndsCall DEF IInv
<1>4. /\ letters' \subseteq Letter /\ OncePerDraft' /\ letters \subseteq letters'
      /\ \A e \in Drafts : Consumed(e)' => Consumed(e) \/ e = d
  BY <1>1, <1>2, Inserts DEF IInv, TableInv
<1>5. /\ funds' \in [Accounts -> [Balances -> Nat]]
      /\ \A b \in Accounts : b # a => funds'[b] = funds[b]
  <2>1. funds \in [Accounts -> [Balances -> Nat]]
    BY DEF IInv, Types
  <2>2. funds[a] \in [Balances -> Nat] /\ funds[a][s] - 1 \in Nat
    BY <1>2, <2>1
  <2>3. [funds[a] EXCEPT ![s] = @ - 1] \in [Balances -> Nat]
    BY <2>2
  <2> QED BY <1>1, <1>2, <2>1, <2>3
<1>6. Types'
  BY <1>1, <1>3, <1>4, <1>5 DEF IInv, Types
<1>7. SendsAreOfUnmailed'
  <2> SUFFICES ASSUME NEW q \in Requests, call'[q].kind = "send"
               PROVE  \A l \in letters' : l.draft # call'[q].draft
    BY DEF SendsAreOfUnmailed, Consumed
  <2>1. q # r /\ call'[q] = call[q] /\ call[q].kind = "send" /\ call[q].draft \in Drafts
    BY <1>3 DEF IInv, CallInv, AboutDraft
  <2>2. call[q].draft # d
    BY <1>1, <1>2, <2>1 DEF IInv, CallInv, DraftsHeldOnce
  <2> QED BY <1>4, <2>1, <2>2 DEF IInv, TableInv, SendsAreOfUnmailed, Consumed
<1>8. FundsCover'
  <2> SUFFICES ASSUME NEW q \in Requests, call'[q].kind = "send", call'[q].at \in Spending
               PROVE  funds'[call'[q].account][Source(call'[q].draft)] > 0
    BY DEF FundsCover, Source
  <2>1. q # r /\ call'[q] = call[q] /\ call[q].account \in Accounts
    BY <1>3 DEF IInv, CallInv, AboutDraft
  <2>2. call[q].account # a
    BY <1>1, <1>2, <2>1 DEF IInv, CallInv, AccountsHeldOnce, HoldsAccount
  <2> QED BY <1>5, <2>1, <2>2 DEF IInv, TableInv, FundsCover
<1>9. RefundedEmpty'
  <2>1. RefundedEmpty /\ refunded' = refunded /\ refunded \subseteq Accounts
    BY <1>1 DEF IInv, TableInv, Types
  <2>2. a \notin refunded
    BY <1>2, <2>1 DEF RefundedEmpty
  <2>3. \A b \in refunded : funds'[b] = funds[b]
    BY <1>5, <2>1, <2>2
  <2> QED BY <2>1, <2>3 DEF RefundedEmpty
<1>10. NotYetRefunded'
  BY <1>1, <1>3 DEF IInv, TableInv, NotYetRefunded
<1>11. SeenStays'
  BY <1>3, <1>4 DEF IInv, TableInv, SeenStays
<1> QED BY <1>3, <1>4, <1>6, <1>7, <1>8, <1>9, <1>10, <1>11 DEF IInv, TableInv

\* A checkout writes its order's row only.
LEMMA OrderOnly ==
    ASSUME IInv, NEW r \in Requests,
           order' \in [Drafts -> {"none", "open", "lapsed", "paid", "refunded"}],
           UNCHANGED <<letters, late, funds, refunded>>,
           Ends(r)
    PROVE  IInv'
<1>1. /\ call' \in [Requests -> Call] /\ CallInv'
      /\ call'[r].kind = "none" /\ call'[r].seen = {}
      /\ \A q \in Requests \ {r} : call'[q] = call[q]
  BY EndsCall DEF IInv
<1>2. letters' = letters /\ late' = late /\ funds' = funds /\ refunded' = refunded
  OBVIOUS
<1>3. Types'
  BY <1>1, <1>2 DEF IInv, Types
<1>4. SendsAreOfUnmailed'
  BY <1>1, <1>2 DEF IInv, TableInv, SendsAreOfUnmailed, Consumed
<1>5. OncePerDraft'
  BY <1>2 DEF IInv, TableInv, OncePerDraft
<1>6. FundsCover'
  BY <1>1, <1>2 DEF IInv, TableInv, FundsCover, Source
<1>7. RefundedEmpty'
  BY <1>2 DEF IInv, TableInv, RefundedEmpty
<1>8. NotYetRefunded'
  BY <1>1, <1>2 DEF IInv, TableInv, NotYetRefunded
<1>9. SeenStays'
  BY <1>1, <1>2 DEF IInv, TableInv, SeenStays
<1> QED BY <1>1, <1>3, <1>4, <1>5, <1>6, <1>7, <1>8, <1>9 DEF IInv, TableInv

LEMMA PaymentCommitsKeeps ==
    ASSUME IInv, NEW r \in Requests, PaymentCommits(r)
    PROVE  IInv'
<1> DEFINE d == call[r].draft
<1>1. /\ call[r].kind = "fulfil" /\ call[r].at = "account" /\ Ends(r)
      /\ funds' = funds /\ refunded' = refunded
  BY DEF PaymentCommits
<1>2. d \in Drafts /\ call[r].account \in Accounts
  BY <1>1 DEF IInv, CallInv, AboutDraft
<1>3. /\ call' \in [Requests -> Call] /\ CallInv'
      /\ call'[r].kind = "none" /\ call'[r].seen = {}
      /\ \A q \in Requests \ {r} : call'[q] = call[q]
  BY <1>1, EndsCall DEF IInv
<1>4. CASE Consumed(d)
  BY <1>1, <1>2, <1>4, OrderOnly DEF PaymentCommits, IInv, Types
<1>5. CASE ~Consumed(d)
  <2>1. /\ Insert(d, "order") /\ order' = [order EXCEPT ![d] = "paid"]
        /\ late' = IF order[d] = "lapsed" THEN late \cup {d} ELSE late
    BY <1>5 DEF PaymentCommits
  <2>2. /\ letters' \subseteq Letter /\ OncePerDraft' /\ letters \subseteq letters'
        /\ \A e \in Drafts : Consumed(e)' => Consumed(e) \/ e = d
    BY <1>2, <1>5, <2>1, Inserts DEF IInv, TableInv
  <2>3. Types'
    BY <1>1, <1>2, <1>3, <2>1, <2>2 DEF IInv, Types
  <2>4. SendsAreOfUnmailed'
    <3> SUFFICES ASSUME NEW q \in Requests, call'[q].kind = "send"
                 PROVE  \A l \in letters' : l.draft # call'[q].draft
      BY DEF SendsAreOfUnmailed, Consumed
    <3>1. q # r /\ call'[q] = call[q] /\ call[q].kind = "send" /\ call[q].draft \in Drafts
      BY <1>3 DEF IInv, CallInv, AboutDraft
    <3>2. call[q].draft # d
      BY <1>1, <1>2, <3>1 DEF IInv, CallInv, DraftsHeldOnce
    <3> QED BY <2>2, <3>1, <3>2 DEF IInv, TableInv, SendsAreOfUnmailed, Consumed
  <2>5. FundsCover'
    BY <1>1, <1>3 DEF IInv, TableInv, FundsCover, Source
  <2>6. RefundedEmpty'
    BY <1>1 DEF IInv, TableInv, RefundedEmpty
  <2>7. NotYetRefunded'
    BY <1>1, <1>3 DEF IInv, TableInv, NotYetRefunded
  <2>8. SeenStays'
    BY <1>3, <2>2 DEF IInv, TableInv, SeenStays
  <2> QED BY <1>3, <2>2, <2>3, <2>4, <2>5, <2>6, <2>7, <2>8 DEF IInv, TableInv
<1> QED BY <1>4, <1>5

LEMMA RefundReadsMailKeeps ==
    ASSUME IInv, NEW r \in Requests, RefundReadsMail(r)
    PROVE  IInv'
<1>1. /\ letters' = letters /\ order' = order /\ late' = late /\ funds' = funds
      /\ refunded' = refunded /\ call \in [Requests -> Call]
  BY DEF Tables, IInv, Types, RefundReadsMail
<1>2. PICK a \in Accounts \ refunded :
         /\ \A q \in Requests : ~(call[q].kind = "refund" /\ call[q].account = a)
         /\ call' = [call EXCEPT ![r] = [kind |-> "refund", at |-> "read", draft |-> None,
                       again |-> FALSE, account |-> a, seen |-> Funded(a)]]
  BY DEF RefundReadsMail
<1>3. Funded(a) \subseteq letters /\ Funded(a) \subseteq Letter
      /\ \A l \in Funded(a) : Owner[l.draft] = a
  BY DEF Funded, IInv, Types
<1>4. /\ call'[r].at = "read" /\ call'[r].kind = "refund" /\ call'[r].draft = None
      /\ call'[r].account = a /\ call'[r].seen = Funded(a)
      /\ \A q \in Requests \ {r} : call'[q] = call[q]
  BY <1>1, <1>2
<1>5. Types'
  <2>1. call' \in [Requests -> Call]
    BY <1>1, <1>2, <1>3 DEF Call
  <2> QED BY <1>1, <2>1 DEF IInv, Types
<1>6. NoneIdle'
  BY <1>4 DEF IInv, CallInv, NoneIdle
<1>7. AboutDraft'
  BY <1>4 DEF IInv, CallInv, AboutDraft
<1>8. AboutAccount'
  BY <1>4 DEF IInv, CallInv, AboutAccount
<1>9. OnlyRefundsRead'
  BY <1>4 DEF IInv, CallInv, OnlyRefundsRead
<1>10. DraftsHeldOnce'
  BY <1>4 DEF IInv, CallInv, DraftsHeldOnce
<1>11. AccountsHeldOnce'
  <2>1. \A q \in Requests, b \in Accounts : HoldsAccount(q, b)' => HoldsAccount(q, b)
    BY <1>4 DEF HoldsAccount
  <2> QED BY <2>1 DEF IInv, CallInv, AccountsHeldOnce
<1>12. RefundsOnce'
  BY <1>2, <1>4 DEF IInv, CallInv, RefundsOnce
<1>13. SeenIsFunded'
  BY <1>3, <1>4 DEF IInv, CallInv, SeenIsFunded
<1>14. SendsAreOfUnmailed'
  BY <1>1, <1>4 DEF IInv, TableInv, SendsAreOfUnmailed, Consumed
<1>15. OncePerDraft'
  BY <1>1 DEF IInv, TableInv, OncePerDraft
<1>16. FundsCover'
  BY <1>1, <1>4 DEF IInv, TableInv, FundsCover, Source
<1>17. RefundedEmpty'
  BY <1>1 DEF IInv, TableInv, RefundedEmpty
<1>18. NotYetRefunded'
  BY <1>1, <1>2, <1>4 DEF IInv, TableInv, NotYetRefunded
<1>19. SeenStays'
  BY <1>1, <1>3, <1>4 DEF IInv, TableInv, SeenStays
<1> QED
  BY <1>5, <1>6, <1>7, <1>8, <1>9, <1>10, <1>11, <1>12, <1>13, <1>14, <1>15, <1>16, <1>17,
     <1>18, <1>19 DEF IInv, CallInv, TableInv

\* What a refund's commit makes of the letters: each stays, some of them held.
LEMMA RefundHolds ==
    ASSUME IInv, NEW r \in Requests, RefundCommits(r)
    PROVE  /\ letters' \subseteq Letter
           /\ \A m \in letters' : \E l \in letters :
                /\ m.draft = l.draft /\ m.nth = l.nth
                /\ m = IF l \in call[r].seen /\ l.status = "queued"
                         THEN [l EXCEPT !.held = TRUE] ELSE l
                /\ l \in call[r].seen /\ m.status = "queued" => m.held
           /\ \A l \in letters : l \notin call[r].seen => l \in letters'
           /\ OncePerDraft'
<1> DEFINE Held(l) == IF l \in call[r].seen /\ l.status = "queued"
                        THEN [l EXCEPT !.held = TRUE] ELSE l
<1>1. letters' = {Held(l) : l \in letters}
  BY DEF RefundCommits
<1>2. \A l \in letters : /\ Held(l) \in Letter /\ Held(l).draft = l.draft
                         /\ Held(l).nth = l.nth /\ Held(l).status = l.status
                         /\ l \in call[r].seen /\ l.status = "queued" => Held(l).held
                         /\ l \notin call[r].seen => Held(l) = l
  <2>1. letters \subseteq Letter
    BY DEF IInv, Types
  <2>2. \A l \in Letter : LET h == [l EXCEPT !.held = TRUE] IN
          /\ h \in Letter /\ h.draft = l.draft /\ h.nth = l.nth /\ h.status = l.status /\ h.held
    BY DEF Letter
  <2> QED
    BY <2>1, <2>2
<1>3. \A m \in letters' : \E l \in letters :
        /\ m.draft = l.draft /\ m.nth = l.nth /\ m = Held(l)
        /\ l \in call[r].seen /\ m.status = "queued" => m.held
  BY <1>1, <1>2
<1>4. letters' \subseteq Letter /\ \A l \in letters : l \notin call[r].seen => l \in letters'
  BY <1>1, <1>2
<1>5. OncePerDraft'
  <2> SUFFICES ASSUME NEW m \in letters', NEW n \in letters', m.draft = n.draft
               PROVE  m = n
    BY DEF OncePerDraft
  <2> HIDE DEF Held
  <2>1. PICK l \in letters, k \in letters : /\ m.draft = l.draft /\ m = Held(l)
                                           /\ n.draft = k.draft /\ n = Held(k)
    BY <1>3
  <2>2. l = k
    BY <2>1 DEF OncePerDraft, IInv, TableInv
  <2> QED BY <2>1, <2>2
<1> QED BY <1>3, <1>4, <1>5

LEMMA RefundCommitsKeeps ==
    ASSUME IInv, NEW r \in Requests, RefundCommits(r)
    PROVE  IInv'
<1> DEFINE a == call[r].account
<1>1. /\ call[r].kind = "refund" /\ call[r].at = "account" /\ Ends(r)
      /\ funds' = [funds EXCEPT ![a] = [s \in Balances |-> 0]]
      /\ refunded' = refunded \cup {a} /\ order' = order /\ late' = late
  BY DEF RefundCommits
<1>2. a \in Accounts /\ funds \in [Accounts -> [Balances -> Nat]]
  BY <1>1 DEF IInv, Types, CallInv, AboutAccount
<1>3. /\ call' \in [Requests -> Call] /\ CallInv'
      /\ call'[r].kind = "none" /\ call'[r].seen = {}
      /\ \A q \in Requests \ {r} : call'[q] = call[q]
  BY <1>1, EndsCall DEF IInv
<1>4. /\ letters' \subseteq Letter
      /\ \A m \in letters' : \E l \in letters : m.draft = l.draft
      /\ \A l \in letters : l \notin call[r].seen => l \in letters'
      /\ OncePerDraft'
  BY RefundHolds
<1>5. /\ \A s \in Balances : funds'[a][s] = 0
      /\ \A b \in Accounts : b # a => funds'[b] = funds[b]
      /\ funds' \in [Accounts -> [Balances -> Nat]]
  BY <1>1, <1>2
<1>6. Types'
  BY <1>1, <1>2, <1>3, <1>4, <1>5 DEF IInv, Types
<1>7. SendsAreOfUnmailed'
  BY <1>3, <1>4 DEF IInv, TableInv, SendsAreOfUnmailed, Consumed
<1>8. FundsCover'
  <2> SUFFICES ASSUME NEW q \in Requests, call'[q].kind = "send", call'[q].at \in Spending
               PROVE  funds'[call'[q].account][Source(call'[q].draft)] > 0
    BY DEF FundsCover, Source
  <2>1. q # r /\ call'[q] = call[q] /\ call[q].account \in Accounts
    BY <1>3 DEF IInv, CallInv, AboutDraft
  <2>2. call[q].account # a
    BY <1>1, <1>2, <2>1 DEF IInv, CallInv, AccountsHeldOnce, HoldsAccount
  <2> QED BY <1>5, <2>1, <2>2 DEF IInv, TableInv, FundsCover
<1>9. RefundedEmpty'
  BY <1>1, <1>5 DEF IInv, Types, TableInv, RefundedEmpty
<1>10. NotYetRefunded'
  BY <1>1, <1>3 DEF IInv, CallInv, TableInv, NotYetRefunded, RefundsOnce
<1>11. SeenStays'
  <2> SUFFICES ASSUME NEW q \in Requests, NEW l \in call'[q].seen
               PROVE  l \in letters'
    BY DEF SeenStays
  <2>1. q # r /\ call'[q] = call[q] /\ call[q].kind = "refund" /\ l \in call[q].seen
    BY <1>3 DEF IInv, CallInv, OnlyRefundsRead
  <2>2. l \notin call[r].seen
    BY <1>1, <2>1 DEF IInv, CallInv, SeenIsFunded, RefundsOnce
  <2> QED BY <1>4, <2>1, <2>2 DEF IInv, TableInv, SeenStays
<1> QED BY <1>3, <1>4, <1>6, <1>7, <1>8, <1>9, <1>10, <1>11 DEF IInv, TableInv

LEMMA OutboxTakesKeeps ==
    ASSUME IInv, NEW l \in letters, OutboxTakes(l)
    PROVE  /\ IInv' /\ refunded' = refunded
           /\ \A m \in letters' : \E n \in letters : m.draft = n.draft /\ m.nth = n.nth
<1>1. PICK t \in Letter : t = [l EXCEPT !.status = "taken"]
  BY DEF IInv, Types, Letter
<1>2. t.draft = l.draft /\ t.nth = l.nth
  BY <1>1 DEF IInv, Types, Letter
<1>3. /\ letters' = (letters \ {l}) \cup {t}
      /\ \A q \in Requests : l \notin call[q].seen
      /\ order' = order /\ late' = late /\ funds' = funds /\ refunded' = refunded /\ call' = call
  BY <1>1 DEF OutboxTakes
<1> HIDE <1>1
<1>4. Types'
  BY <1>3 DEF IInv, Types
<1>5. CallInv'
  BY <1>3 DEF IInv, CallInv, NoneIdle, AboutDraft, AboutAccount, OnlyRefundsRead,
              DraftsHeldOnce, AccountsHeldOnce, HoldsAccount, RefundsOnce, SeenIsFunded
<1>6. SendsAreOfUnmailed'
  BY <1>2, <1>3 DEF IInv, TableInv, SendsAreOfUnmailed, Consumed
<1>7. OncePerDraft'
  BY <1>2, <1>3 DEF IInv, TableInv, OncePerDraft
<1>8. FundsCover' /\ RefundedEmpty' /\ NotYetRefunded'
  BY <1>3 DEF IInv, TableInv, FundsCover, RefundedEmpty, NotYetRefunded, Source
<1>9. SeenStays'
  BY <1>3 DEF IInv, TableInv, SeenStays
<1> QED BY <1>2, <1>3, <1>4, <1>5, <1>6, <1>7, <1>8, <1>9 DEF IInv, TableInv

\* A step of Stripe or of the clock writes an order's row, and no request moves.
LEMMA OrderMoves ==
    ASSUME IInv, order' \in [Drafts -> {"none", "open", "lapsed", "paid", "refunded"}],
           UNCHANGED <<letters, late, funds, refunded, call>>
    PROVE  IInv'
<1>1. Types'
  BY DEF IInv, Types
<1>2. CallInv'
  BY DEF IInv, CallInv, NoneIdle, AboutDraft, AboutAccount, OnlyRefundsRead,
         DraftsHeldOnce, AccountsHeldOnce, HoldsAccount, RefundsOnce, SeenIsFunded
<1>3. TableInv'
  BY DEF IInv, TableInv, SendsAreOfUnmailed, Consumed, OncePerDraft, FundsCover, RefundedEmpty,
         NotYetRefunded, SeenStays, Source
<1> QED BY <1>1, <1>2, <1>3 DEF IInv

-----------------------------------------------------------------------------
LEMMA IInvInit == Init => IInv
<1> SUFFICES ASSUME Init PROVE IInv
  OBVIOUS
<1>1. /\ letters = {} /\ refunded = {} /\ late = {}
      /\ \A r \in Requests : /\ call[r].at = "idle" /\ call[r].kind = "none"
                             /\ call[r].seen = {} /\ call[r].account = None
  BY DEF Init, Idle
<1>2. Types
  BY DEF Init, Types, Idle, Call, Letter
<1>3. CallInv
  BY <1>1 DEF CallInv, NoneIdle, AboutDraft, AboutAccount, OnlyRefundsRead,
         DraftsHeldOnce, AccountsHeldOnce, HoldsAccount, RefundsOnce, SeenIsFunded
<1>4. TableInv
  BY <1>1 DEF TableInv, SendsAreOfUnmailed, Consumed, OncePerDraft, FundsCover, RefundedEmpty,
         NotYetRefunded, SeenStays
<1> QED BY <1>2, <1>3, <1>4 DEF IInv

\* One step of a request that writes nothing.
LEMMA Moves ==
    ASSUME IInv, NEW r \in Requests, UNCHANGED Tables,
           NEW step \in Steps, step # "idle", Reaches(r, step), call[r].kind # "none",
           call[r].kind # "checkout" /\ step \in Spending /\ call[r].at \notin Spending
              => AccountFree(call[r].account),
           call[r].kind = "send" /\ step \in Spending /\ call[r].at \notin Spending
              => funds[call[r].account][Source(call[r].draft)] > 0
    PROVE  IInv'
<1>1. Progress(r, step)
  BY MovesOne DEF Progress, IInv
<1> QED BY <1>1, GoesOn

\* The steps that only take a lock or read a count.
LEMMA QuietSteps ==
    ASSUME IInv, NEW r \in Requests,
           \/ SendCountsDate(r) \/ SendTakesFunds(r) \/ SendCountsGifts(r) \/ SendComparesMail(r)
           \/ CountsAccount(r) \/ CountsGlobal(r) \/ CheckoutInserts(r)
           \/ PaymentLocksAccount(r) \/ RefundLocksAccount(r)
    PROVE  IInv' /\ letters' = letters /\ refunded' = refunded
<1>1. UNCHANGED Tables
  BY DEF SendCountsDate, SendTakesFunds, SendCountsGifts, SendComparesMail, CountsAccount,
         CountsGlobal, CheckoutInserts, PaymentLocksAccount, RefundLocksAccount
<1>2. call[r].at # "idle" => call[r].kind # "none"
  BY DEF IInv, CallInv, NoneIdle
<1>3. CASE SendCountsDate(r)
  <2>1. call[r].kind = "send"
    BY <1>3 DEF SendCountsDate
  <2>2. CASE Ends(r)
    BY <1>1, <2>2, Stops DEF Tables
  <2>3. CASE Reaches(r, "date")
    BY <1>1, <2>1, <2>3, Moves DEF Tables
  <2> QED BY <1>3, <2>2, <2>3 DEF SendCountsDate
<1>4. CASE SendTakesFunds(r)
  <2>1. /\ call[r].kind = "send" /\ AccountFree(call[r].account)
        /\ IF funds[call[r].account][Source(call[r].draft)] = 0 THEN Ends(r)
             ELSE Reaches(r, "account")
    BY <1>4 DEF SendTakesFunds
  <2>2. funds[call[r].account][Source(call[r].draft)] \in Nat
    BY <2>1, SourceIsBalance DEF IInv, Types, CallInv, AboutDraft
  <2>3. CASE funds[call[r].account][Source(call[r].draft)] = 0
    BY <1>1, <2>1, <2>3, Stops DEF Tables
  <2>4. CASE funds[call[r].account][Source(call[r].draft)] > 0
    <3>1. Reaches(r, "account")
      BY <2>1, <2>4
    <3> QED BY <1>1, <2>1, <2>4, <3>1, Moves DEF Tables
  <2> QED BY <2>2, <2>3, <2>4
<1>5. CASE SendCountsGifts(r)
  <2>1. call[r].kind = "send" /\ call[r].at = "global cap"
    BY <1>5 DEF SendCountsGifts
  <2>2. CASE Ends(r)
    BY <1>1, <2>2, Stops DEF Tables
  <2>3. CASE Reaches(r, "gift cap")
    BY <1>1, <2>1, <2>3, Moves DEF Tables
  <2> QED BY <1>5, <2>2, <2>3 DEF SendCountsGifts
<1>6. CASE SendComparesMail(r)
  <2>1. call[r].kind = "send" /\ call[r].at = "gift cap"
    BY <1>6 DEF SendComparesMail
  <2>2. CASE Ends(r)
    BY <1>1, <2>2, Stops DEF Tables
  <2>3. CASE Reaches(r, "compared")
    BY <1>1, <2>1, <2>3, Moves DEF Tables
  <2> QED BY <1>6, <2>2, <2>3 DEF SendComparesMail
<1>7. CASE CountsAccount(r)
  <2>1. /\ call[r].kind # "none"
        /\ call[r].kind = "checkout" \/ call[r].at = "account"
    BY <1>7 DEF CountsAccount
  <2>2. CASE Ends(r)
    BY <1>1, <2>2, Stops DEF Tables
  <2>3. CASE Reaches(r, "account cap")
    BY <1>1, <2>1, <2>3, Moves DEF Tables
  <2> QED BY <1>7, <2>2, <2>3 DEF CountsAccount
<1>8. CASE CountsGlobal(r)
  <2>1. call[r].kind # "none" /\ call[r].at = "account cap"
    BY <1>8, <1>2 DEF CountsGlobal
  <2>2. CASE Ends(r)
    BY <1>1, <2>2, Stops DEF Tables
  <2>3. CASE Reaches(r, "global cap")
    BY <1>1, <2>1, <2>3, Moves DEF Tables
  <2> QED BY <1>8, <2>2, <2>3 DEF CountsGlobal
<1>9. CASE CheckoutInserts(r)
  <2>1. call[r].kind = "checkout"
    BY <1>9 DEF CheckoutInserts
  <2> QED BY <1>1, <1>9, <2>1, Moves DEF Tables, CheckoutInserts
<1>10. CASE PaymentLocksAccount(r)
  <2>1. call[r].kind = "fulfil" /\ AccountFree(call[r].account)
    BY <1>10 DEF PaymentLocksAccount
  <2> QED BY <1>1, <1>10, <2>1, Moves DEF Tables, PaymentLocksAccount
<1>11. CASE RefundLocksAccount(r)
  <2>1. call[r].kind = "refund" /\ AccountFree(call[r].account)
    BY <1>11 DEF RefundLocksAccount
  <2> QED BY <1>1, <1>11, <2>1, Moves DEF Tables, RefundLocksAccount
<1> QED
  BY <1>1, <1>3, <1>4, <1>5, <1>6, <1>7, <1>8, <1>9, <1>10, <1>11 DEF Tables

\* The steps that begin or end a transaction, and change no letter.
LEMMA OtherQuietSteps ==
    ASSUME IInv, NEW r \in Requests,
           \/ SendLocksDraft(r) \/ CheckoutLocksDraft(r) \/ PaymentLocksDraft(r)
           \/ RefundReadsMail(r) \/ RollsBack(r) \/ CheckoutCompares(r) \/ CheckoutCommits(r)
    PROVE  IInv' /\ letters' = letters /\ refunded' = refunded
<1>1. CASE SendLocksDraft(r)
  <2>1. PICK d \in Drafts, again \in BOOLEAN :
           DraftFree(d) /\ ~Consumed(d) /\ Begins(r, "send", d, again, "draft")
    BY <1>1 DEF SendLocksDraft
  <2> QED BY <1>1, <2>1, BeginsDraft DEF SendLocksDraft, Tables
<1>2. CASE CheckoutLocksDraft(r)
  <2>1. PICK d \in Drafts, again \in BOOLEAN :
           DraftFree(d) /\ Begins(r, "checkout", d, again, "draft")
    BY <1>2 DEF CheckoutLocksDraft
  <2> QED BY <1>2, <2>1, BeginsDraft DEF CheckoutLocksDraft, Tables
<1>3. CASE PaymentLocksDraft(r)
  <2>1. PICK d \in Drafts : DraftFree(d) /\ Begins(r, "fulfil", d, FALSE, "draft")
    BY <1>3 DEF PaymentLocksDraft
  <2> QED BY <1>3, <2>1, BeginsDraft DEF PaymentLocksDraft, Tables
<1>4. CASE RefundReadsMail(r)
  BY <1>4, RefundReadsMailKeeps DEF RefundReadsMail, Tables
<1>5. CASE RollsBack(r)
  BY <1>5, Stops DEF RollsBack, Tables
<1>6. CASE CheckoutCompares(r)
  <2>1. call[r].draft \in Drafts
    BY <1>6 DEF CheckoutCompares, IInv, CallInv, AboutDraft
  <2>2. order' \in [Drafts -> {"none", "open", "lapsed", "paid", "refunded"}]
    BY <1>6, <2>1 DEF CheckoutCompares, IInv, Types
  <2>3. CASE Ends(r)
    BY <1>6, <2>2, <2>3, OrderOnly DEF CheckoutCompares
  <2>4. CASE Reaches(r, "checked")
    <3>1. ~Ends(r) \/ Ends(r)
      OBVIOUS
    <3>2. CASE DateFull(call[r].draft)
      BY <1>6, <3>2, <2>2, OrderOnly DEF CheckoutCompares
    <3>3. CASE ~DateFull(call[r].draft)
      <4>1. UNCHANGED Tables /\ call[r].kind = "checkout"
        BY <1>6, <3>3 DEF CheckoutCompares, Tables
      <4>2. Progress(r, "checked")
        BY <2>4, <4>1, MovesOne DEF Progress, IInv
      <4> QED BY <4>1, <4>2, GoesOn DEF Tables
    <3> QED BY <3>2, <3>3
  <2> QED BY <1>6, <2>3, <2>4 DEF CheckoutCompares
<1>7. CASE CheckoutCommits(r)
  <2>1. order' \in [Drafts -> {"none", "open", "lapsed", "paid", "refunded"}]
    BY <1>7 DEF CheckoutCommits, IInv, Types
  <2> QED BY <1>7, <2>1, OrderOnly DEF CheckoutCommits
<1> QED BY <1>1, <1>2, <1>3, <1>4, <1>5, <1>6, <1>7

-----------------------------------------------------------------------------
(* Every step keeps the invariant, and reaches the mail a refund must. *)

\* Nothing of what a refund is about happens.
LEMMA NothingMailed ==
    ASSUME refunded' = refunded,
           \A l \in letters' : \E m \in letters : l.draft = m.draft /\ l.nth = m.nth
    PROVE  HoldsWhatItRead /\ SpendsNoRefunded
  BY DEF HoldsWhatItRead, SpendsNoRefunded, Mailed

\* A send found a letter to spend, and a refunded account has none.
LEMMA SendReaches ==
    ASSUME IInv, NEW r \in Requests, SendCommits(r)
    PROVE  HoldsWhatItRead /\ SpendsNoRefunded
<1> DEFINE d == call[r].draft
<1>1. /\ call[r].kind = "send" /\ call[r].at = "compared" /\ Insert(d, Source(d))
      /\ refunded' = refunded
  BY DEF SendCommits
<1>2. /\ d \in Drafts /\ call[r].account = Owner[d] /\ Source(d) \in Balances
      /\ ~Consumed(d) /\ funds[Owner[d]][Source(d)] > 0
  BY <1>1, SourceIsBalance
     DEF IInv, CallInv, TableInv, AboutDraft, SendsAreOfUnmailed, FundsCover
<1>3. Owner[d] \notin refunded
  BY <1>2 DEF IInv, TableInv, RefundedEmpty
<1>4. \A l \in letters' \ letters : l.draft = d
  BY <1>1, <1>2, Inserts DEF IInv, TableInv
<1> HIDE DEF d
<1> QED BY <1>1, <1>3, <1>4 DEF HoldsWhatItRead, SpendsNoRefunded, Mailed

LEMMA PaymentReaches ==
    ASSUME IInv, NEW r \in Requests, PaymentCommits(r)
    PROVE  HoldsWhatItRead /\ SpendsNoRefunded
<1> DEFINE d == call[r].draft
<1>1. call[r].kind = "fulfil" /\ refunded' = refunded
  BY DEF PaymentCommits
<1>2. d \in Drafts
  BY <1>1 DEF IInv, CallInv, AboutDraft
<1>3. CASE Consumed(d)
  <2>1. letters' = letters
    BY <1>3 DEF PaymentCommits
  <2> QED BY <1>1, <2>1, NothingMailed
<1>4. CASE ~Consumed(d)
  <2>1. Insert(d, "order")
    BY <1>4 DEF PaymentCommits
  <2>2. \A l \in letters' \ letters : l.by = "order"
    BY <1>2, <1>4, <2>1, Inserts DEF IInv, TableInv
  <2> QED BY <1>1, <2>2 DEF HoldsWhatItRead, SpendsNoRefunded, Mailed
<1> QED BY <1>3, <1>4

\* What the refund read is locked, so it is there still, and each letter after
\* the commit is one of those before it.
LEMMA RefundReaches ==
    ASSUME IInv, NEW r \in Requests, RefundCommits(r)
    PROVE  HoldsWhatItRead /\ SpendsNoRefunded
<1>1. call[r].kind = "refund" /\ refunded' = refunded \cup {call[r].account}
  BY DEF RefundCommits
<1>2. \A m \in letters' : \E l \in letters :
        /\ m.draft = l.draft /\ m.nth = l.nth
        /\ l \in call[r].seen /\ m.status = "queued" => m.held
  BY RefundHolds
<1>3. \A m \in letters' : m.status = "queued" /\ (\E s \in call[r].seen :
                 s.draft = m.draft /\ s.nth = m.nth) => m.held
  <2> SUFFICES ASSUME NEW m \in letters', m.status = "queued",
                      NEW s \in call[r].seen, s.draft = m.draft
               PROVE  m.held
    OBVIOUS
  <2>1. PICK l \in letters : /\ m.draft = l.draft
                             /\ l \in call[r].seen /\ m.status = "queued" => m.held
    BY <1>2
  <2>2. s = l
    BY <2>1 DEF IInv, TableInv, SeenStays, OncePerDraft
  <2> QED BY <2>1, <2>2
<1>4. HoldsWhatItRead
  BY <1>1, <1>3 DEF HoldsWhatItRead
<1>5. SpendsNoRefunded
  BY <1>2 DEF SpendsNoRefunded, Mailed
<1> QED BY <1>4, <1>5

LEMMA OrderTurns ==
    ASSUME IInv, NEW d \in Drafts, OrderLapses(d) \/ OrderCloses(d)
    PROVE  IInv' /\ HoldsWhatItRead /\ SpendsNoRefunded
<1>1. order' \in [Drafts -> {"none", "open", "lapsed", "paid", "refunded"}]
  BY DEF OrderLapses, OrderCloses, IInv, Types
<1>2. letters' = letters /\ refunded' = refunded /\ late' = late /\ funds' = funds /\ call' = call
  BY DEF OrderLapses, OrderCloses
<1> QED BY <1>1, <1>2, OrderMoves, NothingMailed

LEMMA StepKeeps ==
    ASSUME IInv, NEW r \in Requests, Begin(r) \/ Continue(r) \/ RollsBack(r)
    PROVE  IInv' /\ HoldsWhatItRead /\ SpendsNoRefunded
<1>1. CASE SendCommits(r)
  BY <1>1, SendCommitsKeeps, SendReaches
<1>2. CASE PaymentCommits(r)
  BY <1>2, PaymentCommitsKeeps, PaymentReaches
<1>3. CASE RefundCommits(r)
  BY <1>3, RefundCommitsKeeps, RefundReaches
<1>4. CASE \/ SendCountsDate(r) \/ SendTakesFunds(r) \/ SendCountsGifts(r)
           \/ SendComparesMail(r) \/ CountsAccount(r) \/ CountsGlobal(r)
           \/ CheckoutInserts(r) \/ PaymentLocksAccount(r) \/ RefundLocksAccount(r)
  BY <1>4, QuietSteps, NothingMailed
<1>5. CASE \/ SendLocksDraft(r) \/ CheckoutLocksDraft(r) \/ PaymentLocksDraft(r)
           \/ RefundReadsMail(r) \/ RollsBack(r) \/ CheckoutCompares(r) \/ CheckoutCommits(r)
  BY <1>5, OtherQuietSteps, NothingMailed
<1> QED BY <1>1, <1>2, <1>3, <1>4, <1>5 DEF Begin, Continue

LEMMA IInvNext ==
    ASSUME IInv, [Next]_vars
    PROVE  IInv' /\ [HoldsWhatItRead /\ SpendsNoRefunded]_vars
<1>1. CASE \E r \in Requests : Begin(r) \/ Continue(r) \/ RollsBack(r)
  BY <1>1, StepKeeps
<1>2. CASE \E d \in Drafts : OrderLapses(d) \/ OrderCloses(d)
  BY <1>2, OrderTurns
<1>3. CASE \E l \in letters : OutboxTakes(l)
  BY <1>3, OutboxTakesKeeps, NothingMailed
<1>4. CASE UNCHANGED vars
  <2>1. order' \in [Drafts -> {"none", "open", "lapsed", "paid", "refunded"}]
    BY <1>4 DEF vars, IInv, Types
  <2> QED BY <1>4, <2>1, OrderMoves DEF vars
<1> QED BY <1>1, <1>2, <1>3, <1>4 DEF Next

\* The tables keep their types, whatever the requests under way write.
THEOREM SendTypeCorrect == Spec => []TypeOK
<1>1. IInv /\ [Next]_vars => IInv'
  BY IInvNext
<1>2. IInv => TypeOK
  BY DEF IInv, Types, TypeOK, Call
<1> QED BY IInvInit, <1>1, <1>2, PTL DEF Spec

\* createMailOrderFromDraftWithClient and transitionPaidCheckout: a draft is
\* mailed once however many requests ask for it.
THEOREM SendsOncePerDraft == Spec => []OncePerDraft
<1>1. IInv /\ [Next]_vars => IInv'
  BY IInvNext
<1>2. IInv => OncePerDraft
  BY DEF IInv, TableInv
<1> QED BY IInvInit, <1>1, <1>2, PTL DEF Spec

\* holdMailFundedByOrder and what spends a balance: a committed refund has held
\* the unprinted mail it read, and its pack pays for none after it.
THEOREM RefundsReachMail == Spec => RefundReachesMail
<1>1. IInv /\ [Next]_vars => IInv' /\ [HoldsWhatItRead /\ SpendsNoRefunded]_vars
  BY IInvNext
<1> QED BY IInvInit, <1>1, PTL DEF Spec, RefundReachesMail

-----------------------------------------------------------------------------
(* Counts of letters.  A draft has at most one letter, so letters are      *)
(* counted by their drafts: what redraws a letter (the outbox takes it, a  *)
(* refund holds it) leaves every count that does not ask for its status.   *)

LEMMA FewerDrafts ==
    ASSUME NEW S, NEW T, IsFiniteSet(S),
           \A m \in T : \E l \in S : l.draft = m.draft,
           \A m, n \in T : m.draft = n.draft => m = n
    PROVE  IsFiniteSet(T) /\ Cardinality(T) <= Cardinality(S)
<1> DEFINE f == [m \in T |-> CHOOSE l \in S : l.draft = m.draft]
<1>1. \A m \in T : f[m] \in S /\ f[m].draft = m.draft
  OBVIOUS
<1>2. f \in [T -> S]
  BY <1>1
<1>3. f \in Injection(T, S)
  BY <1>1, <1>2 DEF Injection, IsInjective
<1> QED BY <1>3, FS_Injection

\* Every letter stays, its draft and what paid for it with it, and none comes back from the printer.
SameMail ==
    /\ \A m \in letters' : \E l \in letters :
          m.draft = l.draft /\ m.by = l.by /\ (m.status = "queued" => l.status = "queued")
    /\ \A l \in letters : \E m \in letters' : m.draft = l.draft /\ m.by = l.by

\* One letter more, of a draft that had none.
OneLetterMore(d, by) ==
    \E new \in Letter : /\ letters' = letters \cup {new} /\ new \notin letters
                        /\ new.draft = d /\ new.by = by /\ new.status = "queued"

LEMMA InsertsOne ==
    ASSUME NEW d \in Drafts, NEW by \in Balances \cup {"order"}, ~Consumed(d), Insert(d, by)
    PROVE  OneLetterMore(d, by)
<1>1. {l \in letters : l.draft = d} = {}
  BY DEF Consumed
<1>2. Cardinality({l \in letters : l.draft = d}) + 1 = 1
  BY <1>1, FS_EmptySet
<1> DEFINE new == [draft |-> d, nth |-> 1, by |-> by, status |-> "queued", held |-> FALSE]
<1>3. letters' = letters \cup {new}
  BY <1>2 DEF Insert
<1>4. new \in Letter /\ new.draft = d /\ new.by = by /\ new.status = "queued"
  BY DEF Letter
<1>5. new \notin letters
  BY <1>4 DEF Consumed
<1> QED BY <1>3, <1>4, <1>5 DEF OneLetterMore

LEMMA LettersStay == ASSUME UNCHANGED letters PROVE SameMail
BY DEF SameMail

LEMMA RefundKeepsMail ==
    ASSUME IInv, NEW r \in Requests, RefundCommits(r)
    PROVE  SameMail
<1> DEFINE Held(l) == IF l \in call[r].seen /\ l.status = "queued"
                        THEN [l EXCEPT !.held = TRUE] ELSE l
<1>1. letters' = {Held(l) : l \in letters}
  BY DEF RefundCommits
<1>2. \A l \in letters : Held(l).draft = l.draft /\ Held(l).by = l.by /\ Held(l).status = l.status
  BY DEF IInv, Types, Letter
<1> QED BY <1>1, <1>2 DEF SameMail

LEMMA OutboxKeepsMail ==
    ASSUME IInv, NEW l \in letters, OutboxTakes(l)
    PROVE  SameMail
<1>1. PICK t \in Letter : t = [l EXCEPT !.status = "taken"]
  BY DEF IInv, Types, Letter
<1>2. t.draft = l.draft /\ t.by = l.by /\ t.status = "taken"
  BY <1>1 DEF IInv, Types, Letter
<1>3. letters' = (letters \ {l}) \cup {t}
  BY <1>1 DEF OutboxTakes
<1> HIDE <1>1
<1> QED BY <1>2, <1>3 DEF SameMail

-----------------------------------------------------------------------------
(* What an account's pack and gifts paid for *)

Paid(a, s) == {l \in Funded(a) : l.by = s}
FundInv == IsFiniteSet(letters) /\ EachLetterPaidOnce

LEMMA SameMailSameCount ==
    ASSUME IInv, OncePerDraft', IsFiniteSet(letters), SameMail, NEW a, NEW s
    PROVE  /\ IsFiniteSet(letters')
           /\ Cardinality(Paid(a, s)') = Cardinality(Paid(a, s))
<1>1. OncePerDraft
  BY DEF IInv, TableInv
<1>2. IsFiniteSet(letters')
  BY FewerDrafts DEF SameMail, OncePerDraft
<1>3. Paid(a, s) \subseteq letters /\ Paid(a, s)' \subseteq letters'
  BY DEF Paid, Funded
<1>4. IsFiniteSet(Paid(a, s)) /\ IsFiniteSet(Paid(a, s)')
  BY <1>2, <1>3, FS_Subset
<1>5. Cardinality(Paid(a, s)') <= Cardinality(Paid(a, s))
  <2>1. \A m \in Paid(a, s)' : \E l \in Paid(a, s) : l.draft = m.draft
    BY DEF SameMail, Paid, Funded
  <2>2. \A m, n \in Paid(a, s)' : m.draft = n.draft => m = n
    BY <1>3 DEF OncePerDraft
  <2> QED BY <1>4, <2>1, <2>2, FewerDrafts
<1>6. Cardinality(Paid(a, s)) <= Cardinality(Paid(a, s)')
  <2>1. \A l \in Paid(a, s) : \E m \in Paid(a, s)' : l.draft = m.draft
    BY DEF SameMail, Paid, Funded
  <2>2. \A m, n \in Paid(a, s) : m.draft = n.draft => m = n
    BY <1>1, <1>3 DEF OncePerDraft
  <2> QED BY <1>4, <2>1, <2>2, FewerDrafts
<1> QED BY <1>2, <1>4, <1>5, <1>6, FS_CardinalityType

LEMMA FundsStay ==
    ASSUME IInv, IInv', FundInv, SameMail, refunded \subseteq refunded',
           \A a \in Accounts \ refunded' : funds'[a] = funds[a]
    PROVE  FundInv'
<1>1. OncePerDraft'
  BY DEF IInv, TableInv
<1>2. ASSUME NEW a \in Accounts \ refunded', NEW s \in Balances
      PROVE  funds'[a][s] + Cardinality(Paid(a, s)') = Funds
  <2>1. Cardinality(Paid(a, s)') = Cardinality(Paid(a, s))
    BY <1>1, SameMailSameCount DEF FundInv
  <2>2. a \in Accounts \ refunded /\ funds'[a] = funds[a]
    BY <1>2
  <2>3. funds[a][s] + Cardinality(Paid(a, s)) = Funds
    BY <2>2 DEF FundInv, EachLetterPaidOnce, Paid
  <2> QED BY <2>1, <2>2, <2>3
<1>3. IsFiniteSet(letters')
  BY <1>1, SameMailSameCount DEF FundInv
<1> QED BY <1>2, <1>3 DEF FundInv, EachLetterPaidOnce, Paid

LEMMA CountOneMore ==
    ASSUME IInv, IsFiniteSet(letters), NEW d \in Drafts, NEW by, OneLetterMore(d, by),
           NEW a \in Accounts, NEW s \in Balances
    PROVE  /\ IsFiniteSet(letters')
           /\ Cardinality(Paid(a, s)) \in Nat
           /\ Cardinality(Paid(a, s)') = IF a = Owner[d] /\ s = by THEN Cardinality(Paid(a, s)) + 1
                                         ELSE Cardinality(Paid(a, s))
<1>1. PICK new \in Letter : /\ letters' = letters \cup {new} /\ new \notin letters
                            /\ new.draft = d /\ new.by = by
  BY DEF OneLetterMore
<1>2. IsFiniteSet(letters')
  BY <1>1, FS_AddElement
<1>3. Paid(a, s) \subseteq letters /\ IsFiniteSet(Paid(a, s)) /\ new \notin Paid(a, s)
  BY <1>1, FS_Subset DEF Paid, Funded
<1>4. Cardinality(Paid(a, s)) \in Nat
  BY <1>3, FS_CardinalityType
<1>5. CASE a = Owner[d] /\ s = by
  <2>1. by # "order"
    BY <1>5 DEF Balances
  <2>2. Paid(a, s)' = Paid(a, s) \cup {new}
    BY <1>1, <1>5, <2>1 DEF Paid, Funded
  <2>3. Cardinality(Paid(a, s) \cup {new}) = Cardinality(Paid(a, s)) + 1
    BY <1>3, FS_AddElement
  <2> QED BY <1>2, <1>4, <1>5, <2>2, <2>3
<1>6. CASE ~(a = Owner[d] /\ s = by)
  <2>1. Paid(a, s)' = Paid(a, s)
    BY <1>1, <1>6 DEF Paid, Funded
  <2> QED BY <1>2, <1>4, <1>6, <2>1
<1> QED BY <1>5, <1>6

\* mailSendService's commit: the letter it adds is the one it takes from the balance or the gifts.
LEMMA SendPaysOnce ==
    ASSUME IInv, FundInv, NEW r \in Requests, SendCommits(r)
    PROVE  FundInv'
<1> DEFINE d == call[r].draft
           by == Source(d)
<1>1. /\ call[r].kind = "send" /\ call[r].at = "compared" /\ Insert(d, by) /\ refunded' = refunded
      /\ funds' = [funds EXCEPT ![call[r].account][by] = @ - 1]
  BY DEF SendCommits
<1>2. /\ d \in Drafts /\ call[r].account = Owner[d] /\ by \in Balances
      /\ ~Consumed(d) /\ funds[Owner[d]][by] > 0 /\ funds \in [Accounts -> [Balances -> Nat]]
  BY <1>1, SourceIsBalance
     DEF IInv, Types, CallInv, TableInv, AboutDraft, SendsAreOfUnmailed, FundsCover
<1>3. OneLetterMore(d, by) /\ IsFiniteSet(letters)
  BY <1>1, <1>2, InsertsOne DEF FundInv
<1>4. IsFiniteSet(letters')
  BY <1>2, <1>3, CountOneMore
<1>5. ASSUME NEW a \in Accounts \ refunded', NEW s \in Balances
      PROVE  funds'[a][s] + Cardinality(Paid(a, s)') = Funds
  <2>1. /\ Cardinality(Paid(a, s)) \in Nat
        /\ Cardinality(Paid(a, s)') = IF a = Owner[d] /\ s = by THEN Cardinality(Paid(a, s)) + 1
                                      ELSE Cardinality(Paid(a, s))
    BY <1>2, <1>3, CountOneMore
  <2>2. funds'[a][s] = IF a = Owner[d] /\ s = by THEN funds[a][s] - 1 ELSE funds[a][s]
    BY <1>1, <1>2
  <2>3. funds[a][s] + Cardinality(Paid(a, s)) = Funds /\ funds[a][s] \in Nat
    BY <1>1, <1>2 DEF FundInv, EachLetterPaidOnce, Paid
  <2> QED BY <2>1, <2>2, <2>3
<1> QED BY <1>4, <1>5 DEF FundInv, EachLetterPaidOnce, Paid

\* A Pay & Send letter is paid for by its order.
LEMMA PaymentSpendsNone ==
    ASSUME IInv, IInv', FundInv, NEW r \in Requests, PaymentCommits(r)
    PROVE  FundInv'
<1> DEFINE d == call[r].draft
<1>1. call[r].kind = "fulfil" /\ refunded' = refunded /\ funds' = funds
  BY DEF PaymentCommits
<1>2. d \in Drafts
  BY <1>1 DEF IInv, CallInv, AboutDraft
<1>3. CASE Consumed(d)
  <2>1. letters' = letters
    BY <1>3 DEF PaymentCommits
  <2> QED BY <1>1, <2>1, LettersStay, FundsStay
<1>4. CASE ~Consumed(d)
  <2>1. OneLetterMore(d, "order") /\ IsFiniteSet(letters)
    BY <1>2, <1>4, InsertsOne DEF PaymentCommits, FundInv
  <2>2. IsFiniteSet(letters') /\ \A a \in Accounts, s \in Balances :
          Cardinality(Paid(a, s)') = Cardinality(Paid(a, s))
    BY <1>2, <2>1, CountOneMore DEF Balances
  <2> QED BY <1>1, <2>2 DEF FundInv, EachLetterPaidOnce, Paid
<1> QED BY <1>3, <1>4

\* A pack's refund takes what is left of its own account's letters, and no other account's.
LEMMA RefundTakesItsOwn ==
    ASSUME IInv, IInv', FundInv, NEW r \in Requests, RefundCommits(r)
    PROVE  FundInv'
<1>1. /\ call[r].kind = "refund" /\ refunded' = refunded \cup {call[r].account}
      /\ funds' = [funds EXCEPT ![call[r].account] = [s \in Balances |-> 0]]
  BY DEF RefundCommits
<1>2. funds \in [Accounts -> [Balances -> Nat]]
  BY DEF IInv, Types
<1>3. \A a \in Accounts \ refunded' : funds'[a] = funds[a]
  BY <1>1, <1>2
<1> QED BY <1>1, <1>3, RefundKeepsMail, FundsStay

LEMMA FundStep ==
    ASSUME IInv, IInv', FundInv, [Next]_vars
    PROVE  FundInv'
<1>1. ASSUME letters' = letters, refunded' = refunded, funds' = funds PROVE FundInv'
  BY <1>1, LettersStay, FundsStay
<1>2. ASSUME NEW r \in Requests, Begin(r) \/ Continue(r) \/ RollsBack(r) PROVE FundInv'
  <2>1. CASE SendCommits(r)
    BY <2>1, SendPaysOnce
  <2>2. CASE PaymentCommits(r)
    BY <2>2, PaymentSpendsNone
  <2>3. CASE RefundCommits(r)
    BY <2>3, RefundTakesItsOwn
  <2>4. CASE CheckoutCompares(r) \/ CheckoutCommits(r)
    BY <1>1, <2>4 DEF CheckoutCompares, CheckoutCommits
  <2>5. CASE UNCHANGED Tables
    BY <1>1, <2>5 DEF Tables
  <2>6. \/ SendCommits(r) \/ PaymentCommits(r) \/ RefundCommits(r)
        \/ CheckoutCompares(r) \/ CheckoutCommits(r) \/ UNCHANGED Tables
    BY <1>2 DEF Begin, Continue, RollsBack, SendLocksDraft, CheckoutLocksDraft, PaymentLocksDraft,
         RefundReadsMail, SendCountsDate, SendTakesFunds, SendCountsGifts, SendComparesMail,
         CountsAccount, CountsGlobal, CheckoutInserts, PaymentLocksAccount, RefundLocksAccount
  <2> QED BY <2>1, <2>2, <2>3, <2>4, <2>5, <2>6
<1>3. ASSUME NEW d \in Drafts, OrderLapses(d) \/ OrderCloses(d) PROVE FundInv'
  BY <1>1, <1>3 DEF OrderLapses, OrderCloses
<1>4. ASSUME NEW l \in letters, OutboxTakes(l) PROVE FundInv'
  <2>1. refunded' = refunded /\ funds' = funds
    BY <1>4 DEF OutboxTakes
  <2> QED BY <1>4, <2>1, OutboxKeepsMail, FundsStay
<1>5. CASE UNCHANGED vars
  BY <1>1, <1>5 DEF vars
<1> QED BY <1>2, <1>3, <1>4, <1>5 DEF Next

LEMMA FundInit == Init => FundInv
<1> SUFFICES ASSUME Init PROVE FundInv
  OBVIOUS
<1>1. letters = {} /\ \A a, s : Paid(a, s) = {}
  BY DEF Init, Paid, Funded
<1>2. ASSUME NEW a \in Accounts \ refunded, NEW s \in Balances
      PROVE  funds[a][s] + Cardinality(Paid(a, s)) = Funds
  <2>1. funds[a][s] = Funds /\ Funds \in Nat
    BY <1>2 DEF Init
  <2>2. Cardinality(Paid(a, s)) = 0
    BY <1>1, FS_EmptySet
  <2> QED BY <2>1, <2>2
<1> QED BY <1>1, <1>2, FS_EmptySet DEF FundInv, EachLetterPaidOnce, Paid

THEOREM SendInvariance == Spec => [](IInv /\ FundInv)
<1>1. IInv /\ FundInv /\ [Next]_vars => IInv' /\ FundInv'
  BY IInvNext, FundStep
<1> QED BY IInvInit, FundInit, <1>1, PTL DEF Spec

\* createMailOrderFromDraftWithClient commits the letter and what pays for it together: until
\* its pack is refunded an account has lost exactly what its letters were paid with.
THEOREM FundsAlwaysAgree == Spec => []FundsAgree
<1>1. FundInv /\ TypeOK => FundsAgree
  BY DEF FundInv, FundsAgree
<1> QED BY <1>1, SendInvariance, SendTypeCorrect, PTL

-----------------------------------------------------------------------------
(* Limits.  A request that has counted holds the lock under which it       *)
(* counted until it commits, so the place it found is still free: of an    *)
(* account, of all accounts, of the gifts and of a mail date.              *)

SentOf(A) == {l \in letters : Owner[l.draft] \in A /\ InTime(l)}
OpenOf(A) == {d \in Drafts : Owner[d] \in A /\ order[d] = "open"}
OnDate(day) == {l \in letters : l.status = "queued" /\ l.by # "order" /\ MailOn[l.draft] = day}
Gifts == {l \in letters : l.by = "gift"}
MailDays == {MailOn[d] : d \in Drafts} \ {None}
\* what the row a request is about adds to the counts
Own(d) == IF order[d] = "open" THEN 0 ELSE 1

Countable == IsFiniteSet(letters) /\ IsFiniteSet(OpenOf(Accounts))

LEMMA CountsAreNumbers ==
    ASSUME Countable, NEW A \in SUBSET Accounts
    PROVE  /\ IsFiniteSet(SentOf(A)) /\ Cardinality(SentOf(A)) \in Nat
           /\ IsFiniteSet(OpenOf(A)) /\ Cardinality(OpenOf(A)) \in Nat
           /\ Capacity(A) = Cardinality(SentOf(A)) + Cardinality(OpenOf(A))
           /\ IsFiniteSet(Gifts) /\ GiftsToday = Cardinality(Gifts) /\ GiftsToday \in Nat
           /\ \A day : IsFiniteSet(OnDate(day)) /\ Cardinality(OnDate(day)) \in Nat
<1>1. SentOf(A) \in SUBSET letters /\ Gifts \in SUBSET letters
      /\ \A day : OnDate(day) \in SUBSET letters
  BY DEF SentOf, Gifts, OnDate
<1>2. OpenOf(A) \in SUBSET OpenOf(Accounts)
  BY DEF OpenOf
<1>3. \A S \in SUBSET letters : IsFiniteSet(S)
  BY FS_Subset DEF Countable
<1>4. IsFiniteSet(OpenOf(A))
  BY <1>2, FS_Subset DEF Countable
<1>5. Capacity(A) = Cardinality(SentOf(A)) + Cardinality(OpenOf(A))
  BY DEF Capacity, SentOf, OpenOf
<1>6. GiftsToday = Cardinality(Gifts)
  BY DEF GiftsToday, Gifts
<1> QED BY <1>1, <1>3, <1>4, <1>5, <1>6, FS_CardinalityType

\* One order's row is written.
LEMMA OneOrderMoves ==
    ASSUME Countable, NEW d \in Drafts, \A e \in Drafts \ {d} : order'[e] = order[e],
           NEW A \in SUBSET Accounts
    PROVE  /\ IsFiniteSet(OpenOf(A)')
           /\ Cardinality(OpenOf(A)') \in Nat
           /\ Cardinality(OpenOf(A)') + (IF Owner[d] \in A /\ order[d] = "open" THEN 1 ELSE 0)
                = Cardinality(OpenOf(A)) + (IF Owner[d] \in A /\ order'[d] = "open" THEN 1 ELSE 0)
<1> DEFINE was == OpenOf(A)
           is  == OpenOf(A)'
<1>1. was \ {d} = is \ {d}
  BY DEF OpenOf
<1>2. (d \in was <=> Owner[d] \in A /\ order[d] = "open")
      /\ (d \in is <=> Owner[d] \in A /\ order'[d] = "open")
  BY DEF OpenOf
<1>3. IsFiniteSet(was) /\ Cardinality(was) \in Nat
  BY CountsAreNumbers
<1> HIDE DEF was, is
<1>4. IsFiniteSet(is)
  <2>1. IsFiniteSet(was \cup {d})
    BY <1>3, FS_AddElement
  <2>2. is \in SUBSET (was \cup {d})
    BY <1>1
  <2> QED BY <2>1, <2>2, FS_Subset
<1>5. Cardinality(is) \in Nat
  BY <1>4, FS_CardinalityType
<1>6. Cardinality(was \ {d}) = IF d \in was THEN Cardinality(was) - 1 ELSE Cardinality(was)
  BY <1>3, FS_RemoveElement
<1>7. Cardinality(is \ {d}) = IF d \in is THEN Cardinality(is) - 1 ELSE Cardinality(is)
  BY <1>4, FS_RemoveElement
<1>8. Cardinality(is) + (IF d \in was THEN 1 ELSE 0) = Cardinality(was) + (IF d \in is THEN 1 ELSE 0)
  <2>1. Cardinality(was \ {d}) = Cardinality(is \ {d})
    BY <1>1
  <2>2. CASE d \in was
    BY <1>3, <1>5, <1>6, <1>7, <2>1, <2>2
  <2>3. CASE d \notin was
    BY <1>3, <1>5, <1>6, <1>7, <2>1, <2>3
  <2> QED BY <2>2, <2>3
<1> QED BY <1>2, <1>4, <1>5, <1>8 DEF was, is

\* Letters are redrawn, none is added, and no order paid in time becomes one paid late.
LEMMA FewerLetters ==
    ASSUME IInv, OncePerDraft', Countable, SameMail, late' = late, NEW A \in SUBSET Accounts
    PROVE  /\ IsFiniteSet(letters')
           /\ Cardinality(SentOf(A)') <= Cardinality(SentOf(A))
           /\ Cardinality(SentOf(A)') \in Nat
           /\ GiftsToday' <= GiftsToday
           /\ \A day : Cardinality(OnDate(day)') <= Cardinality(OnDate(day))
<1>1. ASSUME NEW S \in SUBSET letters, NEW T \in SUBSET letters',
             \A m \in T : \E l \in S : l.draft = m.draft
      PROVE  IsFiniteSet(T) /\ Cardinality(T) <= Cardinality(S)
  <2>1. IsFiniteSet(S)
    BY FS_Subset DEF Countable
  <2>2. \A m, n \in T : m.draft = n.draft => m = n
    BY DEF OncePerDraft
  <2> QED BY <1>1, <2>1, <2>2, FewerDrafts
<1>2. IsFiniteSet(letters')
  <2>1. \A m \in letters' : \E l \in letters : l.draft = m.draft
    BY DEF SameMail
  <2>2. \A m, n \in letters' : m.draft = n.draft => m = n
    BY DEF OncePerDraft
  <2> QED BY <2>1, <2>2, FewerDrafts DEF Countable
<1>3. IsFiniteSet(SentOf(A)') /\ Cardinality(SentOf(A)') <= Cardinality(SentOf(A))
  <2>1. SentOf(A) \in SUBSET letters /\ SentOf(A)' \in SUBSET letters'
    BY DEF SentOf
  <2>2. \A m \in SentOf(A)' : \E l \in SentOf(A) : l.draft = m.draft
    BY DEF SentOf, InTime, SameMail
  <2> QED BY <1>1, <2>1, <2>2
<1>4. GiftsToday' <= GiftsToday
  <2>1. Gifts \in SUBSET letters /\ Gifts' \in SUBSET letters'
    BY DEF Gifts
  <2>2. \A m \in Gifts' : \E l \in Gifts : l.draft = m.draft
    BY DEF Gifts, SameMail
  <2>3. Cardinality(Gifts') <= Cardinality(Gifts)
    BY <1>1, <2>1, <2>2
  <2> QED BY <2>3 DEF Gifts, GiftsToday
<1>5. ASSUME NEW day PROVE Cardinality(OnDate(day)') <= Cardinality(OnDate(day))
  <2>1. OnDate(day) \in SUBSET letters /\ OnDate(day)' \in SUBSET letters'
    BY DEF OnDate
  <2>2. \A m \in OnDate(day)' : \E l \in OnDate(day) : l.draft = m.draft
    BY DEF OnDate, SameMail
  <2> QED BY <1>1, <2>1, <2>2
<1>6. Cardinality(SentOf(A)') \in Nat
  BY <1>3, FS_CardinalityType
<1> QED BY <1>2, <1>3, <1>4, <1>5, <1>6

\* One letter more, of a draft in A or not.
LEMMA OneMoreCounted ==
    ASSUME Countable, NEW d \in Drafts, NEW by \in Balances \cup {"order"}, OneLetterMore(d, by),
           late \subseteq late', NEW A \in SUBSET Accounts
    PROVE  /\ IsFiniteSet(letters')
           /\ Cardinality(SentOf(A)') \in Nat
           /\ Cardinality(SentOf(A)') <= IF Owner[d] \in A /\ (by # "order" \/ d \notin late')
                                         THEN Cardinality(SentOf(A)) + 1 ELSE Cardinality(SentOf(A))
           /\ GiftsToday' = IF by = "gift" THEN GiftsToday + 1 ELSE GiftsToday
           /\ \A day : Cardinality(OnDate(day)')
                = IF by # "order" /\ MailOn[d] = day THEN Cardinality(OnDate(day)) + 1
                                                     ELSE Cardinality(OnDate(day))
<1>1. PICK new \in Letter : /\ letters' = letters \cup {new} /\ new \notin letters
                            /\ new.draft = d /\ new.by = by /\ new.status = "queued"
  BY DEF OneLetterMore
<1>2. IsFiniteSet(letters')
  BY <1>1, FS_AddElement DEF Countable
<1>3. Cardinality(SentOf(A) \cup {new}) = Cardinality(SentOf(A)) + 1
      /\ IsFiniteSet(SentOf(A) \cup {new})
  <2>1. new \notin SentOf(A)
    BY <1>1 DEF SentOf
  <2> QED BY <2>1, CountsAreNumbers, FS_AddElement
<1>4. /\ Cardinality(SentOf(A)') \in Nat
      /\ Cardinality(SentOf(A)') <= IF Owner[d] \in A /\ (by # "order" \/ d \notin late')
                                    THEN Cardinality(SentOf(A)) + 1 ELSE Cardinality(SentOf(A))
  <2>1. CASE Owner[d] \in A /\ (by # "order" \/ d \notin late')
    <3>1. SentOf(A)' \in SUBSET (SentOf(A) \cup {new})
      BY <1>1 DEF SentOf, InTime
    <3>2. IsFiniteSet(SentOf(A)') /\ Cardinality(SentOf(A)') <= Cardinality(SentOf(A) \cup {new})
      BY <1>3, <3>1, FS_Subset
    <3> QED BY <1>3, <2>1, <3>2, FS_CardinalityType
  <2>2. CASE ~(Owner[d] \in A /\ (by # "order" \/ d \notin late'))
    <3>1. SentOf(A)' \in SUBSET SentOf(A)
      BY <1>1, <2>2 DEF SentOf, InTime
    <3>2. IsFiniteSet(SentOf(A)') /\ Cardinality(SentOf(A)') <= Cardinality(SentOf(A))
      BY <3>1, CountsAreNumbers, FS_Subset
    <3> QED BY <2>2, <3>2, FS_CardinalityType
  <2> QED BY <2>1, <2>2
<1>5. GiftsToday' = IF by = "gift" THEN GiftsToday + 1 ELSE GiftsToday
  <2>1. GiftsToday' = Cardinality(Gifts') /\ GiftsToday = Cardinality(Gifts)
    BY DEF Gifts, GiftsToday
  <2>2. new \notin Gifts /\ IsFiniteSet(Gifts)
    BY <1>1, CountsAreNumbers DEF Gifts
  <2>3. Cardinality(Gifts \cup {new}) = Cardinality(Gifts) + 1
    BY <2>2, FS_AddElement
  <2>4. Gifts' = IF by = "gift" THEN Gifts \cup {new} ELSE Gifts
    BY <1>1 DEF Gifts
  <2> QED BY <2>1, <2>3, <2>4
<1>6. ASSUME NEW day
      PROVE  Cardinality(OnDate(day)')
                = IF by # "order" /\ MailOn[d] = day THEN Cardinality(OnDate(day)) + 1
                                                     ELSE Cardinality(OnDate(day))
  <2>1. new \notin OnDate(day) /\ IsFiniteSet(OnDate(day))
    BY <1>1, CountsAreNumbers DEF OnDate
  <2>2. Cardinality(OnDate(day) \cup {new}) = Cardinality(OnDate(day)) + 1
    BY <2>1, FS_AddElement
  <2>3. OnDate(day)' = IF by # "order" /\ MailOn[d] = day THEN OnDate(day) \cup {new} ELSE OnDate(day)
    BY <1>1 DEF OnDate
  <2> QED BY <2>2, <2>3
<1> QED BY <1>2, <1>4, <1>5, <1>6

\* A step adds no row to any count; only a draft of D may have its order turned to a letter.
NoGrowth(D) ==
    /\ Countable'
    /\ \A A \in SUBSET Accounts :
          /\ Capacity(A)' \in Nat /\ Capacity(A)' <= Capacity(A)
          /\ \A e \in Drafts \ D : Owner[e] \in A => Capacity(A)' + Own(e)' <= Capacity(A) + Own(e)
    /\ GiftsToday' <= GiftsToday
    /\ \A day \in MailDays : Cardinality(OnDate(day)') <= Cardinality(OnDate(day))

LEMMA OrderShrinks ==
    ASSUME IInv, OncePerDraft', Countable, SameMail, late' = late, NEW d \in Drafts,
           \A e \in Drafts \ {d} : order'[e] = order[e],
           order'[d] # "open" \/ order'[d] = order[d]
    PROVE  NoGrowth({})
<1>1. ASSUME NEW A \in SUBSET Accounts
      PROVE  /\ Capacity(A)' = Cardinality(SentOf(A)') + Cardinality(OpenOf(A)')
             /\ Capacity(A) = Cardinality(SentOf(A)) + Cardinality(OpenOf(A))
             /\ {Cardinality(SentOf(A)'), Cardinality(OpenOf(A)'), Cardinality(SentOf(A)),
                 Cardinality(OpenOf(A))} \subseteq Nat
             /\ Cardinality(SentOf(A)') <= Cardinality(SentOf(A))
             /\ Cardinality(OpenOf(A)') + (IF Owner[d] \in A /\ order[d] = "open" THEN 1 ELSE 0)
                  = Cardinality(OpenOf(A)) + (IF Owner[d] \in A /\ order'[d] = "open" THEN 1 ELSE 0)
  BY CountsAreNumbers, OneOrderMoves, FewerLetters DEF Capacity, SentOf, OpenOf
<1>2. ASSUME NEW A \in SUBSET Accounts
      PROVE  Capacity(A)' \in Nat /\ Capacity(A)' <= Capacity(A)
  BY <1>1
<1>3. ASSUME NEW A \in SUBSET Accounts, NEW e \in Drafts, Owner[e] \in A
      PROVE  Capacity(A)' + Own(e)' <= Capacity(A) + Own(e)
  <2>1. CASE e = d
    BY <1>1, <1>3, <2>1 DEF Own
  <2>2. CASE e # d
    <3>1. Own(e)' = Own(e) /\ Own(e) \in Nat
      BY <2>2 DEF Own
    <3> QED BY <1>1, <1>2, <3>1
  <2> QED BY <2>1, <2>2
<1>4. IsFiniteSet(OpenOf(Accounts)')
  BY OneOrderMoves
<1>5. IsFiniteSet(letters') /\ GiftsToday' <= GiftsToday
      /\ \A day : Cardinality(OnDate(day)') <= Cardinality(OnDate(day))
  BY FewerLetters
<1> QED BY <1>2, <1>3, <1>4, <1>5 DEF NoGrowth, Countable

\* A paid order becomes a letter, or has lapsed and its letter is late.
LEMMA PaymentNoGrowth ==
    ASSUME IInv, Countable, NEW d \in Drafts, OneLetterMore(d, "order"),
           order[d] \in {"open", "lapsed"}, order' = [order EXCEPT ![d] = "paid"],
           late' = IF order[d] = "lapsed" THEN late \cup {d} ELSE late
    PROVE  NoGrowth({d})
<1>0. order \in [Drafts -> {"none", "open", "lapsed", "paid", "refunded"}]
  BY DEF IInv, Types
<1>1. ASSUME NEW A \in SUBSET Accounts
      PROVE  /\ Capacity(A)' = Cardinality(SentOf(A)') + Cardinality(OpenOf(A)')
             /\ Capacity(A) = Cardinality(SentOf(A)) + Cardinality(OpenOf(A))
             /\ {Cardinality(SentOf(A)'), Cardinality(OpenOf(A)'), Cardinality(SentOf(A)),
                 Cardinality(OpenOf(A))} \subseteq Nat
             /\ Cardinality(SentOf(A)') <= IF Owner[d] \in A /\ d \notin late'
                                           THEN Cardinality(SentOf(A)) + 1 ELSE Cardinality(SentOf(A))
             /\ Cardinality(OpenOf(A)') + (IF Owner[d] \in A /\ order[d] = "open" THEN 1 ELSE 0)
                  = Cardinality(OpenOf(A))
  <2>1. \A e \in Drafts \ {d} : order'[e] = order[e]
    BY <1>0
  <2>2. order'[d] = "paid"
    BY <1>0
  <2>3. /\ IsFiniteSet(OpenOf(A)')
        /\ Cardinality(OpenOf(A)') \in Nat
        /\ Cardinality(OpenOf(A)') + (IF Owner[d] \in A /\ order[d] = "open" THEN 1 ELSE 0)
             = Cardinality(OpenOf(A)) + 0
    BY <2>1, <2>2, OneOrderMoves
  <2>4. /\ Cardinality(SentOf(A)') \in Nat
        /\ Cardinality(SentOf(A)') <= IF Owner[d] \in A /\ d \notin late'
                                      THEN Cardinality(SentOf(A)) + 1 ELSE Cardinality(SentOf(A))
    BY OneMoreCounted
  <2>5. Capacity(A)' = Cardinality(SentOf(A)') + Cardinality(OpenOf(A)')
    BY DEF Capacity, SentOf, OpenOf
  <2> QED BY <2>3, <2>4, <2>5, CountsAreNumbers
<1>2. ASSUME NEW A \in SUBSET Accounts
      PROVE  Capacity(A)' \in Nat /\ Capacity(A)' <= Capacity(A)
  <2>1. CASE order[d] = "open"
    BY <1>1, <2>1
  <2>2. CASE order[d] = "lapsed"
    BY <1>1, <2>2
  <2> QED BY <2>1, <2>2
<1>3. ASSUME NEW A \in SUBSET Accounts, NEW e \in Drafts \ {d}
      PROVE  Capacity(A)' + Own(e)' <= Capacity(A) + Own(e)
  <2>1. Own(e)' = Own(e) /\ Own(e) \in Nat
    BY <1>0 DEF Own
  <2> QED BY <1>1, <1>2, <2>1
<1>4. IsFiniteSet(OpenOf(Accounts)')
  <2>1. \A e \in Drafts \ {d} : order'[e] = order[e]
    BY <1>0
  <2> QED BY <2>1, OneOrderMoves
<1>5. IsFiniteSet(letters') /\ GiftsToday' <= GiftsToday
      /\ \A day : Cardinality(OnDate(day)') <= Cardinality(OnDate(day))
  <2>1. IsFiniteSet(letters') /\ GiftsToday' = GiftsToday
        /\ \A day : Cardinality(OnDate(day)') = Cardinality(OnDate(day))
    BY OneMoreCounted
  <2>2. Accounts \in SUBSET Accounts
    OBVIOUS
  <2>3. GiftsToday \in Nat /\ \A day : Cardinality(OnDate(day)) \in Nat
    BY <2>2, CountsAreNumbers
  <2> QED BY <2>1, <2>3
<1> QED BY <1>2, <1>3, <1>4, <1>5 DEF NoGrowth, Countable

\* The row a request is about is added: its letter, or its open order.
Grows(d) ==
    /\ Countable'
    /\ \A A \in SUBSET Accounts :
          /\ Capacity(A)' \in Nat
          /\ Capacity(A)' <= IF Owner[d] \in A THEN Capacity(A) + Own(d) ELSE Capacity(A)
    /\ \A e \in Drafts \ {d} : order'[e] = order[e]

LEMMA SendGrows ==
    ASSUME IInv, Countable, NEW d \in Drafts, OneLetterMore(d, Source(d)), UNCHANGED <<order, late>>,
           order[d] # "open"
    PROVE  Grows(d)
<1>1. ASSUME NEW A \in SUBSET Accounts
      PROVE  /\ Capacity(A)' \in Nat
             /\ Capacity(A)' <= IF Owner[d] \in A THEN Capacity(A) + Own(d) ELSE Capacity(A)
  <2>1. /\ Cardinality(SentOf(A)') \in Nat
        /\ Cardinality(SentOf(A)') <= IF Owner[d] \in A THEN Cardinality(SentOf(A)) + 1
                                                       ELSE Cardinality(SentOf(A))
    BY OneMoreCounted, SourceIsBalance DEF Balances
  <2>2. OpenOf(A)' = OpenOf(A) /\ Own(d) = 1
    BY DEF OpenOf, Own
  <2>3. Capacity(A)' = Cardinality(SentOf(A)') + Cardinality(OpenOf(A)')
    BY DEF Capacity, SentOf, OpenOf
  <2> QED BY <2>1, <2>2, <2>3, CountsAreNumbers
<1>2. IsFiniteSet(letters')
  BY OneMoreCounted, SourceIsBalance
<1>3. OpenOf(Accounts)' = OpenOf(Accounts)
  BY DEF OpenOf
<1> QED BY <1>1, <1>2, <1>3 DEF Grows, Countable

LEMMA CheckoutGrows ==
    ASSUME IInv, Countable, NEW d \in Drafts, UNCHANGED <<letters, late>>,
           order' = [order EXCEPT ![d] = "open"]
    PROVE  Grows(d)
<1>0. order'[d] = "open" /\ \A e \in Drafts \ {d} : order'[e] = order[e]
  BY DEF IInv, Types
<1>1. ASSUME NEW A \in SUBSET Accounts
      PROVE  /\ Capacity(A)' \in Nat
             /\ Capacity(A)' <= IF Owner[d] \in A THEN Capacity(A) + Own(d) ELSE Capacity(A)
  <2>1. /\ Cardinality(OpenOf(A)') \in Nat
        /\ Cardinality(OpenOf(A)') + (IF Owner[d] \in A /\ order[d] = "open" THEN 1 ELSE 0)
             = Cardinality(OpenOf(A)) + (IF Owner[d] \in A THEN 1 ELSE 0)
    BY <1>0, OneOrderMoves
  <2>2. SentOf(A)' = SentOf(A)
    BY DEF SentOf, InTime
  <2>3. Capacity(A)' = Cardinality(SentOf(A)') + Cardinality(OpenOf(A)')
    BY DEF Capacity, SentOf, OpenOf
  <2>4. /\ Capacity(A) = Cardinality(SentOf(A)) + Cardinality(OpenOf(A))
        /\ Cardinality(SentOf(A)) \in Nat /\ Cardinality(OpenOf(A)) \in Nat
    BY CountsAreNumbers
  <2>5. Own(d) = IF order[d] = "open" THEN 0 ELSE 1
    BY DEF Own
  <2>6. Cardinality(OpenOf(A)') = IF Owner[d] \in A THEN Cardinality(OpenOf(A)) + Own(d)
                                                    ELSE Cardinality(OpenOf(A))
    BY <2>1, <2>4, <2>5
  <2> QED BY <2>1, <2>2, <2>3, <2>4, <2>5, <2>6
<1>2. IsFiniteSet(OpenOf(Accounts)')
  BY <1>0, OneOrderMoves
<1> QED BY <1>0, <1>1, <1>2 DEF Grows, Countable

-----------------------------------------------------------------------------
(* What a request knows from the locks it holds *)

\* The steps a kind of request takes, and the order under its draft's lock.
Fits(r) ==
    /\ call[r].at \in Capped => call[r].kind \in {"send", "checkout"}
    /\ call[r].at \in {"date", "gift cap", "compared"} => call[r].kind = "send"
    /\ call[r].kind = "send" => order[call[r].draft] # "open"
    /\ call[r].kind = "fulfil" => order[call[r].draft] \in {"open", "lapsed"}

RoomOf(r) ==
    /\ call[r].at \in Capped => Capacity({call[r].account}) + Own(call[r].draft) <= AccountCap
    /\ HoldsGlobalCap(r) => Capacity(Accounts) + Own(call[r].draft) <= GlobalCap
    /\ HoldsGiftCap(r) => GiftsToday + 1 <= GiftCap
    /\ \A day \in MailDays : HoldsDate(r, day) => Cardinality(OnDate(day)) + 1 <= DateCap

LocksOnce ==
    \A r, q \in Requests :
        /\ \A a \in Accounts : HoldsAccountCap(r, a) /\ HoldsAccountCap(q, a) => r = q
        /\ HoldsGlobalCap(r) /\ HoldsGlobalCap(q) => r = q
        /\ HoldsGiftCap(r) /\ HoldsGiftCap(q) => r = q
        /\ \A day \in MailDays : HoldsDate(r, day) /\ HoldsDate(q, day) => r = q

Limits ==
    /\ \A a \in Accounts : Capacity({a}) <= AccountCap
    /\ Capacity(Accounts) <= GlobalCap
    /\ GiftsToday <= GiftCap
    /\ \A day \in MailDays : Cardinality(OnDate(day)) <= DateCap

LimitInv ==
    /\ Countable /\ Limits /\ LocksOnce
    /\ \A r \in Requests : Fits(r) /\ RoomOf(r)

\* A lock r holds after a step it held before, or found free.
LocksFound(r) ==
    /\ \A a \in Accounts : HoldsAccountCap(r, a)' => HoldsAccountCap(r, a) \/ AccountCapFree(a)
    /\ HoldsGlobalCap(r)' => HoldsGlobalCap(r) \/ GlobalCapFree
    /\ HoldsGiftCap(r)' => HoldsGiftCap(r) \/ GiftCapFree
    /\ \A day \in MailDays : HoldsDate(r, day)' => HoldsDate(r, day) \/ DateFree(day)

LEMMA LocksStayOnce ==
    ASSUME LocksOnce, NEW r \in Requests, OthersStay(r), LocksFound(r)
    PROVE  LocksOnce'
<1>1. \A q \in Requests \ {r} :
        /\ \A a \in Accounts : HoldsAccountCap(q, a)' <=> HoldsAccountCap(q, a)
        /\ HoldsGlobalCap(q)' <=> HoldsGlobalCap(q)
        /\ HoldsGiftCap(q)' <=> HoldsGiftCap(q)
        /\ \A day \in MailDays : HoldsDate(q, day)' <=> HoldsDate(q, day)
  BY DEF OthersStay, HoldsAccountCap, HoldsGlobalCap, HoldsGiftCap, HoldsDate
<1>2. ASSUME NEW p \in Requests, NEW q \in Requests, NEW a \in Accounts,
             HoldsAccountCap(p, a)', HoldsAccountCap(q, a)'
      PROVE  p = q
  BY <1>1, <1>2 DEF LocksOnce, LocksFound, AccountCapFree
<1>3. ASSUME NEW p \in Requests, NEW q \in Requests, HoldsGlobalCap(p)', HoldsGlobalCap(q)'
      PROVE  p = q
  BY <1>1, <1>3 DEF LocksOnce, LocksFound, GlobalCapFree
<1>4. ASSUME NEW p \in Requests, NEW q \in Requests, HoldsGiftCap(p)', HoldsGiftCap(q)'
      PROVE  p = q
  BY <1>1, <1>4 DEF LocksOnce, LocksFound, GiftCapFree
<1>5. ASSUME NEW p \in Requests, NEW q \in Requests, NEW day \in MailDays,
             HoldsDate(p, day)', HoldsDate(q, day)'
      PROVE  p = q
  BY <1>1, <1>5 DEF LocksOnce, LocksFound, DateFree
<1> QED BY <1>2, <1>3, <1>4, <1>5 DEF LocksOnce, MailDays

LEMMA EndsHoldsNothing ==
    ASSUME IInv, NEW r \in Requests, Ends(r)
    PROVE  /\ OthersStay(r) /\ LocksFound(r)
           /\ Fits(r)' /\ RoomOf(r)'
<1>1. /\ call'[r].at = "idle" /\ call'[r].kind = "none"
      /\ \A q \in Requests \ {r} : call'[q] = call[q]
  BY EndsCall DEF IInv
<1> QED BY <1>1 DEF OthersStay, LocksFound, Fits, RoomOf, HoldsAccountCap, HoldsGlobalCap,
              HoldsGiftCap, HoldsDate

LEMMA CappedIsOfDraft ==
    ASSUME IInv, LimitInv, NEW r \in Requests, call[r].at \in Capped
    PROVE  call[r].draft \in Drafts /\ call[r].account = Owner[call[r].draft]
           /\ call[r].account \in Accounts
BY DEF LimitInv, Fits, IInv, CallInv, AboutDraft

\* Where nothing grows, whoever has room keeps it.
LEMMA RoomStays ==
    ASSUME IInv, LimitInv, NEW D, NoGrowth(D), NEW q \in Requests, call'[q] = call[q],
           call[q].kind # "none" => call[q].draft \notin D
    PROVE  RoomOf(q)'
<1>0. {AccountCap, GlobalCap, GiftCap, DateCap} \subseteq Nat
  BY SendAssumption
<1>1. Accounts \in SUBSET Accounts /\ \A a \in Accounts : {a} \in SUBSET Accounts
  OBVIOUS
<1>2. ASSUME call[q].at \in Capped
      PROVE  /\ Capacity({call[q].account})' + Own(call[q].draft)' <= AccountCap
             /\ HoldsGlobalCap(q) => Capacity(Accounts)' + Own(call[q].draft)' <= GlobalCap
  <2>1. /\ call[q].draft \in Drafts \ D /\ call[q].account = Owner[call[q].draft]
        /\ call[q].account \in Accounts
    BY <1>2, CappedIsOfDraft DEF LimitInv, Fits
  <2>2. /\ Capacity({call[q].account})' + Own(call[q].draft)'
             <= Capacity({call[q].account}) + Own(call[q].draft)
        /\ Capacity(Accounts)' + Own(call[q].draft)' <= Capacity(Accounts) + Own(call[q].draft)
    BY <1>1, <2>1 DEF NoGrowth
  <2>3. /\ Capacity({call[q].account}) + Own(call[q].draft) <= AccountCap
        /\ HoldsGlobalCap(q) => Capacity(Accounts) + Own(call[q].draft) <= GlobalCap
    BY <1>2 DEF LimitInv, RoomOf
  <2>4. /\ Capacity({call[q].account}) \in Nat /\ Capacity(Accounts) \in Nat
        /\ Capacity({call[q].account})' \in Nat /\ Capacity(Accounts)' \in Nat
        /\ Own(call[q].draft) \in Nat /\ Own(call[q].draft)' \in Nat
    <3>1. Own(call[q].draft) \in Nat /\ Own(call[q].draft)' \in Nat
      BY DEF Own
    <3> QED BY <1>1, <2>1, <3>1, CountsAreNumbers DEF NoGrowth, LimitInv
  <2> QED BY <1>0, <2>2, <2>3, <2>4
<1>3. GiftsToday \in Nat /\ GiftsToday' \in Nat /\ GiftsToday' <= GiftsToday
      /\ \A day \in MailDays : /\ Cardinality(OnDate(day)) \in Nat /\ Cardinality(OnDate(day)') \in Nat
                               /\ Cardinality(OnDate(day)') <= Cardinality(OnDate(day))
  <2>1. Countable /\ Countable'
    BY DEF LimitInv, NoGrowth
  <2>2. GiftsToday \in Nat /\ \A day : Cardinality(OnDate(day)) \in Nat
    BY <1>1, <2>1, CountsAreNumbers
  <2>3. GiftsToday' \in Nat /\ \A day : Cardinality(OnDate(day)') \in Nat
    <3>1. IsFiniteSet(letters')
      BY <2>1 DEF Countable
    <3>2. Gifts' \in SUBSET letters' /\ \A day : OnDate(day)' \in SUBSET letters'
      BY DEF Gifts, OnDate
    <3>3. \A S \in SUBSET letters' : IsFiniteSet(S) /\ Cardinality(S) \in Nat
      BY <3>1, FS_Subset, FS_CardinalityType
    <3> QED BY <3>2, <3>3 DEF GiftsToday, Gifts
  <2> QED BY <2>2, <2>3 DEF NoGrowth
<1>4. HoldsGiftCap(q) => GiftsToday' + 1 <= GiftCap
  <2>1. HoldsGiftCap(q) => GiftsToday + 1 <= GiftCap
    BY DEF LimitInv, RoomOf
  <2> QED BY <1>0, <1>3, <2>1
<1>5. ASSUME NEW day \in MailDays, HoldsDate(q, day) PROVE Cardinality(OnDate(day)') + 1 <= DateCap
  <2>1. Cardinality(OnDate(day)) + 1 <= DateCap
    BY <1>5 DEF LimitInv, RoomOf
  <2> QED BY <1>0, <1>3, <2>1
<1>6. HoldsGlobalCap(q)' <=> HoldsGlobalCap(q)
  BY DEF HoldsGlobalCap
<1>7. HoldsGlobalCap(q) => call[q].at \in Capped
  BY DEF HoldsGlobalCap
<1> QED BY <1>2, <1>4, <1>5, <1>6, <1>7 DEF RoomOf, HoldsGiftCap, HoldsDate, MailDays

LEMMA LimitsStay ==
    ASSUME LimitInv, NEW D, NoGrowth(D)
    PROVE  Limits'
<1>0. {AccountCap, GlobalCap, GiftCap, DateCap} \subseteq Nat
  BY SendAssumption
<1>1. Accounts \in SUBSET Accounts /\ \A a \in Accounts : {a} \in SUBSET Accounts
  OBVIOUS
<1>2. Countable /\ Countable' /\ Limits
  BY DEF LimitInv, NoGrowth
<1>3. /\ \A a \in Accounts : Capacity({a}) \in Nat /\ Capacity({a})' \in Nat
                             /\ Capacity({a})' <= Capacity({a})
      /\ Capacity(Accounts) \in Nat /\ Capacity(Accounts)' \in Nat
      /\ Capacity(Accounts)' <= Capacity(Accounts)
  BY <1>1, <1>2, CountsAreNumbers DEF NoGrowth
<1>4. GiftsToday \in Nat /\ \A day : Cardinality(OnDate(day)) \in Nat
  BY <1>1, <1>2, CountsAreNumbers
<1>5. GiftsToday' \in Nat /\ \A day : Cardinality(OnDate(day)') \in Nat
  <2>1. Gifts' \in SUBSET letters' /\ \A day : OnDate(day)' \in SUBSET letters'
    BY DEF Gifts, OnDate
  <2>2. \A S \in SUBSET letters' : IsFiniteSet(S) /\ Cardinality(S) \in Nat
    BY <1>2, FS_Subset, FS_CardinalityType DEF Countable
  <2> QED BY <2>1, <2>2 DEF GiftsToday, Gifts
<1>6. ASSUME NEW a \in Accounts PROVE Capacity({a})' <= AccountCap
  <2>1. Capacity({a}) <= AccountCap
    BY <1>2 DEF Limits
  <2>2. Capacity({a}) \in Nat /\ Capacity({a})' \in Nat /\ Capacity({a})' <= Capacity({a})
    BY <1>3
  <2> QED BY <1>0, <2>1, <2>2
<1>7. Capacity(Accounts)' <= GlobalCap
  BY <1>0, <1>2, <1>3 DEF Limits
<1>8. GiftsToday' <= GiftCap
  BY <1>0, <1>2, <1>4, <1>5 DEF Limits, NoGrowth
<1>9. \A day \in MailDays : Cardinality(OnDate(day)') <= DateCap
  BY <1>0, <1>2, <1>4, <1>5 DEF Limits, NoGrowth
<1> QED BY <1>6, <1>7, <1>8, <1>9 DEF Limits, MailDays

LEMMA CountsAfter ==
    ASSUME Countable'
    PROVE  GiftsToday' \in Nat /\ \A day : Cardinality(OnDate(day)') \in Nat
<1>1. Gifts' \in SUBSET letters' /\ \A day : OnDate(day)' \in SUBSET letters'
  BY DEF Gifts, OnDate
<1>2. \A S \in SUBSET letters' : IsFiniteSet(S) /\ Cardinality(S) \in Nat
  BY FS_Subset, FS_CardinalityType DEF Countable
<1> QED BY <1>1, <1>2 DEF GiftsToday, Gifts

LEMMA NothingGrows ==
    ASSUME Countable, UNCHANGED <<letters, order, late>>
    PROVE  NoGrowth({})
<1>1. ASSUME NEW A \in SUBSET Accounts
      PROVE  SentOf(A)' = SentOf(A) /\ OpenOf(A)' = OpenOf(A) /\ Capacity(A)' = Capacity(A)
             /\ Capacity(A) \in Nat
  <2>1. Capacity(A) \in Nat
    BY CountsAreNumbers
  <2>2. SentOf(A)' = SentOf(A) /\ OpenOf(A)' = OpenOf(A)
    BY DEF SentOf, OpenOf, InTime
  <2>3. Capacity(A)' = Cardinality(SentOf(A)') + Cardinality(OpenOf(A)')
    BY DEF Capacity, SentOf, OpenOf
  <2>4. Capacity(A) = Cardinality(SentOf(A)) + Cardinality(OpenOf(A))
    BY DEF Capacity, SentOf, OpenOf
  <2> QED BY <2>1, <2>2, <2>3, <2>4
<1>2. \A e \in Drafts : Own(e)' = Own(e) /\ Own(e) \in Nat
  BY DEF Own
<1>3. ASSUME NEW A \in SUBSET Accounts, NEW e \in Drafts
      PROVE  Capacity(A)' <= Capacity(A) /\ Capacity(A)' + Own(e)' <= Capacity(A) + Own(e)
  BY <1>1, <1>2
<1>4. Countable' /\ Accounts \in SUBSET Accounts
  BY <1>1 DEF Countable
<1>5. GiftsToday' = GiftsToday /\ GiftsToday \in Nat
      /\ \A day : OnDate(day)' = OnDate(day) /\ Cardinality(OnDate(day)) \in Nat
  BY <1>4, CountsAreNumbers DEF GiftsToday, OnDate
<1>6. ASSUME NEW day \in MailDays PROVE Cardinality(OnDate(day)') <= Cardinality(OnDate(day))
  BY <1>5
<1>7. ASSUME NEW A \in SUBSET Accounts PROVE Capacity(A)' \in Nat /\ Capacity(A)' <= Capacity(A)
  BY <1>1
<1> QED BY <1>3, <1>4, <1>5, <1>6, <1>7 DEF NoGrowth

LEMMA MailRedrawn ==
    ASSUME IInv, OncePerDraft', Countable, SameMail, UNCHANGED <<order, late>>
    PROVE  NoGrowth({})
<1>1. CASE Drafts = {}
  <2>1. letters = {}
    BY <1>1 DEF IInv, Types, Letter
  <2>2. letters' = letters
    BY <2>1 DEF SameMail
  <2> QED BY <2>2, NothingGrows
<1>2. CASE Drafts # {}
  <2>1. PICK d \in Drafts : TRUE
    BY <1>2
  <2> QED BY <2>1, OrderShrinks
<1> QED BY <1>1, <1>2

\* A request's step that adds to no count, and after which the request itself has room.
LEMMA RequestKeepsLimits ==
    ASSUME IInv, LimitInv, NEW r \in Requests, OthersStay(r), LocksFound(r), Fits(r)', RoomOf(r)',
           NEW D, NoGrowth(D),
           \A q \in Requests \ {r} : call[q].kind # "none" => call[q].draft \notin D,
           \A q \in Requests \ {r} : call[q].kind \in {"send", "fulfil"} =>
              order'[call[q].draft] = order[call[q].draft]
    PROVE  LimitInv'
<1>1. \A q \in Requests \ {r} : call'[q] = call[q]
  BY DEF OthersStay
<1>2. ASSUME NEW q \in Requests PROVE Fits(q)' /\ RoomOf(q)'
  <2>1. CASE q = r
    BY <2>1
  <2>2. CASE q # r
    <3>1. Fits(q)'
      <4>1. Fits(q) /\ call'[q] = call[q]
        BY <1>1, <2>2 DEF LimitInv
      <4>2. call[q].kind \in {"send", "fulfil"} => order'[call[q].draft] = order[call[q].draft]
        BY <2>2
      <4> QED BY <4>1, <4>2 DEF Fits
    <3>2. RoomOf(q)'
      BY <1>1, <2>2, RoomStays
    <3> QED BY <3>1, <3>2
  <2> QED BY <2>1, <2>2
<1>3. LocksOnce'
  BY LocksStayOnce DEF LimitInv
<1>4. Limits' /\ Countable'
  BY LimitsStay DEF NoGrowth
<1> QED BY <1>2, <1>3, <1>4 DEF LimitInv

\* A step of Stripe, the clock or the outbox.
LEMMA OthersKeepLimits ==
    ASSUME IInv, LimitInv, NoGrowth({}), UNCHANGED call,
           \A q \in Requests : call[q].kind = "send" => order'[call[q].draft] # "open",
           \A q \in Requests : call[q].kind = "fulfil" => order'[call[q].draft] \in {"open", "lapsed"}
    PROVE  LimitInv'
<1>1. ASSUME NEW q \in Requests PROVE Fits(q)' /\ RoomOf(q)'
  <2>1. Fits(q)'
    BY DEF LimitInv, Fits
  <2>2. RoomOf(q)'
    BY RoomStays
  <2> QED BY <2>1, <2>2
<1>2. LocksOnce'
  <2>1. \A q \in Requests :
          /\ \A a \in Accounts : HoldsAccountCap(q, a)' <=> HoldsAccountCap(q, a)
          /\ HoldsGlobalCap(q)' <=> HoldsGlobalCap(q)
          /\ HoldsGiftCap(q)' <=> HoldsGiftCap(q)
          /\ \A day \in MailDays : HoldsDate(q, day)' <=> HoldsDate(q, day)
    BY DEF HoldsAccountCap, HoldsGlobalCap, HoldsGiftCap, HoldsDate
  <2>2. LocksOnce
    BY DEF LimitInv
  <2> QED BY <2>1, <2>2 DEF LocksOnce, MailDays
<1>3. Limits' /\ Countable'
  BY LimitsStay DEF NoGrowth
<1> QED BY <1>1, <1>2, <1>3 DEF LimitInv

\* The commit of what was counted: the row is added under the locks of its count.
LEMMA CommitKeepsLimits ==
    ASSUME IInv, LimitInv, NEW r \in Requests, Ends(r), Grows(call[r].draft), HoldsGlobalCap(r),
           call[r].kind \in {"send", "checkout"},
           GiftsToday' = GiftsToday \/ (HoldsGiftCap(r) /\ GiftsToday' = GiftsToday + 1),
           \A day \in MailDays :
              \/ Cardinality(OnDate(day)') = Cardinality(OnDate(day))
              \/ HoldsDate(r, day) /\ Cardinality(OnDate(day)') = Cardinality(OnDate(day)) + 1
    PROVE  LimitInv'
<1> DEFINE d == call[r].draft
<1>0. {AccountCap, GlobalCap, GiftCap, DateCap} \subseteq Nat
  BY SendAssumption
<1>1. /\ call[r].at \in Capped /\ d \in Drafts /\ call[r].account = Owner[d] /\ Owner[d] \in Accounts
      /\ HoldsAccountCap(r, Owner[d])
  <2>1. call[r].at \in Capped
    BY DEF HoldsGlobalCap
  <2> QED BY <2>1, CappedIsOfDraft DEF HoldsAccountCap
<1>2. OthersStay(r) /\ LocksFound(r) /\ Fits(r)' /\ RoomOf(r)'
  BY EndsHoldsNothing
<1>3. \A q \in Requests \ {r} : call'[q] = call[q] /\ (call[q].kind # "none" => call[q].draft # d)
  <2>1. DraftsHeldOnce /\ d # None
    BY <1>1 DEF IInv, CallInv
  <2> QED BY <1>1, <1>2, <2>1 DEF OthersStay, DraftsHeldOnce
<1>4. Accounts \in SUBSET Accounts /\ \A a \in Accounts : {a} \in SUBSET Accounts
  OBVIOUS
<1>5. Countable /\ Countable' /\ Limits /\ LocksOnce
  BY DEF LimitInv, Grows
<1>6. /\ \A a \in Accounts : /\ Capacity({a}) \in Nat /\ Capacity({a})' \in Nat
                             /\ a # Owner[d] => Capacity({a})' <= Capacity({a})
                             /\ a = Owner[d] => Capacity({a})' <= Capacity({a}) + Own(d)
      /\ Capacity(Accounts) \in Nat /\ Capacity(Accounts)' \in Nat
      /\ Capacity(Accounts)' <= Capacity(Accounts) + Own(d)
  <2>1. \A A \in SUBSET Accounts :
          /\ Capacity(A) \in Nat /\ Capacity(A)' \in Nat
          /\ Capacity(A)' <= IF Owner[d] \in A THEN Capacity(A) + Own(d) ELSE Capacity(A)
    BY <1>5, CountsAreNumbers DEF Grows
  <2>2. ASSUME NEW a \in Accounts, a # Owner[d] PROVE Capacity({a})' <= Capacity({a})
    BY <1>4, <2>1, <2>2
  <2>3. ASSUME NEW a \in Accounts, a = Owner[d] PROVE Capacity({a})' <= Capacity({a}) + Own(d)
    BY <1>4, <2>1, <2>3
  <2>4. ASSUME NEW a \in Accounts PROVE Capacity({a}) \in Nat /\ Capacity({a})' \in Nat
    BY <1>4, <2>1
  <2>5. /\ Capacity(Accounts) \in Nat /\ Capacity(Accounts)' \in Nat
        /\ Capacity(Accounts)' <= Capacity(Accounts) + Own(d)
    BY <1>1, <1>4, <2>1
  <2> QED BY <2>2, <2>3, <2>4, <2>5
<1>7. GiftsToday \in Nat /\ GiftsToday' \in Nat
      /\ \A day : Cardinality(OnDate(day)) \in Nat /\ Cardinality(OnDate(day)') \in Nat
  BY <1>4, <1>5, CountsAreNumbers, CountsAfter
<1>8. Own(d) \in Nat
  BY DEF Own
<1>9. RoomOf(r)
  BY DEF LimitInv
<1>10. Limits'
  <2>1. ASSUME NEW a \in Accounts PROVE Capacity({a})' <= AccountCap
    <3>1. CASE a = Owner[d]
      <4>1. Capacity({a}) + Own(d) <= AccountCap
        BY <1>1, <1>9, <3>1 DEF RoomOf
      <4>2. Capacity({a}) \in Nat /\ Capacity({a})' \in Nat
            /\ Capacity({a})' <= Capacity({a}) + Own(d)
        BY <1>6, <3>1
      <4> QED BY <1>0, <1>8, <4>1, <4>2
    <3>2. CASE a # Owner[d]
      <4>1. Capacity({a}) <= AccountCap
        BY <1>5 DEF Limits
      <4>2. Capacity({a}) \in Nat /\ Capacity({a})' \in Nat /\ Capacity({a})' <= Capacity({a})
        BY <1>6, <3>2
      <4> QED BY <1>0, <4>1, <4>2
    <3> QED BY <3>1, <3>2
  <2>2. Capacity(Accounts)' <= GlobalCap
    <3>1. Capacity(Accounts) + Own(d) <= GlobalCap
      BY <1>9 DEF RoomOf
    <3> QED BY <1>0, <1>6, <1>8, <3>1
  <2>3. GiftsToday' <= GiftCap
    <3>1. GiftsToday <= GiftCap /\ (HoldsGiftCap(r) => GiftsToday + 1 <= GiftCap)
      BY <1>5, <1>9 DEF Limits, RoomOf
    <3> QED BY <3>1
  <2>4. ASSUME NEW day \in MailDays PROVE Cardinality(OnDate(day)') <= DateCap
    <3>1. /\ Cardinality(OnDate(day)) <= DateCap
          /\ HoldsDate(r, day) => Cardinality(OnDate(day)) + 1 <= DateCap
      BY <1>5, <1>9 DEF Limits, RoomOf
    <3> QED BY <3>1
  <2> QED BY <2>1, <2>2, <2>3, <2>4 DEF Limits, MailDays
<1>11. ASSUME NEW q \in Requests \ {r} PROVE Fits(q)' /\ RoomOf(q)'
  <2>1. call'[q] = call[q] /\ Fits(q) /\ RoomOf(q)
    BY <1>3 DEF LimitInv
  <2>2. call[q].kind \in {"send", "checkout", "fulfil"} =>
          call[q].draft \in Drafts \ {d} /\ order'[call[q].draft] = order[call[q].draft]
    BY <1>3 DEF Grows, IInv, CallInv, AboutDraft
  <2>3. Fits(q)'
    BY <2>1, <2>2 DEF Fits
  <2>4. ASSUME call[q].at \in Capped
        PROVE  Capacity({call[q].account})' + Own(call[q].draft)' <= AccountCap
    <3>1. call[q].account \in Accounts /\ call[q].kind \in {"send", "checkout"}
      BY <2>1, <2>4, CappedIsOfDraft DEF Fits
    <3>2. call[q].account # Owner[d]
      BY <1>1, <1>5, <2>4, <3>1 DEF LocksOnce, HoldsAccountCap
    <3>3. Own(call[q].draft)' = Own(call[q].draft) /\ Own(call[q].draft) \in Nat
      BY <2>1, <2>2, <3>1 DEF Own
    <3>4. Capacity({call[q].account}) + Own(call[q].draft) <= AccountCap
      BY <2>1, <2>4 DEF RoomOf
    <3>5. /\ Capacity({call[q].account}) \in Nat /\ Capacity({call[q].account})' \in Nat
          /\ Capacity({call[q].account})' <= Capacity({call[q].account})
      BY <1>6, <2>1, <3>1, <3>2
    <3> QED BY <1>0, <3>3, <3>4, <3>5
  <2>5. ~HoldsGlobalCap(q)
    BY <1>5 DEF LocksOnce
  <2>6. HoldsGiftCap(q) => GiftsToday' + 1 <= GiftCap
    <3>1. HoldsGiftCap(q) => GiftsToday' = GiftsToday
      BY <1>5 DEF LocksOnce
    <3> QED BY <2>1, <3>1 DEF RoomOf
  <2>7. ASSUME NEW day \in MailDays, HoldsDate(q, day) PROVE Cardinality(OnDate(day)') + 1 <= DateCap
    <3>1. Cardinality(OnDate(day)') = Cardinality(OnDate(day))
      BY <1>5, <2>7 DEF LocksOnce
    <3> QED BY <2>1, <2>7, <3>1 DEF RoomOf
  <2>8. RoomOf(q)'
    BY <2>1, <2>4, <2>5, <2>6, <2>7 DEF RoomOf, HoldsGlobalCap, HoldsGiftCap, HoldsDate, MailDays
  <2> QED BY <2>3, <2>8
<1>12. LocksOnce'
  BY <1>2, <1>5, LocksStayOnce
<1> QED BY <1>2, <1>5, <1>10, <1>11, <1>12 DEF LimitInv

-----------------------------------------------------------------------------
(* The steps of a request: what it counts is what it then has room for *)

\* mailTodayCount counts every letter and every open order; the limit is on those in time.
LEMMA TodayCovers ==
    ASSUME Countable, NEW A \in SUBSET Accounts, NEW d \in Drafts
    PROVE  Capacity(A) + Own(d) <= WithOwn(d, A) /\ WithOwn(d, A) \in Nat
           /\ Capacity(A) \in Nat /\ Own(d) \in Nat
<1> DEFINE all == {l \in letters : Owner[l.draft] \in A}
<1>1. SentOf(A) \in SUBSET all /\ all \in SUBSET letters
  BY DEF SentOf
<1>2. IsFiniteSet(all)
  BY <1>1, FS_Subset DEF Countable
<1>3. Cardinality(SentOf(A)) <= Cardinality(all) /\ Cardinality(all) \in Nat
  BY <1>1, <1>2, FS_Subset, FS_CardinalityType
<1>4. Today(A) = Cardinality(all) + Cardinality(OpenOf(A))
  BY DEF Today, OpenOf
<1>5. /\ Capacity(A) = Cardinality(SentOf(A)) + Cardinality(OpenOf(A))
      /\ Cardinality(SentOf(A)) \in Nat /\ Cardinality(OpenOf(A)) \in Nat
  BY CountsAreNumbers
<1>6. WithOwn(d, A) = Today(A) + Own(d) /\ Own(d) \in Nat
  BY DEF WithOwn, Own
<1> HIDE DEF all
<1> QED BY <1>3, <1>4, <1>5, <1>6

LEMMA DateCovers ==
    ASSUME Countable, NEW day
    PROVE  Cardinality(OnDate(day)) <= HeldOn(day) /\ HeldOn(day) \in Nat
           /\ Cardinality(OnDate(day)) \in Nat
<1> DEFINE all == {l \in letters : l.status = "queued" /\ MailOn[l.draft] = day}
<1>1. OnDate(day) \in SUBSET all /\ all \in SUBSET letters
  BY DEF OnDate
<1>2. IsFiniteSet(all) /\ IsFiniteSet(OnDate(day))
  BY <1>1, FS_Subset DEF Countable
<1>3. HeldOn(day) = Cardinality(all)
  BY DEF HeldOn
<1> HIDE DEF all
<1> QED BY <1>1, <1>2, <1>3, FS_Subset, FS_CardinalityType

LEMMA QuietKeepsLimits ==
    ASSUME IInv, LimitInv, NEW r \in Requests, UNCHANGED Tables, OthersStay(r),
           LocksFound(r), Fits(r)', RoomOf(r)'
    PROVE  LimitInv'
<1>1. NoGrowth({})
  BY NothingGrows DEF Tables, LimitInv
<1> QED BY <1>1, RequestKeepsLimits DEF Tables

LEMMA StopKeepsLimits ==
    ASSUME IInv, LimitInv, NEW r \in Requests, UNCHANGED Tables, Ends(r)
    PROVE  LimitInv'
BY EndsHoldsNothing, QuietKeepsLimits

\* A request reaches a step with its room: what the step counts, it counts under the locks it
\* has, and takes the lock first.
LEMMA StepKeepsLimits ==
    ASSUME IInv, LimitInv, NEW r \in Requests, NEW step \in Steps, UNCHANGED Tables,
           Reaches(r, step), step \in Capped => call[r].kind \in {"send", "checkout"},
           step \in {"date", "gift cap", "compared"} => call[r].kind = "send",
           LocksFound(r),
           step \in Capped => Capacity({call[r].account}) + Own(call[r].draft) <= AccountCap,
           step \in Capped \ {"account cap"} =>
              Capacity(Accounts) + Own(call[r].draft) <= GlobalCap,
           HoldsGiftCap(r)' => GiftsToday + 1 <= GiftCap,
           \A day \in MailDays : HoldsDate(r, day)' => Cardinality(OnDate(day)) + 1 <= DateCap
    PROVE  LimitInv'
<1>1. OthersStay(r) /\ SameRequest(r) /\ call'[r].at = step
  BY MovesOne DEF IInv
<1>2. letters' = letters /\ order' = order /\ late' = late
  BY DEF Tables
<1>3. Fits(r)'
  BY <1>1, <1>2 DEF Fits, SameRequest, LimitInv
<1>4. ASSUME NEW A PROVE Capacity(A)' = Capacity(A)
  BY <1>2 DEF Capacity, InTime
<1>5. /\ \A e : Own(e)' = Own(e)
      /\ GiftsToday' = GiftsToday
      /\ \A day : OnDate(day)' = OnDate(day)
  BY <1>2 DEF Own, GiftsToday, OnDate
<1>6. RoomOf(r)'
  <2> PICK a, d : a = call[r].account /\ d = call[r].draft
    OBVIOUS
  <2>0. a = call'[r].account /\ d = call'[r].draft
    BY <1>1 DEF SameRequest
  <2>1. step \in Capped => Capacity({call[r].account})' + Own(call[r].draft)' <= AccountCap
    <3>1. Capacity({a})' = Capacity({a}) /\ Own(d)' = Own(d)
      BY <1>4, <1>5
    <3>2. Capacity({call[r].account})' = Capacity({a})' /\ Own(call[r].draft)' = Own(d)'
      BY <2>0
    <3> QED BY <3>1, <3>2
  <2>2. step \in Capped \ {"account cap"} => Capacity(Accounts)' + Own(call[r].draft)' <= GlobalCap
    <3>1. Capacity(Accounts)' = Capacity(Accounts) /\ Own(d)' = Own(d)
      BY <1>4, <1>5
    <3>2. Own(call[r].draft)' = Own(d)'
      BY <2>0
    <3> QED BY <3>1, <3>2
  <2>3. HoldsGlobalCap(r)' => step \in Capped \ {"account cap"}
    BY <1>1 DEF HoldsGlobalCap
  <2>4. HoldsGiftCap(r)' => GiftsToday' + 1 <= GiftCap
    BY <1>5
  <2>5. \A day \in MailDays : HoldsDate(r, day)' => Cardinality(OnDate(day)') + 1 <= DateCap
    BY <1>5
  <2> QED BY <1>1, <2>1, <2>2, <2>3, <2>4, <2>5 DEF RoomOf, MailDays
<1> QED BY <1>1, <1>3, <1>6, QuietKeepsLimits

\* The five steps of a send or a checkout that count, or go on under the counts behind them.
LEMMA CountsKeepLimits ==
    ASSUME IInv, LimitInv, NEW r \in Requests,
           \/ SendCountsDate(r) \/ SendTakesFunds(r) \/ CountsAccount(r) \/ CountsGlobal(r)
           \/ SendCountsGifts(r) \/ SendComparesMail(r)
    PROVE  LimitInv'
<1> DEFINE d == call[r].draft
           a == call[r].account
<1>0. {AccountCap, GlobalCap, GiftCap, DateCap} \subseteq Nat
  BY SendAssumption
<1>1. Countable /\ RoomOf(r) /\ Fits(r)
  BY DEF LimitInv
<1>2. call[r].kind \in {"send", "checkout"} => d \in Drafts /\ a = Owner[d] /\ a \in Accounts
  BY DEF IInv, CallInv, AboutDraft
<1>3. ASSUME Ends(r), UNCHANGED Tables PROVE LimitInv'
  BY <1>3, StopKeepsLimits
<1>4. ASSUME NEW step \in Steps, Reaches(r, step)
      PROVE  call'[r].at = step /\ SameRequest(r)
  BY <1>4, MovesOne DEF IInv
<1>5. CASE SendCountsDate(r)
  <2>1. call[r].kind = "send" /\ call[r].at = "draft" /\ UNCHANGED Tables
        /\ (MailOn[d] = None \/ DateFree(MailOn[d]))
    BY <1>5 DEF SendCountsDate
  <2>2. CASE Ends(r)
    BY <1>3, <2>1, <2>2
  <2>3. CASE Reaches(r, "date") /\ ~DateFull(d)
    <3>1. call'[r].at = "date" /\ SameRequest(r)
      BY <1>4, <2>3
    <3>2. ASSUME NEW day \in MailDays, HoldsDate(r, day)'
          PROVE  DateFree(day) /\ Cardinality(OnDate(day)) + 1 <= DateCap
      <4>1. day = MailOn[d] /\ day # None
        BY <3>1, <3>2 DEF HoldsDate, SameRequest, MailDays
      <4>2. /\ HeldOn(day) < DateCap \/ ~(HeldOn(day) \in Nat)
            /\ Cardinality(OnDate(day)) <= HeldOn(day) /\ HeldOn(day) \in Nat
            /\ Cardinality(OnDate(day)) \in Nat
        BY <1>0, <1>1, <2>3, <4>1, DateCovers DEF DateFull
      <4> QED BY <1>0, <2>1, <4>1, <4>2
    <3>3. LocksFound(r) /\ ~HoldsGiftCap(r)'
      BY <3>1, <3>2 DEF LocksFound, HoldsAccountCap, HoldsGlobalCap, HoldsGiftCap
    <3> QED BY <2>1, <2>3, <3>2, <3>3, StepKeepsLimits
  <2> QED BY <1>5, <2>2, <2>3 DEF SendCountsDate
<1>6. CASE SendTakesFunds(r)
  <2>1. call[r].kind = "send" /\ call[r].at = "date" /\ UNCHANGED Tables
    BY <1>6 DEF SendTakesFunds
  <2>2. CASE Ends(r)
    BY <1>3, <2>1, <2>2
  <2>3. CASE Reaches(r, "account")
    <3>1. call'[r].at = "account" /\ SameRequest(r)
      BY <1>4, <2>3
    <3>2. \A day \in MailDays : HoldsDate(r, day)' => HoldsDate(r, day)
      BY <2>1, <3>1 DEF HoldsDate, SameRequest
    <3>3. \A day \in MailDays : HoldsDate(r, day)' => Cardinality(OnDate(day)) + 1 <= DateCap
      BY <1>1, <3>2 DEF RoomOf
    <3>4. LocksFound(r) /\ ~HoldsGiftCap(r)'
      BY <3>1, <3>2 DEF LocksFound, HoldsAccountCap, HoldsGlobalCap, HoldsGiftCap
    <3> QED BY <2>1, <2>3, <3>3, <3>4, StepKeepsLimits
  <2> QED BY <1>6, <2>2, <2>3 DEF SendTakesFunds
<1>7. CASE CountsAccount(r)
  <2>1. /\ call[r].kind \in {"send", "checkout"} /\ call[r].at \in {"account", "inserted"}
        /\ UNCHANGED Tables /\ AccountCapFree(a)
        /\ IF WithOwn(d, {a}) > AccountCap THEN Ends(r) ELSE Reaches(r, "account cap")
        /\ call[r].kind = "send" => call[r].at = "account"
    BY <1>7 DEF CountsAccount
  <2>2. CASE Ends(r)
    BY <1>3, <2>1, <2>2
  <2>3. CASE ~(WithOwn(d, {a}) > AccountCap) /\ Reaches(r, "account cap")
    <3>1. call'[r].at = "account cap" /\ SameRequest(r)
      BY <1>4, <2>3
    <3>2. \A day \in MailDays : HoldsDate(r, day)' => HoldsDate(r, day)
      BY <2>1, <3>1 DEF HoldsDate, SameRequest
    <3>3. \A day \in MailDays : HoldsDate(r, day)' => Cardinality(OnDate(day)) + 1 <= DateCap
      BY <1>1, <3>2 DEF RoomOf
    <3>4. LocksFound(r) /\ ~HoldsGiftCap(r)'
      BY <2>1, <3>1, <3>2 DEF LocksFound, HoldsAccountCap, HoldsGlobalCap, HoldsGiftCap, SameRequest
    <3>5. Capacity({a}) + Own(d) <= AccountCap
      <4>1. {a} \in SUBSET Accounts /\ d \in Drafts
        BY <1>2, <2>1
      <4>2. /\ Capacity({a}) + Own(d) <= WithOwn(d, {a}) /\ WithOwn(d, {a}) \in Nat
            /\ Capacity({a}) \in Nat /\ Own(d) \in Nat
        BY <1>1, <4>1, TodayCovers
      <4>3. AccountCap \in Nat /\ ~(WithOwn(d, {a}) > AccountCap)
        BY <1>0, <2>3
      <4> HIDE DEF d, a
      <4> QED BY <4>2, <4>3
    <3> QED BY <2>1, <2>3, <3>3, <3>4, <3>5, StepKeepsLimits
  <2> QED BY <2>1, <2>2, <2>3
<1>8. CASE CountsGlobal(r)
  <2>1. /\ call[r].at = "account cap" /\ UNCHANGED Tables /\ GlobalCapFree
        /\ IF WithOwn(d, Accounts) > GlobalCap THEN Ends(r) ELSE Reaches(r, "global cap")
    BY <1>8 DEF CountsGlobal
  <2>2. call[r].kind \in {"send", "checkout"} /\ Capacity({a}) + Own(d) <= AccountCap
    BY <1>1, <2>1 DEF Fits, RoomOf
  <2>3. CASE Ends(r)
    BY <1>3, <2>1, <2>3
  <2>4. CASE ~(WithOwn(d, Accounts) > GlobalCap) /\ Reaches(r, "global cap")
    <3>1. call'[r].at = "global cap" /\ SameRequest(r)
      BY <1>4, <2>4
    <3>2. \A day \in MailDays : HoldsDate(r, day)' => HoldsDate(r, day)
      BY <2>1, <3>1 DEF HoldsDate, SameRequest
    <3>3. \A day \in MailDays : HoldsDate(r, day)' => Cardinality(OnDate(day)) + 1 <= DateCap
      BY <1>1, <3>2 DEF RoomOf
    <3>4. LocksFound(r) /\ ~HoldsGiftCap(r)'
      BY <2>1, <3>1, <3>2 DEF LocksFound, HoldsAccountCap, HoldsGlobalCap, HoldsGiftCap, SameRequest
    <3>5. Capacity(Accounts) + Own(d) <= GlobalCap
      <4>1. d \in Drafts /\ Accounts \in SUBSET Accounts
        BY <1>2, <2>2
      <4>2. /\ Capacity(Accounts) + Own(d) <= WithOwn(d, Accounts) /\ WithOwn(d, Accounts) \in Nat
            /\ Capacity(Accounts) \in Nat /\ Own(d) \in Nat
        BY <1>1, <4>1, TodayCovers
      <4>3. GlobalCap \in Nat /\ ~(WithOwn(d, Accounts) > GlobalCap)
        BY <1>0, <2>4
      <4> HIDE DEF d, a
      <4> QED BY <4>2, <4>3
    <3> QED BY <2>1, <2>2, <2>4, <3>3, <3>4, <3>5, StepKeepsLimits
  <2> QED BY <2>1, <2>3, <2>4
<1>9. CASE SendCountsGifts(r)
  <2>1. /\ call[r].kind = "send" /\ call[r].at = "global cap" /\ UNCHANGED Tables
        /\ d \in GiftDrafts => GiftCapFree
        /\ IF d \in GiftDrafts /\ GiftsToday + 1 > GiftCap THEN Ends(r) ELSE Reaches(r, "gift cap")
    BY <1>9 DEF SendCountsGifts
  <2>2. Capacity({a}) + Own(d) <= AccountCap /\ Capacity(Accounts) + Own(d) <= GlobalCap
    BY <1>1, <2>1 DEF RoomOf, HoldsGlobalCap
  <2>3. CASE Ends(r)
    BY <1>3, <2>1, <2>3
  <2>4. CASE ~(d \in GiftDrafts /\ GiftsToday + 1 > GiftCap) /\ Reaches(r, "gift cap")
    <3>1. call'[r].at = "gift cap" /\ SameRequest(r)
      BY <1>4, <2>4
    <3>2. \A day \in MailDays : HoldsDate(r, day)' => HoldsDate(r, day)
      BY <2>1, <3>1 DEF HoldsDate, SameRequest
    <3>3. \A day \in MailDays : HoldsDate(r, day)' => Cardinality(OnDate(day)) + 1 <= DateCap
      BY <1>1, <3>2 DEF RoomOf
    <3>4. HoldsGiftCap(r)' => GiftCapFree /\ GiftsToday + 1 <= GiftCap
      <4>1. GiftsToday \in Nat
        BY <1>1, CountsAreNumbers
      <4>2. HoldsGiftCap(r)' => d \in GiftDrafts
        BY <3>1 DEF HoldsGiftCap, SameRequest
      <4>3. GiftCap \in Nat /\ ~(d \in GiftDrafts /\ GiftsToday + 1 > GiftCap)
        BY <1>0, <2>4
      <4>4. HoldsGiftCap(r)' => GiftCapFree
        BY <2>1, <4>2
      <4> HIDE DEF d
      <4> QED BY <4>1, <4>2, <4>3, <4>4
    <3>5. LocksFound(r)
      BY <2>1, <3>1, <3>2, <3>4 DEF LocksFound, HoldsAccountCap, HoldsGlobalCap, SameRequest
    <3> QED BY <2>1, <2>2, <2>4, <3>3, <3>4, <3>5, StepKeepsLimits
  <2> QED BY <2>1, <2>3, <2>4
<1>10. CASE SendComparesMail(r)
  <2>1. call[r].kind = "send" /\ call[r].at = "gift cap" /\ UNCHANGED Tables
    BY <1>10 DEF SendComparesMail
  <2>2. Capacity({a}) + Own(d) <= AccountCap /\ Capacity(Accounts) + Own(d) <= GlobalCap
    BY <1>1, <2>1 DEF RoomOf, HoldsGlobalCap
  <2>3. CASE Ends(r)
    BY <1>3, <2>1, <2>3
  <2>4. CASE Reaches(r, "compared")
    <3>1. call'[r].at = "compared" /\ SameRequest(r)
      BY <1>4, <2>4
    <3>2. /\ \A day \in MailDays : HoldsDate(r, day)' => HoldsDate(r, day)
          /\ HoldsGiftCap(r)' => HoldsGiftCap(r)
      BY <2>1, <3>1 DEF HoldsDate, HoldsGiftCap, SameRequest
    <3>3. /\ \A day \in MailDays : HoldsDate(r, day)' => Cardinality(OnDate(day)) + 1 <= DateCap
          /\ HoldsGiftCap(r)' => GiftsToday + 1 <= GiftCap
      BY <1>1, <3>2 DEF RoomOf
    <3>4. LocksFound(r)
      BY <2>1, <3>1, <3>2 DEF LocksFound, HoldsAccountCap, HoldsGlobalCap, SameRequest
    <3> QED BY <2>1, <2>2, <2>4, <3>3, <3>4, StepKeepsLimits
  <2> QED BY <1>10, <2>3, <2>4 DEF SendComparesMail
<1> QED BY <1>5, <1>6, <1>7, <1>8, <1>9, <1>10

\* The steps that take a lock no count is made under.
LEMMA LocksKeepLimits ==
    ASSUME IInv, LimitInv, NEW r \in Requests,
           CheckoutInserts(r) \/ PaymentLocksAccount(r) \/ RefundLocksAccount(r)
    PROVE  LimitInv'
<1>1. /\ call[r].kind \in {"checkout", "fulfil", "refund"} /\ UNCHANGED Tables
      /\ Reaches(r, "inserted") \/ Reaches(r, "account")
  BY DEF CheckoutInserts, PaymentLocksAccount, RefundLocksAccount
<1>2. ASSUME NEW step \in {"inserted", "account"}, Reaches(r, step) PROVE LimitInv'
  <2>1. call'[r].at = step /\ SameRequest(r)
    BY <1>2, MovesOne DEF IInv
  <2>2. LocksFound(r) /\ ~HoldsGiftCap(r)' /\ \A day \in MailDays : ~HoldsDate(r, day)'
    BY <1>1, <2>1 DEF LocksFound, HoldsAccountCap, HoldsGlobalCap, HoldsGiftCap, HoldsDate, SameRequest
  <2> QED BY <1>1, <1>2, <2>2, StepKeepsLimits
<1> QED BY <1>1, <1>2

LEMMA BeginKeepsLimits ==
    ASSUME IInv, LimitInv, NEW r \in Requests, Begin(r)
    PROVE  LimitInv'
<1>0. call \in [Requests -> Call]
  BY DEF IInv, Types
<1>1. UNCHANGED Tables
  BY DEF Begin, SendLocksDraft, CheckoutLocksDraft, PaymentLocksDraft, RefundReadsMail
<1>2. OthersStay(r) /\ call'[r].at \in {"draft", "read"}
  BY <1>0 DEF Begin, SendLocksDraft, CheckoutLocksDraft, PaymentLocksDraft, RefundReadsMail,
              Begins, OthersStay
<1>3. LocksFound(r) /\ RoomOf(r)'
  BY <1>2 DEF LocksFound, RoomOf, HoldsAccountCap, HoldsGlobalCap, HoldsGiftCap, HoldsDate
<1>4. /\ call'[r].kind = "send" => order[call'[r].draft] # "open"
      /\ call'[r].kind = "fulfil" => order[call'[r].draft] \in {"open", "lapsed"}
  BY <1>0 DEF Begin, SendLocksDraft, CheckoutLocksDraft, PaymentLocksDraft, RefundReadsMail, Begins
<1>5. Fits(r)'
  BY <1>1, <1>2, <1>4 DEF Fits, Tables
<1> QED BY <1>1, <1>2, <1>3, <1>5, QuietKeepsLimits

-----------------------------------------------------------------------------
(* The steps that write *)

\* Whoever else is at work on a draft is at work on another one.
LEMMA OthersElsewhere ==
    ASSUME IInv, NEW r \in Requests, call[r].draft \in Drafts, call[r].kind # "none"
    PROVE  \A q \in Requests \ {r} : /\ call[q].kind # "none" => call[q].draft # call[r].draft
                                     /\ call[q].kind \in {"send", "checkout", "fulfil"} =>
                                          call[q].draft \in Drafts \ {call[r].draft}
<1>1. None \notin Drafts
  BY SendAssumption
<1> QED BY <1>1 DEF IInv, CallInv, DraftsHeldOnce, AboutDraft

LEMMA SendKeepsLimits ==
    ASSUME IInv, LimitInv, NEW r \in Requests, SendCommits(r)
    PROVE  LimitInv'
<1> DEFINE d == call[r].draft
<1>1. /\ call[r].kind = "send" /\ call[r].at = "compared" /\ Insert(d, Source(d))
      /\ UNCHANGED <<order, late>> /\ Ends(r)
  BY DEF SendCommits
<1>2. d \in Drafts /\ Source(d) \in Balances /\ ~Consumed(d) /\ order[d] # "open"
  BY <1>1, SourceIsBalance DEF IInv, CallInv, TableInv, AboutDraft, SendsAreOfUnmailed, LimitInv, Fits
<1>3. OneLetterMore(d, Source(d)) /\ Countable
  BY <1>1, <1>2, InsertsOne DEF LimitInv
<1>4. Grows(d) /\ HoldsGlobalCap(r)
  BY <1>1, <1>2, <1>3, SendGrows DEF HoldsGlobalCap
<1>5. /\ GiftsToday' = IF Source(d) = "gift" THEN GiftsToday + 1 ELSE GiftsToday
      /\ \A day : Cardinality(OnDate(day)')
           = IF Source(d) # "order" /\ MailOn[d] = day THEN Cardinality(OnDate(day)) + 1
                                                       ELSE Cardinality(OnDate(day))
  BY <1>1, <1>2, <1>3, OneMoreCounted
<1>6. Source(d) = "gift" => HoldsGiftCap(r)
  BY <1>1 DEF Source, HoldsGiftCap
<1>7. GiftsToday' = GiftsToday \/ (HoldsGiftCap(r) /\ GiftsToday' = GiftsToday + 1)
  BY <1>5, <1>6
<1>8. \A day \in MailDays :
         \/ Cardinality(OnDate(day)') = Cardinality(OnDate(day))
         \/ HoldsDate(r, day) /\ Cardinality(OnDate(day)') = Cardinality(OnDate(day)) + 1
  BY <1>1, <1>5 DEF HoldsDate
<1> QED BY <1>1, <1>4, <1>7, <1>8, CommitKeepsLimits

LEMMA CheckoutKeepsLimits ==
    ASSUME IInv, LimitInv, NEW r \in Requests, CheckoutCommits(r)
    PROVE  LimitInv'
<1> DEFINE d == call[r].draft
<1>1. /\ call[r].kind = "checkout" /\ call[r].at = "global cap"
      /\ UNCHANGED <<letters, late>> /\ order' = [order EXCEPT ![d] = "open"] /\ Ends(r)
  BY DEF CheckoutCommits
<1>2. d \in Drafts /\ Countable
  BY <1>1 DEF IInv, CallInv, AboutDraft, LimitInv
<1>3. Grows(d) /\ HoldsGlobalCap(r)
  BY <1>1, <1>2, CheckoutGrows DEF HoldsGlobalCap
<1>4. GiftsToday' = GiftsToday /\ \A day : OnDate(day)' = OnDate(day)
  BY <1>1 DEF GiftsToday, OnDate
<1> QED BY <1>1, <1>3, <1>4, CommitKeepsLimits

\* A checkout found its date full: the order it had, of which nobody paid, is counted no more.
LEMMA CompareKeepsLimits ==
    ASSUME IInv, IInv', LimitInv, NEW r \in Requests, CheckoutCompares(r)
    PROVE  LimitInv'
<1> DEFINE d == call[r].draft
<1>0. order \in [Drafts -> {"none", "open", "lapsed", "paid", "refunded"}]
  BY DEF IInv, Types
<1>1. /\ call[r].kind = "checkout" /\ d \in Drafts /\ UNCHANGED <<letters, late, funds, refunded>>
      /\ order' = IF DateFull(d) THEN [order EXCEPT ![d] = "none"] ELSE order
      /\ Ends(r) \/ Reaches(r, "checked")
  BY DEF CheckoutCompares, IInv, CallInv, AboutDraft
<1>2. /\ \A e \in Drafts \ {d} : order'[e] = order[e]
      /\ order'[d] # "open" \/ order'[d] = order[d]
  BY <1>0, <1>1
<1>3. NoGrowth({})
  BY <1>1, <1>2, LettersStay, OrderShrinks DEF LimitInv, IInv, TableInv
<1>4. \A q \in Requests \ {r} : call[q].kind \in {"send", "fulfil"} =>
        order'[call[q].draft] = order[call[q].draft]
  BY <1>1, <1>2, OthersElsewhere
<1>5. OthersStay(r) /\ LocksFound(r) /\ Fits(r)' /\ RoomOf(r)'
  <2>1. CASE Ends(r)
    BY <2>1, EndsHoldsNothing
  <2>2. CASE Reaches(r, "checked")
    <3>1. call'[r].at = "checked" /\ SameRequest(r) /\ OthersStay(r)
      BY <2>2, MovesOne DEF IInv
    <3> QED BY <1>1, <3>1 DEF SameRequest, LocksFound, Fits, RoomOf, HoldsAccountCap,
              HoldsGlobalCap, HoldsGiftCap, HoldsDate
  <2> QED BY <1>1, <2>1, <2>2
<1> QED BY <1>3, <1>4, <1>5, RequestKeepsLimits

LEMMA PaymentKeepsLimits ==
    ASSUME IInv, IInv', LimitInv, NEW r \in Requests, PaymentCommits(r)
    PROVE  LimitInv'
<1> DEFINE d == call[r].draft
<1>0. order \in [Drafts -> {"none", "open", "lapsed", "paid", "refunded"}] /\ Countable
  BY DEF IInv, Types, LimitInv
<1>1. /\ call[r].kind = "fulfil" /\ d \in Drafts /\ order[d] \in {"open", "lapsed"} /\ Ends(r)
  BY DEF PaymentCommits, IInv, CallInv, AboutDraft, LimitInv, Fits
<1>2. OthersStay(r) /\ LocksFound(r) /\ Fits(r)' /\ RoomOf(r)'
  BY <1>1, EndsHoldsNothing
<1>3. CASE Consumed(d)
  <2>1. order' = [order EXCEPT ![d] = "refunded"] /\ UNCHANGED <<letters, late>>
    BY <1>3 DEF PaymentCommits
  <2>2. order'[d] # "open" /\ \A e \in Drafts \ {d} : order'[e] = order[e]
    <3>1. order' = [order EXCEPT ![d] = "refunded"] /\ d \in Drafts
      BY <1>1, <2>1
    <3> HIDE DEF d
    <3> QED BY <1>0, <3>1
  <2>3. NoGrowth({})
    BY <1>0, <1>1, <2>1, <2>2, LettersStay, OrderShrinks DEF IInv, TableInv
  <2>4. \A q \in Requests \ {r} : call[q].kind \in {"send", "fulfil"} =>
          order'[call[q].draft] = order[call[q].draft]
    BY <1>1, <2>2, OthersElsewhere
  <2> QED BY <1>2, <2>3, <2>4, RequestKeepsLimits
<1>4. CASE ~Consumed(d)
  <2>1. /\ Insert(d, "order") /\ order' = [order EXCEPT ![d] = "paid"]
        /\ late' = IF order[d] = "lapsed" THEN late \cup {d} ELSE late
    BY <1>4 DEF PaymentCommits
  <2>2. OneLetterMore(d, "order")
    BY <1>1, <1>4, <2>1, InsertsOne
  <2>3. NoGrowth({d})
    BY <1>0, <1>1, <2>1, <2>2, PaymentNoGrowth
  <2>4. \A e \in Drafts \ {d} : order'[e] = order[e]
    <3>1. order' = [order EXCEPT ![d] = "paid"]
      BY <2>1
    <3> HIDE DEF d
    <3> QED BY <1>0, <3>1
  <2>5. \A q \in Requests \ {r} : call[q].kind \in {"send", "fulfil"} =>
          order'[call[q].draft] = order[call[q].draft]
    BY <1>1, <2>4, OthersElsewhere
  <2>6. \A q \in Requests \ {r} : call[q].kind # "none" => call[q].draft \notin {d}
    BY <1>1, OthersElsewhere
  <2> QED BY <1>2, <2>3, <2>5, <2>6, RequestKeepsLimits
<1> QED BY <1>3, <1>4

LEMMA RefundKeepsLimits ==
    ASSUME IInv, IInv', LimitInv, NEW r \in Requests, RefundCommits(r)
    PROVE  LimitInv'
<1>1. order' = order /\ late' = late /\ Ends(r) /\ SameMail
  BY RefundKeepsMail DEF RefundCommits
<1>2. NoGrowth({})
  BY <1>1, MailRedrawn DEF LimitInv, IInv, TableInv
<1> QED BY <1>1, <1>2, EndsHoldsNothing, RequestKeepsLimits

\* A checkout's window passes or its session is closed; a letter goes to the printer.
LEMMA WorldKeepsLimits ==
    ASSUME IInv, IInv', LimitInv,
           \/ \E d \in Drafts : OrderLapses(d) \/ OrderCloses(d)
           \/ \E l \in letters : OutboxTakes(l)
    PROVE  LimitInv'
<1>0. order \in [Drafts -> {"none", "open", "lapsed", "paid", "refunded"}] /\ Countable
      /\ OncePerDraft'
  BY DEF IInv, Types, LimitInv, TableInv
<1>1. \A q \in Requests : call[q].kind \in {"send", "fulfil"} => call[q].draft \in Drafts
  BY DEF IInv, CallInv, AboutDraft
<1>2. ASSUME NEW d \in Drafts, OrderLapses(d) PROVE LimitInv'
  <2>1. /\ order[d] = "open" /\ order'[d] = "lapsed" /\ \A e \in Drafts \ {d} : order'[e] = order[e]
        /\ UNCHANGED <<letters, late, call>>
    BY <1>0, <1>2 DEF OrderLapses
  <2>2. NoGrowth({})
    BY <1>0, <2>1, LettersStay, OrderShrinks
  <2> QED BY <1>1, <2>1, <2>2, OthersKeepLimits DEF LimitInv, Fits
<1>3. ASSUME NEW d \in Drafts, OrderCloses(d) PROVE LimitInv'
  <2>1. /\ DraftFree(d) /\ order'[d] = "none" /\ \A e \in Drafts \ {d} : order'[e] = order[e]
        /\ UNCHANGED <<letters, late, call>>
    BY <1>0, <1>3 DEF OrderCloses
  <2>2. NoGrowth({})
    BY <1>0, <2>1, LettersStay, OrderShrinks
  <2>3. \A q \in Requests : call[q].kind \in {"send", "fulfil"} => call[q].draft # d
    BY <2>1 DEF DraftFree, HoldsDraft, IInv, CallInv, NoneIdle
  <2> QED BY <1>1, <2>1, <2>2, <2>3, OthersKeepLimits DEF LimitInv, Fits
<1>4. ASSUME NEW l \in letters, OutboxTakes(l) PROVE LimitInv'
  <2>1. UNCHANGED <<order, late, call>> /\ SameMail
    BY <1>4, OutboxKeepsMail DEF OutboxTakes
  <2>2. NoGrowth({})
    BY <1>0, <2>1, MailRedrawn
  <2> QED BY <2>1, <2>2, OthersKeepLimits DEF LimitInv, Fits
<1> QED BY <1>2, <1>3, <1>4

LEMMA LimitStep ==
    ASSUME IInv, IInv', LimitInv, [Next]_vars
    PROVE  LimitInv'
<1>1. ASSUME NEW r \in Requests, Continue(r) PROVE LimitInv'
  BY <1>1, CountsKeepLimits, LocksKeepLimits, SendKeepsLimits, CheckoutKeepsLimits,
     CompareKeepsLimits, PaymentKeepsLimits, RefundKeepsLimits DEF Continue
<1>2. ASSUME NEW r \in Requests, RollsBack(r) PROVE LimitInv'
  BY <1>2, StopKeepsLimits DEF RollsBack
<1>3. CASE UNCHANGED vars
  <2>1. UNCHANGED <<letters, order, late, call>>
    BY <1>3 DEF vars
  <2>2. NoGrowth({})
    BY <2>1, NothingGrows DEF LimitInv
  <2> QED BY <2>1, <2>2, OthersKeepLimits DEF LimitInv, Fits
<1> QED BY <1>1, <1>2, <1>3, BeginKeepsLimits, WorldKeepsLimits DEF Next

LEMMA LimitInit == Init => LimitInv
<1> SUFFICES ASSUME Init PROVE LimitInv
  OBVIOUS
<1>1. /\ letters = {} /\ order = [d \in Drafts |-> "none"]
      /\ \A r \in Requests : call[r].at = "idle" /\ call[r].kind = "none"
  BY DEF Init, Idle
<1>2. \A A : SentOf(A) = {} /\ OpenOf(A) = {}
  BY <1>1 DEF SentOf, OpenOf
<1>3. Gifts = {} /\ \A day : OnDate(day) = {}
  BY <1>1 DEF Gifts, OnDate
<1>4. Countable
  BY <1>1, <1>2, FS_EmptySet DEF Countable
<1>5. ASSUME NEW A PROVE Capacity(A) = 0
  <2>1. Capacity(A) = Cardinality(SentOf(A)) + Cardinality(OpenOf(A))
    BY DEF Capacity, SentOf, OpenOf
  <2>2. Cardinality(SentOf(A)) = 0 /\ Cardinality(OpenOf(A)) = 0
    BY <1>2, FS_EmptySet
  <2> QED BY <2>1, <2>2
<1>6. GiftsToday = 0 /\ \A day : Cardinality(OnDate(day)) = 0
  BY <1>3, FS_EmptySet DEF GiftsToday, Gifts
<1>7. Limits
  <2>1. \A a \in Accounts : Capacity({a}) <= AccountCap
    BY <1>5, SendAssumption
  <2>2. Capacity(Accounts) <= GlobalCap /\ GiftsToday <= GiftCap
        /\ \A day \in MailDays : Cardinality(OnDate(day)) <= DateCap
    BY <1>5, <1>6, SendAssumption
  <2> QED BY <2>1, <2>2 DEF Limits
<1>8. LocksOnce /\ \A r \in Requests : Fits(r) /\ RoomOf(r)
  BY <1>1 DEF LocksOnce, Fits, RoomOf, HoldsAccountCap, HoldsGlobalCap, HoldsGiftCap, HoldsDate
<1> QED BY <1>4, <1>7, <1>8 DEF LimitInv

\* betaSpendLimits and mailDateCapacity: no interleaving of counts and inserts passes a limit,
\* of an account, of all accounts, of gifts or of a mail date.
THEOREM LimitsAlwaysHold == Spec => []LimitsHold
<1>1. IInv /\ LimitInv /\ [Next]_vars => IInv' /\ LimitInv'
  BY IInvNext, LimitStep
<1>2. LimitInv => LimitsHold
  BY DEF LimitInv, Limits, LimitsHold, CapsHold, DateCapHolds, MailDays, OnDate
<1> QED BY IInvInit, LimitInit, <1>1, <1>2, PTL DEF Spec

-----------------------------------------------------------------------------
(* The same mail twice.  A send compares its mail when the account is      *)
(* already its own, and every letter of the account is inserted by whoever *)
(* holds the account: what was compared is still all there is at commit.   *)

SameAs(d) == {m \in letters : m.draft # d /\ Owner[m.draft] = Owner[d] /\ Mail[m.draft] = Mail[d]}
NoCopy(r) ==
    call[r].kind = "send" /\ call[r].at = "compared" /\ ~call[r].again => SameAs(call[r].draft) = {}
\* a connection at rest is about nothing
Vacant(r) == call[r].kind = "none" => call[r].draft = None
TwinInv == \A r \in Requests : NoCopy(r) /\ Vacant(r)

NoTwinMailed ==
    \A l \in Mailed :
       (l.by # "order" /\ \E r \in Requests : call[r].draft = l.draft /\ ~call[r].again)
         => ~\E m \in letters : /\ m.draft # l.draft /\ Owner[m.draft] = Owner[l.draft]
                                /\ Mail[m.draft] = Mail[l.draft]

\* The letters are those there were, but for those of account a.
NewOnlyOf(a) ==
    \A m \in letters' : (\E l \in letters : l.draft = m.draft) \/ Owner[m.draft] = a

\* Whoever else has compared its mail is another account's.
LEMMA OthersKeepNoCopy ==
    ASSUME IInv, NEW r \in Requests, NEW q \in Requests, q # r, NoCopy(q), call'[q] = call[q],
           NEW a \in Accounts, HoldsAccount(r, a), NewOnlyOf(a)
    PROVE  NoCopy(q)'
<1> DEFINE d == call[q].draft
<1> SUFFICES ASSUME call[q].kind = "send", call[q].at = "compared", ~call[q].again
             PROVE  SameAs(d)' = {}
  BY DEF NoCopy
<1>1. d \in Drafts /\ call[q].account = Owner[d] /\ Owner[d] \in Accounts
  BY DEF IInv, CallInv, AboutDraft
<1>2. HoldsAccount(q, Owner[d])
  BY <1>1 DEF HoldsAccount
<1>3. Owner[d] # a
  BY <1>1, <1>2 DEF IInv, CallInv, AccountsHeldOnce
<1>4. SameAs(d) = {}
  BY DEF NoCopy
<1>5. d' = d
  OBVIOUS
<1> HIDE DEF d
<1> QED BY <1>3, <1>4, <1>5 DEF SameAs, NewOnlyOf

\* No letter is new: what was not there is not there.
LEMMA NoneNewNoCopy ==
    ASSUME NEW q \in Requests, NoCopy(q), call'[q] = call[q],
           \A m \in letters' : \E l \in letters : l.draft = m.draft
    PROVE  NoCopy(q)'
<1> DEFINE d == call[q].draft
<1>1. SameAs(d) = {} => SameAs(d)' = {}
  <2>1. d' = d
    OBVIOUS
  <2> HIDE DEF d
  <2> QED BY <2>1 DEF SameAs
<1> QED BY <1>1 DEF NoCopy

\* A request that writes no letter has compared its mail in this step, or not at all.
LEMMA ComparesNow ==
    ASSUME IInv, NEW r \in Requests, Vacant(r), Begin(r) \/ Continue(r) \/ RollsBack(r)
    PROVE  /\ \A q \in Requests \ {r} : call'[q] = call[q]
           /\ call'[r].at = "compared" => SendComparesMail(r)
           /\ Vacant(r)'
<1>0. call \in [Requests -> Call] /\ Types /\ CallInv
  BY DEF IInv, Types
<1>1. CASE Ends(r)
  <2>1. call'[r] = Idle
    BY <1>0, <1>1 DEF Ends
  <2> QED BY <1>0, <1>1, <2>1, EndsCall DEF Vacant, Idle
<1>2. CASE RefundReadsMail(r)
  BY <1>0, <1>2 DEF RefundReadsMail, Vacant
<1>3. CASE \E kind \in Kinds \ {"none"} : \E d, again : Begins(r, kind, d, again, "draft")
  BY <1>0, <1>3 DEF Begins, Vacant
<1>4. ASSUME NEW step \in Steps, Reaches(r, step)
      PROVE  /\ call'[r].at = step /\ \A q \in Requests \ {r} : call'[q] = call[q]
             /\ Vacant(r)'
  BY <1>0, <1>4, MovesOne DEF OthersStay, SameRequest, Vacant
<1>5. CASE SendComparesMail(r)
  BY <1>1, <1>4, <1>5 DEF SendComparesMail
<1>6. CASE \/ SendCountsDate(r) \/ SendTakesFunds(r) \/ SendCountsGifts(r)
           \/ CountsAccount(r) \/ CountsGlobal(r) \/ CheckoutCompares(r) \/ CheckoutInserts(r)
           \/ PaymentLocksAccount(r) \/ RefundLocksAccount(r)
  <2>1. Ends(r) \/ \E step \in Steps \ {"compared"} : Reaches(r, step)
    BY <1>6 DEF SendCountsDate, SendTakesFunds, SendCountsGifts, CountsAccount, CountsGlobal,
           CheckoutCompares, CheckoutInserts, PaymentLocksAccount, RefundLocksAccount
  <2> QED BY <1>1, <1>4, <2>1
<1>7. CASE SendCommits(r) \/ CheckoutCommits(r) \/ PaymentCommits(r) \/ RefundCommits(r)
           \/ RollsBack(r)
  BY <1>1, <1>7 DEF SendCommits, CheckoutCommits, PaymentCommits, RefundCommits, RollsBack
<1>8. CASE SendLocksDraft(r) \/ CheckoutLocksDraft(r) \/ PaymentLocksDraft(r)
  BY <1>3, <1>8 DEF SendLocksDraft, CheckoutLocksDraft, PaymentLocksDraft
<1> QED BY <1>2, <1>5, <1>6, <1>7, <1>8 DEF Begin, Continue

\* The comparison looks at every letter of the account.
LEMMA ComparisonHolds ==
    ASSUME IInv, NEW r \in Requests, SendComparesMail(r), call'[r].at = "compared"
    PROVE  NoCopy(r)'
<1> DEFINE d == call[r].draft
<1>0. Types /\ CallInv
  BY DEF IInv
<1>1. Reaches(r, "compared") /\ (call[r].again \/ Twin(d) = {}) /\ letters' = letters
      /\ call[r].kind = "send"
  <2>1. ~Ends(r)
    BY <1>0, EndsCall
  <2> QED BY <2>1 DEF SendComparesMail, Tables
<1>2. call'[r].again = call[r].again /\ call'[r].draft = d
  BY <1>0, <1>1, MovesOne DEF SameRequest
<1>3. \A m \in letters : m.draft \in Drafts
  BY DEF IInv, Types, Letter
<1>4. ~call[r].again => SameAs(d) = {}
  <2> HIDE DEF d
  <2> QED BY <1>1, <1>3 DEF Twin, Consumed, SameAs
<1>5. call'[r].again = call[r].again /\ SameAs(call'[r].draft) = SameAs(d)
  BY <1>2
<1>6. SameAs(call[r].draft)' = SameAs(call'[r].draft)
  BY <1>1 DEF SameAs
<1> QED BY <1>4, <1>5, <1>6 DEF NoCopy

LEMMA NoneMailed ==
    ASSUME \A l \in letters' : \E m \in letters : l.draft = m.draft /\ l.nth = m.nth
    PROVE  NoTwinMailed
BY DEF NoTwinMailed, Mailed

LEMMA SendMailsNoTwin ==
    ASSUME IInv, TwinInv, NEW r \in Requests, SendCommits(r)
    PROVE  NoTwinMailed /\ \A q \in Requests \ {r} : NoCopy(q)'
<1> DEFINE d == call[r].draft
<1>1. /\ call[r].kind = "send" /\ call[r].at = "compared" /\ Insert(d, Source(d)) /\ NoCopy(r)
      /\ Ends(r)
  BY DEF SendCommits, TwinInv
<1>2. /\ d \in Drafts /\ Source(d) \in Balances /\ ~Consumed(d)
      /\ call[r].account = Owner[d] /\ Owner[d] \in Accounts
  BY <1>1, SourceIsBalance DEF IInv, CallInv, TableInv, AboutDraft, SendsAreOfUnmailed
<1>3. \A l \in letters' \ letters : l.draft = d
  BY <1>1, <1>2, Inserts DEF IInv, TableInv
<1>4. \A q \in Requests : call[q].draft = d => q = r
  <2>1. \A q \in Requests : call[q].draft = d /\ call[q].kind # "none" => q = r
    BY <1>1, <1>2, SendAssumption DEF IInv, CallInv, DraftsHeldOnce
  <2>2. \A q \in Requests : call[q].kind = "none" => call[q].draft = None
    BY DEF TwinInv, Vacant
  <2> QED BY <1>2, <2>1, <2>2, SendAssumption
<1>5. HoldsAccount(r, Owner[d]) /\ NewOnlyOf(Owner[d])
  BY <1>1, <1>2, <1>3 DEF HoldsAccount, NewOnlyOf
<1>6. \A q \in Requests \ {r} : call'[q] = call[q]
  BY <1>1, EndsCall DEF IInv
<1>7. \A q \in Requests \ {r} : NoCopy(q)'
  BY <1>2, <1>5, <1>6, OthersKeepNoCopy DEF TwinInv
<1>8. ~call[r].again => SameAs(d) = {}
  BY <1>1 DEF NoCopy
<1> HIDE DEF d
<1>9. NoTwinMailed
  BY <1>3, <1>4, <1>8 DEF NoTwinMailed, Mailed, SameAs
<1> QED BY <1>7, <1>9

LEMMA PaymentMailsNoTwin ==
    ASSUME IInv, TwinInv, NEW r \in Requests, PaymentCommits(r)
    PROVE  NoTwinMailed /\ \A q \in Requests \ {r} : NoCopy(q)'
<1> DEFINE d == call[r].draft
<1>1. call[r].kind = "fulfil" /\ call[r].at = "account" /\ Ends(r)
  BY DEF PaymentCommits
<1>2. d \in Drafts /\ call[r].account = Owner[d] /\ Owner[d] \in Accounts
  BY <1>1 DEF IInv, CallInv, AboutDraft
<1>3. \A l \in letters' \ letters : l.draft = d /\ l.by = "order"
  <2>1. CASE Consumed(d)
    BY <2>1 DEF PaymentCommits
  <2>2. CASE ~Consumed(d)
    <3>1. Insert(d, "order")
      BY <2>2 DEF PaymentCommits
    <3> QED BY <1>2, <2>2, <3>1, Inserts DEF IInv, TableInv
  <2> QED BY <2>1, <2>2
<1>4. HoldsAccount(r, Owner[d]) /\ NewOnlyOf(Owner[d])
  BY <1>1, <1>2, <1>3 DEF HoldsAccount, NewOnlyOf
<1>5. \A q \in Requests \ {r} : call'[q] = call[q]
  BY <1>1, EndsCall DEF IInv
<1>6. \A q \in Requests \ {r} : NoCopy(q)'
  BY <1>2, <1>4, <1>5, OthersKeepNoCopy DEF TwinInv
<1>7. NoTwinMailed
  BY <1>3 DEF NoTwinMailed, Mailed
<1> QED BY <1>6, <1>7

LEMMA TwinStep ==
    ASSUME IInv, TwinInv, [Next]_vars
    PROVE  TwinInv' /\ [NoTwinMailed]_vars
<1>1. ASSUME \A l \in letters' : \E m \in letters : l.draft = m.draft /\ l.nth = m.nth
      PROVE  /\ NoTwinMailed
             /\ \A q \in Requests : call'[q] = call[q] => NoCopy(q)'
  BY <1>1, NoneMailed, NoneNewNoCopy DEF TwinInv
<1>0. \A q \in Requests : call'[q] = call[q] => Vacant(q)'
  BY DEF TwinInv, Vacant
<1>2. ASSUME NEW r \in Requests, Begin(r) \/ Continue(r) \/ RollsBack(r)
      PROVE  TwinInv' /\ NoTwinMailed
  <2>1. /\ \A q \in Requests \ {r} : call'[q] = call[q]
        /\ call'[r].at = "compared" => SendComparesMail(r)
        /\ Vacant(r)'
    BY <1>2, ComparesNow DEF TwinInv
  <2>2. NoCopy(r)'
    BY <2>1, ComparisonHolds DEF NoCopy
  <2>3. CASE SendCommits(r)
    BY <1>0, <2>1, <2>2, <2>3, SendMailsNoTwin DEF TwinInv
  <2>4. CASE PaymentCommits(r)
    BY <1>0, <2>1, <2>2, <2>4, PaymentMailsNoTwin DEF TwinInv
  <2>5. CASE RefundCommits(r)
    BY <1>0, <1>1, <2>1, <2>2, <2>5, RefundHolds DEF TwinInv
  <2>6. CASE letters' = letters
    BY <1>0, <1>1, <2>1, <2>2, <2>6 DEF TwinInv
  <2>7. SendCommits(r) \/ PaymentCommits(r) \/ RefundCommits(r) \/ letters' = letters
    BY <1>2 DEF Begin, Continue, RollsBack, SendLocksDraft, CheckoutLocksDraft, PaymentLocksDraft,
         RefundReadsMail, SendCountsDate, SendTakesFunds, SendCountsGifts, SendComparesMail,
         CountsAccount, CountsGlobal, CheckoutInserts, CheckoutCompares, CheckoutCommits,
         PaymentLocksAccount, RefundLocksAccount, Tables
  <2> QED BY <2>3, <2>4, <2>5, <2>6, <2>7
<1>3. ASSUME NEW d \in Drafts, OrderLapses(d) \/ OrderCloses(d) PROVE TwinInv' /\ NoTwinMailed
  BY <1>0, <1>1, <1>3 DEF OrderLapses, OrderCloses, TwinInv
<1>4. ASSUME NEW l \in letters, OutboxTakes(l) PROVE TwinInv' /\ NoTwinMailed
  <2>1. call' = call
    BY <1>4 DEF OutboxTakes
  <2> QED BY <1>0, <1>1, <1>4, <2>1, OutboxTakesKeeps DEF TwinInv
<1>5. CASE UNCHANGED vars
  BY <1>0, <1>1, <1>5 DEF vars, TwinInv
<1> QED BY <1>2, <1>3, <1>4, <1>5 DEF Next

\* findRecentDuplicateMail under the account's lock: mail that did not ask for another copy is
\* never sent beside the same mail of its account, even asked for at the same moment.
THEOREM SendsNoTwins == Spec => NoTwins
<1>1. Init => TwinInv
  BY DEF Init, Idle, TwinInv, NoCopy, Vacant
<1>2. IInv /\ TwinInv /\ [Next]_vars => IInv' /\ TwinInv' /\ [NoTwinMailed]_vars
  BY IInvNext, TwinStep
<1> QED BY IInvInit, <1>1, <1>2, PTL DEF Spec, NoTwins, NoTwinMailed

-----------------------------------------------------------------------------
(* No deadlock.  Whoever waits has behind it only locks that come before   *)
(* the one it waits for: a date's, then an account's, then the caps'.  So  *)
(* the holder of the last lock anyone waits for waits for none itself.     *)

OnWay == \A r \in Requests : Running(r) => OnItsWay(call[r])

\* A request that reaches a step of its kind is on its way.
LEMMA MoveOnWay ==
    ASSUME IInv, OnWay, NEW r \in Requests, NEW step \in Steps, Reaches(r, step),
           \A c : c.kind = call[r].kind /\ c.at = step => OnItsWay(c)
    PROVE  OnWay'
<1>1. OthersStay(r) /\ call'[r].kind = call[r].kind /\ call'[r].at = step
  BY MovesOne DEF IInv, SameRequest
<1>2. OnItsWay(call'[r])
  BY <1>1
<1>3. \A q \in Requests \ {r} : call'[q] = call[q]
  BY <1>1 DEF OthersStay
<1> QED BY <1>2, <1>3 DEF OnWay

LEMMA EndOnWay ==
    ASSUME IInv, OnWay, NEW r \in Requests, Ends(r)
    PROVE  OnWay'
  BY EndsCall DEF IInv, OnWay

LEMMA BeginOnWay ==
    ASSUME IInv, OnWay, NEW r \in Requests, Begin(r)
    PROVE  OnWay'
<1>1. call \in [Requests -> Call]
  BY DEF IInv, Types
<1>2. PICK c : call' = [call EXCEPT ![r] = c] /\ OnItsWay(c)
  <2>1. CASE SendLocksDraft(r) \/ CheckoutLocksDraft(r) \/ PaymentLocksDraft(r)
    <3>1. PICK kind \in {"send", "checkout", "fulfil"}, d \in Drafts, again \in BOOLEAN :
            Begins(r, kind, d, again, "draft")
      BY <2>1 DEF SendLocksDraft, CheckoutLocksDraft, PaymentLocksDraft
    <3> DEFINE c == [kind |-> kind, at |-> "draft", draft |-> d, again |-> again,
                     account |-> Owner[d], seen |-> {}]
    <3>2. c.kind \in {"send", "checkout", "fulfil"} /\ c.at = "draft"
      OBVIOUS
    <3>3. OnItsWay(c)
      BY <3>2 DEF OnItsWay
    <3> QED BY <3>1, <3>3 DEF Begins
  <2>2. CASE RefundReadsMail(r)
    <3>1. PICK a \in Accounts :
            call' = [call EXCEPT ![r] = [kind |-> "refund", at |-> "read", draft |-> None,
                       again |-> FALSE, account |-> a, seen |-> Funded(a)]]
      BY <2>2 DEF RefundReadsMail
    <3> DEFINE c == [kind |-> "refund", at |-> "read", draft |-> None,
                     again |-> FALSE, account |-> a, seen |-> Funded(a)]
    <3>2. c.kind = "refund" /\ c.at = "read"
      OBVIOUS
    <3>3. OnItsWay(c)
      BY <3>2 DEF OnItsWay
    <3> QED BY <3>1, <3>3
  <2> QED BY <2>1, <2>2 DEF Begin
<1>3. call'[r] = c /\ \A q \in Requests \ {r} : call'[q] = call[q]
  BY <1>1, <1>2
<1> QED BY <1>2, <1>3 DEF OnWay

\* A step of a request reaches the next place on its way, or ends it.
Forward(r) ==
    Ends(r) \/ \E step \in Steps : /\ Reaches(r, step)
                                   /\ \A c : c.kind = call[r].kind /\ c.at = step => OnItsWay(c)

LEMMA SendForward ==
    ASSUME NEW r \in Requests,
           \/ SendCountsDate(r) \/ SendTakesFunds(r) \/ SendCountsGifts(r)
           \/ SendComparesMail(r) \/ SendCommits(r)
    PROVE  Forward(r)
<1>1. call[r].kind = "send"
  BY DEF SendCountsDate, SendTakesFunds, SendCountsGifts, SendComparesMail, SendCommits
<1>2. Ends(r) \/ \E step \in {"date", "account", "gift cap", "compared"} : Reaches(r, step)
  BY DEF SendCountsDate, SendTakesFunds, SendCountsGifts, SendComparesMail, SendCommits
<1>3. ASSUME NEW step \in {"date", "account", "gift cap", "compared"}
      PROVE  step \in Steps /\ \A c : c.kind = call[r].kind /\ c.at = step => OnItsWay(c)
  BY <1>1 DEF OnItsWay
<1> QED BY <1>2, <1>3 DEF Forward

LEMMA CapForward ==
    ASSUME OnWay, NEW r \in Requests, CountsAccount(r) \/ CountsGlobal(r)
    PROVE  Forward(r)
<1>1. Running(r)
  BY DEF CountsAccount, CountsGlobal
<1>2. call[r].kind \in {"send", "checkout"}
  <2>1. OnItsWay(call[r])
    BY <1>1 DEF OnWay
  <2> QED BY <2>1 DEF CountsAccount, CountsGlobal, OnItsWay
<1>3. Ends(r) \/ \E step \in {"account cap", "global cap"} : Reaches(r, step)
  BY DEF CountsAccount, CountsGlobal
<1>4. ASSUME NEW step \in {"account cap", "global cap"}
      PROVE  step \in Steps /\ \A c : c.kind = call[r].kind /\ c.at = step => OnItsWay(c)
  BY <1>2 DEF OnItsWay
<1> QED BY <1>3, <1>4 DEF Forward

LEMMA CheckoutForward ==
    ASSUME NEW r \in Requests, CheckoutCompares(r) \/ CheckoutInserts(r) \/ CheckoutCommits(r)
    PROVE  Forward(r)
<1>1. call[r].kind = "checkout"
  BY DEF CheckoutCompares, CheckoutInserts, CheckoutCommits
<1>2. Ends(r) \/ \E step \in {"checked", "inserted"} : Reaches(r, step)
  BY DEF CheckoutCompares, CheckoutInserts, CheckoutCommits
<1>3. ASSUME NEW step \in {"checked", "inserted"}
      PROVE  step \in Steps /\ \A c : c.kind = call[r].kind /\ c.at = step => OnItsWay(c)
  BY <1>1 DEF OnItsWay
<1> QED BY <1>2, <1>3 DEF Forward

LEMMA MoneyForward ==
    ASSUME NEW r \in Requests,
           \/ PaymentLocksAccount(r) \/ PaymentCommits(r)
           \/ RefundLocksAccount(r) \/ RefundCommits(r)
    PROVE  Forward(r)
<1>1. call[r].kind \in {"fulfil", "refund"}
  BY DEF PaymentLocksAccount, PaymentCommits, RefundLocksAccount, RefundCommits
<1>2. Ends(r) \/ Reaches(r, "account")
  BY DEF PaymentLocksAccount, PaymentCommits, RefundLocksAccount, RefundCommits
<1>3. \A c : c.kind = call[r].kind /\ c.at = "account" => OnItsWay(c)
  BY <1>1 DEF OnItsWay
<1> QED BY <1>2, <1>3 DEF Forward

LEMMA ContinueOnWay ==
    ASSUME IInv, OnWay, NEW r \in Requests, Continue(r)
    PROVE  OnWay'
<1>1. Forward(r)
  BY SendForward, CapForward, CheckoutForward, MoneyForward DEF Continue
<1> QED BY <1>1, MoveOnWay, EndOnWay DEF Forward

LEMMA OnWayNext ==
    ASSUME IInv, OnWay, [Next]_vars
    PROVE  OnWay'
<1>1. CASE \E r \in Requests : Begin(r) \/ Continue(r) \/ RollsBack(r)
  BY <1>1, BeginOnWay, ContinueOnWay, EndOnWay DEF RollsBack
<1>2. CASE UNCHANGED call
  BY <1>2 DEF OnWay
<1>3. CASE \E d \in Drafts : OrderLapses(d) \/ OrderCloses(d)
  BY <1>2, <1>3 DEF OrderLapses, OrderCloses
<1>4. CASE \E l \in letters : OutboxTakes(l)
  BY <1>2, <1>4 DEF OutboxTakes
<1> QED BY <1>1, <1>2, <1>3, <1>4 DEF Next, vars

\* A request under way that waits for no lock.
Free(r) == Running(r) /\ OnItsWay(call[r]) /\ ~Waits(r)
SomeFree == \E r \in Requests : Free(r)

LEMMA FreeUnlessWaiting ==
    ASSUME OnWay, NEW r \in Requests, Running(r), ~Waits(r)
    PROVE  SomeFree
  BY DEF OnWay, SomeFree, Free

LEMMA GiftCapHolderFree ==
    ASSUME IInv, OnWay, NEW r \in Requests, HoldsGiftCap(r)
    PROVE  SomeFree
<1>1. Running(r) /\ call[r].at \in {"gift cap", "compared"}
  BY DEF HoldsGiftCap
<1>2. ~Waits(r)
  BY <1>1 DEF Waits
<1> QED BY <1>1, <1>2, FreeUnlessWaiting

LEMMA GlobalCapHolderFree ==
    ASSUME IInv, OnWay, NEW r \in Requests, HoldsGlobalCap(r)
    PROVE  SomeFree
<1>1. Running(r) /\ call[r].at \in {"global cap", "gift cap", "compared"}
  BY DEF HoldsGlobalCap
<1>2. CASE ~GiftCapFree
  BY <1>2, GiftCapHolderFree DEF GiftCapFree
<1>3. CASE GiftCapFree
  <2>1. ~Waits(r)
    BY <1>1, <1>3 DEF Waits
  <2> QED BY <1>1, <2>1, FreeUnlessWaiting
<1> QED BY <1>2, <1>3

LEMMA AccountCapHolderFree ==
    ASSUME IInv, OnWay, NEW r \in Requests, Running(r), call[r].at \in Capped
    PROVE  SomeFree
<1>1. CASE HoldsGlobalCap(r)
  BY <1>1, GlobalCapHolderFree
<1>2. CASE ~GlobalCapFree
  BY <1>2, GlobalCapHolderFree DEF GlobalCapFree
<1>3. CASE ~HoldsGlobalCap(r) /\ GlobalCapFree
  <2>1. call[r].at = "account cap"
    BY <1>3 DEF HoldsGlobalCap
  <2>2. ~Waits(r)
    BY <1>3, <2>1 DEF Waits
  <2> QED BY <2>2, FreeUnlessWaiting
<1> QED BY <1>1, <1>2, <1>3

LEMMA AccountHolderFree ==
    ASSUME IInv, OnWay, NEW r \in Requests, call[r].at \in {"inserted", "account"} \cup Capped
    PROVE  SomeFree
<1>1. Running(r)
  OBVIOUS
<1>2. CASE call[r].at \in Capped
  BY <1>1, <1>2, AccountCapHolderFree
<1>3. CASE ~AccountCapFree(call[r].account)
  <2>1. PICK q \in Requests : call[q].at \in Capped
    BY <1>3 DEF AccountCapFree, HoldsAccountCap
  <2> QED BY <2>1, AccountCapHolderFree
<1>4. CASE call[r].at \notin Capped /\ AccountCapFree(call[r].account)
  <2>1. call[r].at \in {"inserted", "account"}
    BY <1>4
  <2>2. ~Waits(r)
    BY <1>4, <2>1 DEF Waits
  <2> QED BY <1>1, <2>2, FreeUnlessWaiting
<1> QED BY <1>2, <1>3, <1>4

LEMMA AccountTakenFree ==
    ASSUME IInv, OnWay, NEW a, ~AccountFree(a)
    PROVE  SomeFree
<1>1. PICK q \in Requests : call[q].at \in {"inserted", "account"} \cup Capped
  BY DEF AccountFree, HoldsAccount, SharesAccount
<1> QED BY <1>1, AccountHolderFree

LEMMA DateHolderFree ==
    ASSUME IInv, OnWay, NEW r \in Requests, call[r].kind = "send", call[r].at = "date"
    PROVE  SomeFree
<1>1. CASE ~AccountFree(call[r].account)
  BY <1>1, AccountTakenFree
<1>2. CASE AccountFree(call[r].account)
  <2>1. ~Waits(r)
    BY <1>2 DEF Waits
  <2> QED BY <2>1, FreeUnlessWaiting
<1> QED BY <1>1, <1>2

LEMMA DateTakenFree ==
    ASSUME IInv, OnWay, NEW day, ~DateFree(day)
    PROVE  SomeFree
<1>1. PICK q \in Requests : call[q].kind = "send" /\ call[q].at \in {"date", "account"} \cup Capped
  BY DEF DateFree, HoldsDate
<1> QED BY <1>1, DateHolderFree, AccountHolderFree

LEMMA AnyRunningFree ==
    ASSUME IInv, OnWay, NEW r \in Requests, Running(r)
    PROVE  SomeFree
<1>1. CASE call[r].at \in {"inserted", "account"} \cup Capped
  BY <1>1, AccountHolderFree
<1>2. CASE ~AccountFree(call[r].account)
  BY <1>2, AccountTakenFree
<1>3. CASE ~DateFree(MailOn[call[r].draft])
  BY <1>3, DateTakenFree
<1>4. CASE /\ call[r].at \notin {"inserted", "account"} \cup Capped
           /\ AccountFree(call[r].account) /\ DateFree(MailOn[call[r].draft])
  <2>1. AccountShareable(call[r].account)
    BY <1>4 DEF AccountFree, AccountShareable
  <2>2. ~Waits(r)
    BY <1>4, <2>1 DEF Waits
  <2> QED BY <2>2, FreeUnlessWaiting
<1> QED BY <1>1, <1>2, <1>3, <1>4

\* mailSendService, prepareJitOrder, transitionPaidCheckout and processRefundEvent: however many
\* requests, accounts and mail dates there are, of those under way one waits for no lock.
THEOREM SendsNeverDeadlock == Spec => []SomeoneIsFree
<1>1. Init => OnWay
  BY DEF Init, Idle, OnWay
<1>2. IInv /\ OnWay /\ [Next]_vars => IInv' /\ OnWay'
  BY IInvNext, OnWayNext
<1>3. IInv /\ OnWay => SomeoneIsFree
  BY AnyRunningFree DEF SomeFree, Free, SomeoneIsFree
<1> QED BY IInvInit, <1>1, <1>2, <1>3, PTL DEF Spec

=============================================================================
