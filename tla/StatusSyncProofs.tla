---------------------------- MODULE StatusSyncProofs ----------------------------
(***************************************************************************)
(* That the alert of a letter the provider cancelled agrees with its money *)
(* for any letters, any number of concurrent syncs, late cancels or none,  *)
(* and funding refunded or disputed at any time.  The argument: a record   *)
(* never leaves "accepted" before the piece did, and no sync ever writes   *)
(* "accepted"; so a letter that got a critical alert, which was paid by    *)
(* Pay & Send or past "accepted", cannot later be failed as one not yet    *)
(* printing.  And funding once lost stays lost, so a warning that came     *)
(* with nothing is never held against a letter that could be paid back.    *)
(***************************************************************************)
EXTENDS StatusSync, TLAPS

USE DEF NotYetPrinting

\* A letter's record, and what any run read of it, are never ahead of the piece.
NeverAhead ==
    \A l \in Letters :
        /\ letter[l] # "accepted" => mail[l] # "accepted"
        /\ \A s \in Syncs : sync[s].seen[l] # "accepted" => mail[l] # "accepted"

\* What a run holds while it is at a letter: an answer the piece has reached, and, once
\* it is to be written, one that is not "accepted".
TurnInv ==
    \A s \in Syncs :
        LET t == sync[s] IN
        /\ t.pc = "number" =>
              /\ t.l \in Letters
              /\ t.answer \in Answers \cup {"unrecognised"}
              /\ t.answer = "accepted" => t.seen[t.l] = "accepted"
              /\ t.answer \notin {"accepted", "unrecognised"} => mail[t.l] # "accepted"
        /\ t.pc \in {"status", "history"} =>
              /\ t.l \in Letters
              /\ t.answer \in Answers \ {"accepted"}
              /\ mail[t.l] # "accepted"

\* A critical alert names a letter no later cancel can return.
CriticalStays ==
    \A l \in Letters : alert[l] = "critical" => l \in PayAndSend \/ letter[l] # "accepted"

\* A letter some move was written for has left "accepted".
MovedInv ==
    /\ \A l \in Letters : history[l] # {} => letter[l] # "accepted"
    /\ \A s \in Syncs : sync[s].pc = "history" => letter[sync[s].l] # "accepted"

RecordInv == NeverAhead /\ TurnInv /\ MovedInv
MoneyInv == CriticalStays /\ ReturnIsAnnounced
SyncInv == TypeOK /\ RecordInv /\ MoneyInv

-----------------------------------------------------------------------------
\* The steps that only move a run to its next letter, or to its end, keep its type.
LEMMA TurnOverTyped ==
    ASSUME TypeOK, NEW s \in Syncs, TurnOver(s)
    PROVE  sync' \in [Syncs -> SyncState]
<1>1. IdleSync \in SyncState
  BY SyncAssumption DEF IdleSync, SyncState, SyncPc, Answers
<1>2. [sync[s] EXCEPT !.pc = "next", !.l = NoLetter, !.answer = NoAnswer, !.named = FALSE] \in SyncState
  BY DEF TypeOK, SyncState, SyncPc
<1> QED
  BY <1>1, <1>2 DEF TurnOver, TypeOK

\* Every step keeps the types of the rows and of the runs.
LEMMA TypeStep == TypeOK /\ TurnInv /\ [Next]_vars => TypeOK'
<1> SUFFICES ASSUME TypeOK, TurnInv, [Next]_vars PROVE TypeOK'
  OBVIOUS
<1>i. IdleSync \in SyncState
  BY SyncAssumption DEF IdleSync, SyncState, SyncPc, Answers
<1>1. CASE \E l \in Letters : MailMoves(l) \/ NumberGiven(l) \/ Ages(l) \/ FundingLost(l)
  <2> PICK l \in Letters : MailMoves(l) \/ NumberGiven(l) \/ Ages(l) \/ FundingLost(l)
    BY <1>1
  <2>1. CASE MailMoves(l)
    <3>1. \A x \in Answers : MailFollows(x) \subseteq Answers
      BY DEF MailFollows, Answers
    <3> QED
      BY <2>1, <3>1 DEF MailMoves, TypeOK, record
  <2>2. CASE NumberGiven(l)
    BY <2>2 DEF NumberGiven, TypeOK, record
  <2>3. CASE Ages(l)
    BY <2>3 DEF Ages, TypeOK, record
  <2>4. CASE FundingLost(l)
    BY <2>4 DEF FundingLost, TypeOK, record
  <2> QED
    BY <2>1, <2>2, <2>3, <2>4
<1>2. ASSUME NEW s \in Syncs, List(s) PROVE TypeOK'
  <2>1. [IdleSync EXCEPT !.pc = "next", !.todo = Followed, !.seen = letter,
                         !.bare = Letters \ carrier] \in SyncState
    BY <1>i DEF SyncState, SyncPc, Followed, TypeOK
  <2> QED
    BY <1>2, <2>1 DEF List, TypeOK, record
<1>3. ASSUME NEW s \in Syncs, NEW l \in Letters, NEW a \in Answers \cup {"unrecognised"}, Ask(s, l, a)
      PROVE  TypeOK'
  <2>1. (l \in number) \in BOOLEAN
    OBVIOUS
  <2>2. sync[s] \in SyncState
    BY DEF TypeOK
  <2>3. [sync[s] EXCEPT !.pc = "number", !.todo = @ \ {l}, !.l = l,
                        !.answer = a, !.named = l \in number] \in SyncState
    BY <2>1, <2>2 DEF SyncState, SyncPc
  <2> QED
    BY <1>3, <2>3 DEF Ask, TypeOK, record
<1>4. ASSUME NEW s \in Syncs, NEW l \in Letters, AskFails(s, l) PROVE TypeOK'
  <2>1. [sync[s] EXCEPT !.todo = @ \ {l}] \in SyncState
    BY DEF TypeOK, SyncState
  <2> QED
    BY <1>4, <1>i, <2>1 DEF AskFails, TypeOK, record
<1>5. ASSUME NEW s \in Syncs, StoreNumber(s) PROVE TypeOK'
  <2>1. carrier' \subseteq Certified
    BY <1>5 DEF StoreNumber, TypeOK
  <2>2. [sync[s] EXCEPT !.pc = "status", !.named = FALSE, !.bare = @ \ {sync[s].l}] \in SyncState
    BY DEF TypeOK, SyncState, SyncPc
  <2>3. sync' \in [Syncs -> SyncState]
    BY <1>5, <2>2, TurnOverTyped DEF StoreNumber, TypeOK
  <2> QED
    BY <1>5, <2>1, <2>3 DEF StoreNumber, TypeOK
<1>6. ASSUME NEW s \in Syncs, WriteStatus(s) PROVE TypeOK'
  <2>1. sync[s].l \in Letters /\ sync[s].answer \in Answers
    BY <1>6 DEF TurnInv, WriteStatus
  <2>2. [sync[s] EXCEPT !.pc = "history"] \in SyncState
    BY DEF TypeOK, SyncState, SyncPc
  <2> QED
    BY <1>6, <2>1, <2>2 DEF WriteStatus, TypeOK
<1>7. ASSUME NEW s \in Syncs, WriteHistory(s) PROVE TypeOK'
  <2>1. sync[s].l \in Letters /\ sync[s].answer \in Answers
    BY <1>7 DEF TurnInv, WriteHistory
  <2>2. history' \in [Letters -> SUBSET Answers]
    BY <1>7, <2>1 DEF WriteHistory, TypeOK
  <2> QED
    BY <1>7, <2>2, TurnOverTyped DEF WriteHistory, TypeOK
<1>8. ASSUME NEW s \in Syncs, FailProviderCancelled(s) PROVE TypeOK'
  <2>1. sync[s].l \in Letters
    BY <1>8 DEF TurnInv, FailProviderCancelled
  <2>2. CASE letter[sync[s].l] \in Ended
    BY <1>8, <2>2, TurnOverTyped DEF FailProviderCancelled, TypeOK
  <2>3. CASE letter[sync[s].l] \notin Ended
    <3>1. history' \in [Letters -> SUBSET Answers]
      BY <1>8, <2>1, <2>3 DEF FailProviderCancelled, TypeOK, Answers
    <3>2. alert' \in [Letters -> AlertSeverity]
      BY <1>8, <2>1, <2>3 DEF FailProviderCancelled, TypeOK, AlertSeverity
    <3>3. letter' \in [Letters -> Answers] /\ returned' \subseteq Letters
      BY <1>8, <2>1, <2>3 DEF FailProviderCancelled, PaidBack, TypeOK, Answers
    <3> QED
      BY <1>8, <3>1, <3>2, <3>3, TurnOverTyped DEF FailProviderCancelled, TypeOK
  <2> QED
    BY <2>2, <2>3
<1>9. ASSUME NEW s \in Syncs, WriteFails(s) PROVE TypeOK'
  BY <1>9, TurnOverTyped DEF WriteFails, TypeOK, record
<1>10. ASSUME NEW s \in Syncs, Dies(s) PROVE TypeOK'
  BY <1>10, <1>i DEF Dies, TypeOK, record
<1>11. CASE UNCHANGED vars
  BY <1>11 DEF vars, record, TypeOK
<1>12. \A l \in Letters : mail[l] \in Answers
  BY DEF TypeOK
<1> QED
  BY <1>1, <1>2, <1>3, <1>4, <1>5, <1>6, <1>7, <1>8, <1>9, <1>10, <1>11, <1>12 DEF Next

-----------------------------------------------------------------------------
\* A piece that left "accepted" never comes back to it.
LEMMA MailLeaves ==
    ASSUME TypeOK, NEW l \in Letters, MailMoves(l)
    PROVE  /\ mail' \in [Letters -> Answers]
           /\ \A k \in Letters : mail[k] # "accepted" => mail'[k] # "accepted"
<1>1. \A x \in Answers : MailFollows(x) \subseteq Answers \ {"accepted"}
  BY DEF MailFollows, Answers
<1> QED
  BY <1>1 DEF MailMoves, TypeOK

\* The end of a letter's turn leaves what the other runs hold, and keeps what the list read.
LEMMA TurnOverKeeps ==
    ASSUME TypeOK, NeverAhead, NEW s \in Syncs, TurnOver(s)
    PROVE  /\ \A t \in Syncs \ {s} : sync'[t] = sync[t]
           /\ sync'[s].pc \in {"idle", "next"}
           /\ \A l \in Letters : sync'[s].seen[l] # "accepted" => mail[l] # "accepted"
<1>1. CASE sync[s].todo = {}
  BY <1>1 DEF TurnOver, TypeOK, IdleSync
<1>2. CASE sync[s].todo # {}
  <2>1. sync'[s].seen = sync[s].seen /\ sync'[s].pc = "next"
    BY <1>2 DEF TurnOver, TypeOK, SyncState
  <2> QED
    BY <1>2, <2>1 DEF TurnOver, TypeOK, NeverAhead
<1> QED
  BY <1>1, <1>2

\* Every step keeps the record behind the piece.
LEMMA RecordStep == TypeOK /\ RecordInv /\ [Next]_vars => RecordInv'
<1> SUFFICES ASSUME TypeOK, NeverAhead, TurnInv, MovedInv, [Next]_vars PROVE RecordInv'
  BY DEF RecordInv
<1> USE DEF RecordInv
<1>1. CASE \E l \in Letters : MailMoves(l) \/ NumberGiven(l) \/ Ages(l) \/ FundingLost(l)
  <2>1. UNCHANGED <<record, sync>>
    BY <1>1 DEF MailMoves, NumberGiven, Ages, FundingLost
  <2>2. \A k \in Letters : mail[k] # "accepted" => mail'[k] # "accepted"
    BY <1>1, MailLeaves DEF NumberGiven, Ages, FundingLost
  <2>3. NeverAhead'
    BY <2>1, <2>2 DEF NeverAhead, record
  <2>4. TurnInv'
    BY <2>1, <2>2 DEF TurnInv, record
  <2>5. MovedInv'
    BY <2>1 DEF MovedInv, record
  <2> QED
    BY <2>3, <2>4, <2>5
<1>2. ASSUME NEW s \in Syncs, List(s) PROVE RecordInv'
  <2>1. /\ \A t \in Syncs \ {s} : sync'[t] = sync[t]
        /\ sync'[s].pc = "next" /\ sync'[s].seen = letter
    BY <1>2 DEF List, TypeOK, IdleSync
  <2>2. UNCHANGED <<letter, history, mail>>
    BY <1>2 DEF List, record
  <2>3. NeverAhead'
    BY <2>1, <2>2 DEF NeverAhead
  <2>4. TurnInv'
    BY <2>1, <2>2 DEF TurnInv
  <2>5. MovedInv'
    BY <2>1, <2>2 DEF MovedInv
  <2> QED
    BY <2>3, <2>4, <2>5
<1>3. ASSUME NEW s \in Syncs, NEW l \in Letters, NEW a \in {mail[l], "unrecognised"}, Ask(s, l, a)
      PROVE  RecordInv'
  <2>1. /\ \A t \in Syncs \ {s} : sync'[t] = sync[t]
        /\ sync'[s].pc = "number" /\ sync'[s].seen = sync[s].seen
        /\ sync'[s].l = l /\ sync'[s].answer = a
    BY <1>3 DEF Ask, TypeOK, SyncState
  <2>2. UNCHANGED <<letter, history, mail>>
    BY <1>3 DEF Ask, record
  <2>3. NeverAhead'
    BY <2>1, <2>2 DEF NeverAhead
  <2>4. TurnInv'
    <3>1. mail[l] \in Answers
      BY DEF TypeOK
    <3>2. a = "accepted" => sync[s].seen[l] = "accepted"
      BY DEF NeverAhead
    <3> QED
      BY <2>1, <2>2, <3>1, <3>2 DEF TurnInv
  <2>5. MovedInv'
    BY <2>1, <2>2 DEF MovedInv
  <2> QED
    BY <2>3, <2>4, <2>5
<1>4. ASSUME NEW s \in Syncs, NEW l \in Letters, AskFails(s, l) PROVE RecordInv'
  <2>1. /\ \A t \in Syncs \ {s} : sync'[t] = sync[t]
        /\ sync'[s].pc \in {"idle", "next"}
        /\ \A k \in Letters : sync'[s].seen[k] # "accepted" => mail[k] # "accepted"
    BY <1>4 DEF AskFails, TypeOK, SyncState, IdleSync, NeverAhead
  <2>2. UNCHANGED <<letter, history, mail>>
    BY <1>4 DEF AskFails, record
  <2> QED
    BY <2>1, <2>2 DEF NeverAhead, TurnInv, MovedInv
<1>5. ASSUME NEW s \in Syncs, StoreNumber(s) PROVE RecordInv'
  <2>1. UNCHANGED <<letter, history, mail>>
    BY <1>5 DEF StoreNumber
  <2>2. CASE TurnOver(s)
    BY <2>1, <2>2, TurnOverKeeps DEF NeverAhead, TurnInv, MovedInv
  <2>3. CASE ~TurnOver(s)
    <3>1. /\ sync' = [sync EXCEPT ![s] = [sync[s] EXCEPT !.pc = "status", !.named = FALSE,
                                                         !.bare = @ \ {sync[s].l}]]
          /\ sync[s].pc = "number"
          /\ sync[s].answer \notin {"unrecognised", sync[s].seen[sync[s].l]}
      BY <1>5, <2>3 DEF StoreNumber
    <3>2. /\ sync[s].l \in Letters
          /\ sync[s].answer \in Answers \ {"accepted"}
          /\ mail[sync[s].l] # "accepted"
      BY <3>1 DEF TurnInv
    <3>3. /\ \A t \in Syncs \ {s} : sync'[t] = sync[t]
          /\ sync'[s].pc = "status" /\ sync'[s].seen = sync[s].seen
          /\ sync'[s].l = sync[s].l /\ sync'[s].answer = sync[s].answer
      BY <3>1 DEF TypeOK, SyncState
    <3> QED
      BY <2>1, <3>2, <3>3 DEF NeverAhead, TurnInv, MovedInv
  <2> QED
    BY <2>2, <2>3
<1>6. ASSUME NEW s \in Syncs, WriteStatus(s) PROVE RecordInv'
  <2>1. /\ sync[s].l \in Letters
        /\ sync[s].answer \in Answers \ {"accepted"}
        /\ mail[sync[s].l] # "accepted"
    BY <1>6 DEF WriteStatus, TurnInv
  <2>2. /\ \A t \in Syncs \ {s} : sync'[t] = sync[t]
        /\ sync'[s].pc = "history" /\ sync'[s].seen = sync[s].seen
        /\ sync'[s].l = sync[s].l /\ sync'[s].answer = sync[s].answer
    BY <1>6 DEF WriteStatus, TypeOK, SyncState
  <2>3. /\ UNCHANGED <<history, mail>>
        /\ \A k \in Letters : letter'[k] = IF k = sync[s].l THEN sync[s].answer ELSE letter[k]
    BY <1>6, <2>1 DEF WriteStatus, TypeOK
  <2>4. NeverAhead'
    BY <2>1, <2>2, <2>3 DEF NeverAhead
  <2>5. TurnInv'
    BY <2>1, <2>2, <2>3 DEF TurnInv
  <2>6. MovedInv'
    <3>1. \A t \in Syncs : sync[t].pc = "history" => sync[t].l \in Letters
      BY DEF TurnInv
    <3> QED
      BY <2>1, <2>2, <2>3, <3>1 DEF MovedInv
  <2> QED
    BY <2>4, <2>5, <2>6
<1>7. ASSUME NEW s \in Syncs, WriteHistory(s) PROVE RecordInv'
  <2>1. /\ sync[s].l \in Letters /\ letter[sync[s].l] # "accepted"
        /\ UNCHANGED <<letter, mail>>
        /\ \A k \in Letters \ {sync[s].l} : history'[k] = history[k]
    BY <1>7 DEF WriteHistory, TurnInv, MovedInv, TypeOK
  <2>2. TurnOver(s)
    BY <1>7 DEF WriteHistory
  <2> QED
    BY <2>1, <2>2, TurnOverKeeps DEF NeverAhead, TurnInv, MovedInv
<1>8. ASSUME NEW s \in Syncs, FailProviderCancelled(s) PROVE RecordInv'
  <2>1. sync[s].l \in Letters /\ mail[sync[s].l] # "accepted" /\ mail' = mail
    BY <1>8 DEF FailProviderCancelled, TurnInv
  <2>2. TurnOver(s)
    BY <1>8 DEF FailProviderCancelled
  <2>3. /\ \A k \in Letters \ {sync[s].l} : letter'[k] = letter[k] /\ history'[k] = history[k]
        /\ \/ letter'[sync[s].l] = "failed"
           \/ UNCHANGED <<letter, history>>
    BY <1>8, <2>1 DEF FailProviderCancelled, TypeOK
  <2>4. \A k \in Letters : letter[k] # "accepted" => letter'[k] # "accepted"
    BY <2>1, <2>3
  <2>5. NeverAhead'
    BY <2>1, <2>2, <2>3, TurnOverKeeps DEF NeverAhead
  <2>6. TurnInv'
    BY <2>1, <2>2, TurnOverKeeps DEF TurnInv
  <2>7. MovedInv'
    <3>1. \A t \in Syncs : sync[t].pc = "history" => sync[t].l \in Letters
      BY DEF TurnInv
    <3>2. \A k \in Letters : history'[k] # {} => letter'[k] # "accepted"
      BY <2>1, <2>3, <2>4 DEF MovedInv
    <3> QED
      BY <2>2, <2>4, <3>1, <3>2, TurnOverKeeps DEF MovedInv
  <2> QED
    BY <2>5, <2>6, <2>7
<1>9. ASSUME NEW s \in Syncs, WriteFails(s) PROVE RecordInv'
  <2>1. TurnOver(s) /\ UNCHANGED <<letter, history, mail>>
    BY <1>9 DEF WriteFails, record
  <2> QED
    BY <2>1, TurnOverKeeps DEF NeverAhead, TurnInv, MovedInv
<1>10. ASSUME NEW s \in Syncs, Dies(s) PROVE RecordInv'
  <2>1. /\ \A t \in Syncs \ {s} : sync'[t] = sync[t]
        /\ sync'[s].pc = "idle" /\ \A k \in Letters : sync'[s].seen[k] = "accepted"
    BY <1>10 DEF Dies, TypeOK, IdleSync
  <2>2. UNCHANGED <<letter, history, mail>>
    BY <1>10 DEF Dies, record
  <2> QED
    BY <2>1, <2>2 DEF NeverAhead, TurnInv, MovedInv
<1>11. CASE UNCHANGED vars
  BY <1>11 DEF vars, record, NeverAhead, TurnInv, MovedInv
<1> QED
  BY <1>1, <1>2, <1>3, <1>4, <1>5, <1>6, <1>7, <1>8, <1>9, <1>10, <1>11 DEF Next

-----------------------------------------------------------------------------
\* What a cancel's transaction does to the letter's money.
LEMMA CancelReturns ==
    ASSUME SyncInv, NEW s \in Syncs, FailProviderCancelled(s)
    PROVE  /\ \A k \in Letters \ {sync[s].l} :
                 /\ k \in returned' <=> k \in returned
                 /\ alert'[k] = alert[k] /\ letter'[k] = letter[k]
           /\ unreturnable' = unreturnable
           /\ \/ UNCHANGED <<letter, returned, alert>>
              \/ /\ letter'[sync[s].l] = "failed"
                 /\ sync[s].l \in PayAndSend \/ letter[sync[s].l] # "accepted"
                 /\ returned' = returned
                 /\ alert'[sync[s].l] = IF alert[sync[s].l] = "none" THEN "critical" ELSE alert[sync[s].l]
              \/ /\ letter'[sync[s].l] = "failed"
                 /\ sync[s].l \notin PayAndSend /\ letter[sync[s].l] = "accepted"
                 /\ returned' = returned \cup PaidBack(sync[s].l)
                 /\ alert'[sync[s].l] = IF alert[sync[s].l] = "none" THEN "warning" ELSE alert[sync[s].l]
<1>1. sync[s].l \in Letters
  BY DEF FailProviderCancelled, SyncInv, RecordInv, TurnInv
<1>2. letter[sync[s].l] \in Answers /\ letter[sync[s].l] # "sent"
  BY <1>1 DEF SyncInv, TypeOK, Answers
<1>3. CASE letter[sync[s].l] \in Ended
  BY <1>3 DEF FailProviderCancelled
<1>4. CASE letter[sync[s].l] \notin Ended
  BY <1>1, <1>2, <1>4 DEF FailProviderCancelled, ForAPerson, PaidBack, SyncInv, TypeOK
<1> QED
  BY <1>3, <1>4

\* Every step keeps the alerts in agreement with the money.
LEMMA MoneyStep == SyncInv /\ [Next]_vars => MoneyInv'
<1> SUFFICES ASSUME SyncInv, [Next]_vars PROVE MoneyInv'
  OBVIOUS
<1> USE DEF MoneyInv
<1>0. unreturnable \subseteq unreturnable'
  BY DEF Next, vars, MailMoves, NumberGiven, Ages, FundingLost, List, StoreNumber, WriteStatus,
         WriteHistory, FailProviderCancelled, WriteFails, Dies, Ask, AskFails
<1>1. CASE UNCHANGED <<letter, returned, alert>>
  BY <1>0, <1>1 DEF SyncInv, CriticalStays, ReturnIsAnnounced
<1>2. ASSUME NEW s \in Syncs, WriteStatus(s) PROVE MoneyInv'
  <2>1. sync[s].l \in Letters /\ sync[s].answer # "accepted"
    BY <1>2 DEF WriteStatus, SyncInv, RecordInv, TurnInv
  <2>2. \A k \in Letters : letter[k] # "accepted" => letter'[k] # "accepted"
    BY <1>2, <2>1 DEF WriteStatus, SyncInv, TypeOK
  <2>3. UNCHANGED <<returned, alert>>
    BY <1>2 DEF WriteStatus
  <2> QED
    BY <1>0, <2>2, <2>3 DEF SyncInv, CriticalStays, ReturnIsAnnounced
<1>3. ASSUME NEW s \in Syncs, FailProviderCancelled(s) PROVE MoneyInv'
  <2>1. sync[s].l \in Letters
    BY <1>3 DEF FailProviderCancelled, SyncInv, RecordInv, TurnInv
  <2>2. alert[sync[s].l] \in AlertSeverity
    BY <2>1 DEF SyncInv, TypeOK
  <2>3. ReturnIsAnnounced'
    BY <1>3, <2>1, <2>2, CancelReturns DEF SyncInv, ReturnIsAnnounced, CriticalStays, PaidBack, TypeOK, AlertSeverity
  <2>4. CriticalStays'
    BY <1>3, <2>1, <2>2, CancelReturns DEF SyncInv, CriticalStays, AlertSeverity
  <2> QED
    BY <2>3, <2>4
<1>4. ASSUME NEW l \in Letters, MailMoves(l) \/ NumberGiven(l) \/ Ages(l) \/ FundingLost(l)
      PROVE  UNCHANGED <<letter, returned, alert>>
  BY <1>4 DEF MailMoves, NumberGiven, Ages, FundingLost, record
<1>5. ASSUME NEW s \in Syncs,
             List(s) \/ StoreNumber(s) \/ WriteHistory(s) \/ WriteFails(s) \/ Dies(s)
      PROVE  UNCHANGED <<letter, returned, alert>>
  BY <1>5 DEF List, StoreNumber, WriteHistory, WriteFails, Dies, record
<1>6. ASSUME NEW s \in Syncs, NEW l \in Letters,
             Ask(s, l, mail[l]) \/ Ask(s, l, "unrecognised") \/ AskFails(s, l)
      PROVE  UNCHANGED <<letter, returned, alert>>
  BY <1>6 DEF Ask, AskFails, record
<1>7. UNCHANGED vars => UNCHANGED <<letter, returned, alert>>
  BY DEF vars, record
<1> QED
  BY <1>1, <1>2, <1>3, <1>4, <1>5, <1>6, <1>7 DEF Next

\* The invariant holds at the start.
LEMMA SyncInvInit == Init => SyncInv
<1> SUFFICES ASSUME Init PROVE SyncInv
  OBVIOUS
<1>1. TypeOK
  BY SyncAssumption DEF Init, TypeOK, SyncState, SyncPc, IdleSync, Answers, AlertSeverity
<1>2. RecordInv
  BY DEF Init, RecordInv, NeverAhead, TurnInv, MovedInv, IdleSync
<1>3. MoneyInv
  BY DEF Init, MoneyInv, CriticalStays, ReturnIsAnnounced
<1> QED
  BY <1>1, <1>2, <1>3 DEF SyncInv

\* Every reachable state satisfies it.
LEMMA SyncInvHolds == Spec => []SyncInv
<1>1. SyncInv /\ [Next]_vars => SyncInv'
  BY TypeStep, RecordStep, MoneyStep DEF SyncInv, RecordInv
<1> QED
  BY SyncInvInit, <1>1, PTL DEF Spec

-----------------------------------------------------------------------------
\* The rows and the runs of the status sync keep their types.
THEOREM SyncTypeCorrect == Spec => []TypeOK
<1>1. SyncInv => TypeOK
  BY DEF SyncInv
<1> QED
  BY SyncInvHolds, <1>1, PTL

\* The alert failProviderCancelledLetter raises agrees with the letter's money, whatever
\* late writes of other runs took the letter out of its end and back: what came back has a
\* warning, and a warning without a return names funding returnPrepaidCreditsForFailedLetter
\* found revoked, reversed or redeemed.
THEOREM AlertAgreesWithMoney == Spec => []ReturnIsAnnounced
<1>1. SyncInv => ReturnIsAnnounced
  BY DEF SyncInv, MoneyInv
<1> QED
  BY SyncInvHolds, <1>1, PTL

\* No payment comes back by itself once a sync has recorded the piece as printing or mailed.
THEOREM PrintedIsLeftToAPerson == Spec => PrintedIsForAPerson
<1> DEFINE Unprinted(l) == history[l] \cap {"processing", "in_transit"} = {}
           NoReturn == \A l \in returned' \ returned : Unprinted(l)
<1>1. SyncInv /\ [Next]_vars => [NoReturn]_vars
  <2> SUFFICES ASSUME SyncInv, Next, NEW l \in returned' \ returned PROVE Unprinted(l)
    OBVIOUS
  <2>1. \E s \in Syncs : FailProviderCancelled(s)
    BY DEF Next, MailMoves, NumberGiven, Ages, FundingLost, List, StoreNumber, WriteStatus, WriteHistory,
           WriteFails, Dies, Ask, AskFails, record
  <2>2. PICK s \in Syncs : FailProviderCancelled(s)
    BY <2>1
  <2>3. l \in Letters /\ letter[l] = "accepted"
    BY <2>2, CancelReturns DEF SyncInv, RecordInv, TurnInv, FailProviderCancelled, PaidBack
  <2>4. history[l] = {}
    BY <2>3 DEF SyncInv, RecordInv, MovedInv
  <2> QED
    BY <2>4
<1> QED
  BY SyncInvHolds, <1>1, PTL DEF Spec, PrintedIsForAPerson

=============================================================================
