------------------------------- MODULE StatusSync -------------------------------
(***************************************************************************)
(* What happens to a letter's record after the provider took it: the       *)
(* status sync reads a list of letters, asks the provider about each one,  *)
(* and writes what it answered.  The list, each answer and each write are  *)
(* separate statements: only a provider's cancel is recorded in one        *)
(* transaction under the outbox's locks.                                   *)
(*                                                                         *)
(* Two syncs may run at once: the maintenance run claims its task row for  *)
(* an hour, and the admin console's sync claims nothing.                   *)
(***************************************************************************)
EXTENDS FiniteSets

CONSTANTS
    Letters,      \* letters the provider accepted, each with its tracking_id
    PayAndSend,   \* those a Pay & Send order paid for
    Certified,    \* those sent by a certified mail service
    Syncs,        \* concurrent runs of syncLetterStatuses
    Scheduled,    \* those the maintenance starts, the others being an operator's
    CancelsLate,  \* whether the provider may cancel a piece it began to print
    NoLetter      \* the letter of a sync that is between two letters

ASSUME SyncAssumption ==
    /\ PayAndSend \subseteq Letters
    /\ Certified \subseteq Letters
    /\ Scheduled \subseteq Syncs
    /\ CancelsLate \in BOOLEAN
    /\ NoLetter \notin Letters

VARIABLES
    letter,    \* letters.status
    carrier,   \* letters whose carrier_tracking_number is stored
    returned,  \* letters whose payment the return has given back
    unreturnable,  \* letters of which nothing is left to give back
    alert,     \* the provider_cancelled_mail alert of each letter (one per letter, ever)
    history,   \* letter_status_history: the statuses written for each letter
    aged,      \* letters past the sync's window of days
    mail,      \* the provider's truth: where each piece is
    number,    \* pieces the provider answers a carrier number for
    sync       \* what each run is doing, and what it has read

record == <<letter, carrier, returned, alert, history>>
vars == <<record, unreturnable, aged, mail, number, sync>>

-----------------------------------------------------------------------------
(* The rows. *)

Ended == {"delivered", "returned", "failed", "cancelled"}
NotYetPrinting == {"accepted", "sent"}
\* What mapStatus gives, but for 'unrecognised'.
Answers == {"accepted", "processing", "in_transit", "delivered", "returned", "failed"}
AlertSeverity == {"none", "warning", "critical"}

NoAnswer == "none"

\* pc: what comes next for letter l.  todo: the rest of the list.  seen: the status the
\* list gave each letter; bare: those it gave without a carrier number.  answer, named:
\* what the provider said of l.
SyncPc == {"idle", "next", "number", "status", "history"}
SyncState == [pc : SyncPc, todo : SUBSET Letters, seen : [Letters -> Answers],
              bare : SUBSET Letters, l : Letters \cup {NoLetter},
              answer : Answers \cup {"unrecognised", NoAnswer}, named : BOOLEAN]

IdleSync == [pc |-> "idle", todo |-> {}, seen |-> [l \in Letters |-> "accepted"],
             bare |-> {}, l |-> NoLetter, answer |-> NoAnswer, named |-> FALSE]

Init ==
    /\ letter = [l \in Letters |-> "accepted"]
    /\ carrier = {}
    /\ returned = {}
    /\ unreturnable = {}
    /\ alert = [l \in Letters |-> "none"]
    /\ history = [l \in Letters |-> {}]
    /\ aged = {}
    /\ mail = [l \in Letters |-> "accepted"]
    /\ number = {}
    /\ sync = [s \in Syncs |-> IdleSync]

-----------------------------------------------------------------------------
(* The provider, and the calendar. *)

\* ready, printing, processed_for_delivery, completed or returned; cancelled while ready.
MailFollows(from) ==
    CASE from = "accepted"   -> {"processing", "failed"}
      [] from = "processing" -> {"in_transit"} \cup (IF CancelsLate THEN {"failed"} ELSE {})
      [] from = "in_transit" -> {"delivered", "returned"}
      [] from = "delivered"  -> {"returned"}
      [] OTHER               -> {}

MailMoves(l) ==
    /\ \E to \in MailFollows(mail[l]) : mail' = [mail EXCEPT ![l] = to]
    /\ UNCHANGED <<record, unreturnable, aged, number, sync>>

NumberGiven(l) ==
    /\ l \notin number
    /\ mail[l] # "failed"
    /\ number' = number \cup {l}
    /\ UNCHANGED <<record, unreturnable, aged, mail, sync>>

\* The pack's lots are revoked or the gift's purchase is reversed by a refund or a dispute,
\* a letter already sent included; or the code the gift printed is redeemed.  For good.
FundingLost(l) ==
    /\ l \notin PayAndSend
    /\ unreturnable' = unreturnable \cup {l}
    /\ UNCHANGED <<record, aged, mail, number, sync>>

Ages(l) ==
    /\ aged' = aged \cup {l}
    /\ UNCHANGED <<record, unreturnable, mail, number, sync>>

-----------------------------------------------------------------------------
(* syncLetterStatuses. *)

FollowedOpenOnlyMutant == {l \in Letters \ aged : letter[l] \notin Ended}

\* The SELECT: letters not ended, and delivered certified mail still without its number.
Followed ==
    {l \in Letters \ aged :
        \/ letter[l] \notin Ended
        \/ letter[l] = "delivered" /\ l \in Certified \ carrier}

List(s) ==
    /\ sync[s].pc = "idle"
    /\ Followed # {}
    /\ sync' = [sync EXCEPT ![s] =
                  [IdleSync EXCEPT !.pc = "next", !.todo = Followed, !.seen = letter,
                                   !.bare = Letters \ carrier]]
    /\ UNCHANGED <<record, unreturnable, aged, mail, number>>

\* The end of one letter's turn: the next one of the list, or the end of the run.
TurnOver(s) ==
    sync' = [sync EXCEPT ![s] =
               IF sync[s].todo = {} THEN IdleSync
               ELSE [sync[s] EXCEPT !.pc = "next", !.l = NoLetter, !.answer = NoAnswer, !.named = FALSE]]

\* provider.getStatus answers, for a letter of the list, the piece's status or one this
\* code does not know.
Ask(s, l, answer) ==
    /\ sync[s].pc = "next"
    /\ l \in sync[s].todo
    /\ sync' = [sync EXCEPT ![s] =
                  [sync[s] EXCEPT !.pc = "number", !.todo = @ \ {l}, !.l = l,
                                  !.answer = answer, !.named = l \in number]]
    /\ UNCHANGED <<record, unreturnable, aged, mail, number>>

\* getStatus throws.
AskFails(s, l) ==
    /\ sync[s].pc = "next"
    /\ l \in sync[s].todo
    /\ sync' = [sync EXCEPT ![s] =
                  IF sync[s].todo = {l} THEN IdleSync ELSE [sync[s] EXCEPT !.todo = @ \ {l}]]
    /\ UNCHANGED <<record, unreturnable, aged, mail, number>>

\* The carrier number's own UPDATE, in a block of its own: it may fail alone.
StoreNumber(s) ==
    LET l == sync[s].l IN
    /\ sync[s].pc = "number"
    /\ IF sync[s].named /\ l \in sync[s].bare \cap Certified
       THEN carrier' \in {carrier, carrier \cup {l}}
       ELSE carrier' = carrier
    /\ IF sync[s].seen[l] # "delivered" /\ sync[s].answer \notin {"unrecognised", sync[s].seen[l]}
       THEN sync' = [sync EXCEPT ![s] = [sync[s] EXCEPT !.pc = "status", !.named = FALSE, !.bare = @ \ {l}]]
       ELSE TurnOver(s)
    /\ UNCHANGED <<letter, returned, alert, history, unreturnable, aged, mail, number>>

\* The unguarded UPDATE of letters.status.
WriteStatus(s) ==
    LET l == sync[s].l IN
    /\ sync[s].pc = "status"
    /\ sync[s].answer # "failed"
    /\ letter' = [letter EXCEPT ![l] = sync[s].answer]
    /\ sync' = [sync EXCEPT ![s].pc = "history"]
    /\ UNCHANGED <<carrier, returned, alert, history, unreturnable, aged, mail, number>>

\* The history row's INSERT.
WriteHistory(s) ==
    LET l == sync[s].l IN
    /\ sync[s].pc = "history"
    /\ history' = [history EXCEPT ![l] = @ \cup {sync[s].answer}]
    /\ TurnOver(s)
    /\ UNCHANGED <<letter, carrier, returned, alert, unreturnable, aged, mail, number>>

\* What paid comes back by itself only for prepaid or gift mail whose record says it was
\* not yet printing.
ForAPerson(l, before) == l \in PayAndSend \/ before \notin NotYetPrinting

\* returnPrepaidCreditsForFailedLetter: revoked lots and a reversed gift are passed over.
PaidBack(l) == {l} \ unreturnable

FailProviderCancelledUncheckedMutant(s) ==
    LET l == sync[s].l IN
    /\ sync[s].pc = "status"
    /\ sync[s].answer = "failed"
    /\ letter' = [letter EXCEPT ![l] = "failed"]
    /\ history' = [history EXCEPT ![l] = @ \cup {"failed"}]
    /\ returned' = IF ForAPerson(l, letter[l]) THEN returned ELSE returned \cup PaidBack(l)
    /\ alert' = [alert EXCEPT ![l] = IF ForAPerson(l, letter[l]) THEN "critical" ELSE "warning"]
    /\ TurnOver(s)
    /\ UNCHANGED <<carrier, unreturnable, aged, mail, number>>

FailProviderCancelledUnlockedMutant(s) ==
    LET l == sync[s].l
        before == sync[s].seen[l] IN
    /\ sync[s].pc = "status"
    /\ sync[s].answer = "failed"
    /\ IF letter[l] \in Ended
       THEN UNCHANGED <<letter, history, returned, alert>>
       ELSE /\ letter' = [letter EXCEPT ![l] = "failed"]
            /\ history' = [history EXCEPT ![l] = @ \cup {"failed"}]
            /\ returned' = IF ForAPerson(l, before) THEN returned ELSE returned \cup PaidBack(l)
            /\ alert' = IF alert[l] # "none" THEN alert
                        ELSE [alert EXCEPT ![l] = IF ForAPerson(l, before) THEN "critical" ELSE "warning"]
    /\ TurnOver(s)
    /\ UNCHANGED <<carrier, unreturnable, aged, mail, number>>

\* failProviderCancelledLetter, one transaction: the alert's INSERT gives way to the one
\* the letter already has, and the returns key on the letter.
FailProviderCancelled(s) ==
    LET l == sync[s].l
        before == letter[l] IN
    /\ sync[s].pc = "status"
    /\ sync[s].answer = "failed"
    /\ IF before \in Ended
       THEN UNCHANGED <<letter, history, returned, alert>>
       ELSE /\ letter' = [letter EXCEPT ![l] = "failed"]
            /\ history' = [history EXCEPT ![l] = @ \cup {"failed"}]
            /\ returned' = IF ForAPerson(l, before) THEN returned ELSE returned \cup PaidBack(l)
            /\ alert' = IF alert[l] # "none" THEN alert
                        ELSE [alert EXCEPT ![l] = IF ForAPerson(l, before) THEN "critical" ELSE "warning"]
    /\ TurnOver(s)
    /\ UNCHANGED <<carrier, unreturnable, aged, mail, number>>

\* A statement throws: its letter is left, and the run goes on with the next one.
WriteFails(s) ==
    /\ sync[s].pc \in {"status", "history"}
    /\ TurnOver(s)
    /\ UNCHANGED <<record, unreturnable, aged, mail, number>>

\* The process ends: nothing of a run is kept.
Dies(s) ==
    /\ sync[s].pc # "idle"
    /\ sync' = [sync EXCEPT ![s] = IdleSync]
    /\ UNCHANGED <<record, unreturnable, aged, mail, number>>

-----------------------------------------------------------------------------
Next ==
    \/ \E l \in Letters : MailMoves(l) \/ NumberGiven(l) \/ Ages(l) \/ FundingLost(l)
    \/ \E s \in Syncs :
          \/ List(s) \/ StoreNumber(s) \/ WriteStatus(s) \/ WriteHistory(s)
          \/ FailProviderCancelled(s) \/ WriteFails(s) \/ Dies(s)
          \/ \E l \in Letters : Ask(s, l, mail[l]) \/ Ask(s, l, "unrecognised") \/ AskFails(s, l)

Spec == Init /\ [][Next]_vars

\* A turn whose letter the provider answers for, and whose writes all succeed.
Answered(s, l) == Ask(s, l, mail[l])
Stored(s, l) ==
    /\ sync[s].l = l /\ sync[s].answer # "unrecognised"
    /\ StoreNumber(s)
    /\ sync[s].named => {l} \cap Certified \subseteq carrier'
Written(s, l) == sync[s].l = l /\ (WriteStatus(s) \/ FailProviderCancelled(s))

\* The maintenance starts a sync every six hours, the provider is not down for ever, and no
\* letter's write fails every time it is tried.  An operator's sync may stop anywhere.
FairSpec ==
    /\ Spec
    /\ \A s \in Scheduled :
          /\ WF_vars(List(s) \/ StoreNumber(s) \/ WriteHistory(s))
          /\ \A l \in Letters : /\ SF_vars(Answered(s, l))
                                /\ SF_vars(Stored(s, l))
                                /\ SF_vars(Written(s, l))

-----------------------------------------------------------------------------
(* Properties. *)

\* Types of the rows and of what the runs hold.
TypeOK ==
    /\ letter \in [Letters -> Answers]
    /\ carrier \subseteq Certified
    /\ returned \subseteq Letters
    /\ unreturnable \subseteq Letters \ PayAndSend
    /\ alert \in [Letters -> AlertSeverity]
    /\ history \in [Letters -> SUBSET Answers]
    /\ aged \subseteq Letters
    /\ mail \in [Letters -> Answers]
    /\ number \subseteq Letters
    /\ sync \in [Syncs -> SyncState]

\* The one alert a letter ever gets agrees with its money: what came back has a warning,
\* never a critical alert, which leaves it to a person; and a warning says it came back
\* unless its funding was reversed or its gift redeemed, which returnPrepaidCreditsFor-
\* FailedLetter passes over.  failProviderCancelledLetter may run again on a letter a late
\* write took out of its end, and its second alert gives way to the first.
ReturnIsAnnounced ==
    /\ \A l \in returned : alert[l] = "warning"
    /\ \A l \in Letters \ unreturnable : alert[l] = "warning" => l \in returned

\* Nothing comes back by itself once any sync has recorded the piece as printing or mailed,
\* whatever the sync that was told of the cancel had read before.
PrintedIsForAPerson ==
    [][\A l \in returned' \ returned :
          history[l] \cap {"processing", "in_transit"} = {}]_vars

\* The record of a piece that came to its end settles on an end, for good, while the letter
\* is inside the sync's window: a late write of another run is put right by the next one.
EndSettles == \A l \in Letters : <>[](mail[l] \in Ended => letter[l] \in Ended \/ l \in aged)

\* The USPS number of a certified letter is stored in the end, even when the letter was
\* delivered before the provider had the number, unless the letter failed, was returned,
\* or left the window.
NumberIsStored ==
    \A l \in Certified : l \in number ~> l \in carrier \cup aged \/ letter[l] \in {"failed", "returned"}

\* What the syncs promise of the record however their writes interleave (syncLetterStatuses):
\* it settles on the piece's end, and keeps the number the piece was given.
RecordCatchesUp == EndSettles /\ NumberIsStored

\* letterJobService.ts:818, of the alert: "a warning when what paid came back".  A letter
\* whose pack was refunded or disputed gets the warning and nothing comes back: README.
WarningMeansReturned == \A l \in Letters : alert[l] = "warning" => l \in returned

\* letterJobService.ts:791, of the ended statuses: "past which nothing changes".  A late
\* write of another sync breaks it, which EndSettles bounds: README.
EndedNeverChanges == [][\A l \in Letters : letter[l] \in Ended => letter'[l] = letter[l]]_vars

=============================================================================
