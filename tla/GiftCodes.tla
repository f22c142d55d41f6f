----------------------------- MODULE GiftCodes -----------------------------
(***************************************************************************)
(* Gift letters and the codes that pass them on (giftLetterService,        *)
(* promoService, codeRedemptionService).  A gift letter is a free send; a  *)
(* sent one with budget left prints a single-use code, worth one gift      *)
(* letter with one less budget, and one an operator bound to a seed        *)
(* campaign prints the campaign's own code while that can be claimed.      *)
(*                                                                         *)
(* Each transaction is one step: those of one account take its lock, and   *)
(* those of one code or campaign the lock of its row.  A redemption and a  *)
(* claim read before their transaction, so each is two steps.              *)
(***************************************************************************)
EXTENDS Naturals, FiniteSets

CONSTANTS Accounts,
          Mailbox,       \* the normalised address an account's sign-in carries, or None
          Orders, Buyer, \* letter packs, each granting one gift letter
          Campaigns,     \* the seed campaigns: promo campaigns that grant a gift letter
          NewOnly, Cap, SeedBudget,
          PackBudget, OperatorBudget,
          Requests,      \* redemptions and claims under way
          Invites,       \* bound: the accounts and cards of the operator's grants
          MaxGifts,      \* bound
          None

ASSUME GiftAssumption ==
    /\ Buyer \in [Orders -> Accounts]
    /\ NewOnly \subseteq Campaigns
    /\ Cap \in [Campaigns -> Nat] /\ SeedBudget \in [Campaigns -> Nat]
    /\ Invites \subseteq Accounts \X (Campaigns \cup {None})
    /\ {PackBudget, OperatorBudget, MaxGifts} \subseteq Nat
    /\ None \notin Accounts \cup Orders \cup Campaigns

VARIABLES
    gifts,     \* gift_letters by what granted each, with the letter and the code it became
    campaign,  \* promo_campaigns: where it is, whether its end has passed, its claims counted
    claims,    \* promo_redemptions
    reversed,  \* what reversed the money of an order
    call       \* the redemption or claim each request is making

vars == <<gifts, campaign, claims, reversed, call>>

\* (source, source_reference_id), which is unique: nothing is granted twice
Grants == {<<"pack", o>> : o \in Orders} \cup {<<"operator", i>> : i \in Invites}
            \cup {<<"seed", c>> : c \in Campaigns \X Accounts}
ByCode(g) == <<"chain", g>>
ByFailure(g) == <<"send_failed", g>>
Source(g) == g[1]

Gift == [owner : Accounts, budget : Nat, order : Orders \cup {None}, card : Campaigns \cup {None},
         status : {"available", "consumed", "expired", "revoked"}, reversed : BOOLEAN,
         letter : {"none", "mailed", "failed"},
         code : {"none", "issued", "redeemed", "void"}]
Idle == [kind |-> "none", account |-> None, of |-> None]

\* rows with one more, unless there is one of that source and reference
Granted(rows, g, a, budget, order, card) ==
    [h \in DOMAIN rows \cup {g} |->
        IF h \in DOMAIN rows THEN rows[h]
        ELSE [owner |-> a, budget |-> budget, order |-> order, card |-> card,
              status |-> "available", reversed |-> FALSE, letter |-> "none", code |-> "none"]]

Room == Cardinality(DOMAIN gifts) < MaxGifts
GivenBack(g) == ByFailure(g) \in DOMAIN gifts
Compensated(g) == GivenBack(g) \/ gifts[g].reversed

Init ==
    /\ gifts = << >>
    /\ campaign = [k \in Campaigns |-> [status |-> "draft", over |-> FALSE, count |-> 0]]
    /\ claims = {}
    /\ reversed = [o \in Orders |-> {}]
    /\ call = [r \in Requests |-> Idle]

-----------------------------------------------------------------------------
(* Grants. *)

Bought(o) == <<"pack", o>> \in DOMAIN gifts

BuysPack(o) ==
    /\ ~Bought(o) /\ Room
    /\ gifts' = Granted(gifts, <<"pack", o>>, Buyer[o], PackBudget, o, None)
    /\ UNCHANGED <<campaign, claims, reversed, call>>

\* the panel's gift.grant, with or without a seed campaign's card
OperatorGrantsGift(a, k) ==
    /\ <<"operator", <<a, k>>>> \notin DOMAIN gifts /\ Room
    /\ k # None => campaign[k].status # "deleted"
    /\ gifts' = Granted(gifts, <<"operator", <<a, k>>>>, a, OperatorBudget, None, k)
    /\ UNCHANGED <<campaign, claims, reversed, call>>

-----------------------------------------------------------------------------
(* Sends. *)

\* seedCodeHold; a letter held past the campaign's end would print a dead code
SeedPrints(k, heldPast) ==
    /\ k # None
    /\ campaign[k].status = "active" /\ ~campaign[k].over /\ ~heldPast
    /\ campaign[k].count < Cap[k]

SendsGift(g, heldPast) ==
    /\ gifts[g].status = "available"
    /\ gifts' = [gifts EXCEPT ![g].status = "consumed", ![g].letter = "mailed",
                   ![g].code = IF ~SeedPrints(gifts[g].card, heldPast) /\ gifts[g].budget > 0
                               THEN "issued" ELSE "none"]
    /\ UNCHANGED <<campaign, claims, reversed, call>>

\* mutant: the code of the failed letter stays redeemable
SendFailsKeepingCodeMutant(g) ==
    LET gift == gifts[g]
        failed == [gifts EXCEPT ![g].letter = "failed"]
    IN  /\ gift.letter = "mailed"
        /\ \/ (gift.code = "redeemed" \/ Compensated(g)) /\ gifts' = failed
           \/ /\ gift.code # "redeemed" /\ ~Compensated(g) /\ Room
              /\ gifts' = Granted(failed, ByFailure(g), gift.owner, gift.budget,
                                gift.order, gift.card)
        /\ UNCHANGED <<campaign, claims, reversed, call>>

\* The letter of g was refused or cancelled: the code on it is voided, and the
\* gift comes back unless the code was redeemed or the purchase reversed.
SendFails(g) ==
    LET gift == gifts[g]
        voided == [gifts EXCEPT ![g].letter = "failed",
                     ![g].code = IF @ = "issued" THEN "void" ELSE @]
    IN  /\ gift.letter = "mailed"
        /\ \/ /\ gift.code = "redeemed" \/ Compensated(g)
              /\ gifts' = voided
           \/ /\ gift.code # "redeemed" /\ ~Compensated(g) /\ Room
              /\ gifts' = Granted(voided, ByFailure(g), gift.owner, gift.budget,
                                gift.order, gift.card)
        /\ UNCHANGED <<campaign, claims, reversed, call>>

\* mutant: what the customer was given back is not looked at
ResendsAnywayMutant(g) ==
    /\ gifts[g].letter = "failed"
    /\ gifts' = [gifts EXCEPT ![g].letter = "mailed"]
    /\ UNCHANGED <<campaign, claims, reversed, call>>

\* an operator sends a failed letter again
Resends(g) ==
    /\ gifts[g].letter = "failed" /\ ~Compensated(g)
    /\ gifts' = [gifts EXCEPT ![g].letter = "mailed"]
    /\ UNCHANGED <<campaign, claims, reversed, call>>

-----------------------------------------------------------------------------
(* Redeeming a chain code. *)

OwnCode(a, g) ==
    \/ a = gifts[g].owner
    \/ Mailbox[a] # None /\ Mailbox[a] = Mailbox[gifts[g].owner]

RedeemReads(r, a, g) ==
    /\ call[r] = Idle
    /\ gifts[g].code = "issued" /\ ~OwnCode(a, g)
    /\ call' = [call EXCEPT ![r] = [kind |-> "code", account |-> a, of |-> g]]
    /\ UNCHANGED <<gifts, campaign, claims, reversed>>

Redeemed(r) ==
    LET g == call[r].of
    IN  /\ Room
        /\ gifts' = Granted([gifts EXCEPT ![g].code = "redeemed"],
                            ByCode(g), call[r].account, gifts[g].budget - 1, None, None)

\* mutant: the read before the transaction decides
RedeemCommitsAsReadMutant(r) ==
    /\ call[r].kind = "code" /\ Redeemed(r)
    /\ call' = [call EXCEPT ![r] = Idle]
    /\ UNCHANGED <<campaign, claims, reversed>>

RedeemCommits(r) ==
    /\ call[r].kind = "code"
    /\ \/ gifts[call[r].of].code = "issued" /\ Redeemed(r)
       \/ gifts[call[r].of].code # "issued" /\ UNCHANGED gifts
    /\ call' = [call EXCEPT ![r] = Idle]
    /\ UNCHANGED <<campaign, claims, reversed>>

-----------------------------------------------------------------------------
(* Claiming a seed campaign: validatePromoCode, then redeemPromoCode's transaction. *)

Claimed(k, a) == \E c \in claims : c.campaign = k /\ c.account = a
ClaimedBy(k, box) == box # None /\ \E c \in claims : c.campaign = k /\ c.mailbox = box
\* credit_transactions: here, those of a pack
OnRecord(a) == \E o \in Orders : Bought(o) /\ Buyer[o] = a

ClaimReads(r, a, k) ==
    /\ call[r] = Idle
    /\ campaign[k].status = "active" /\ ~campaign[k].over
    /\ campaign[k].count < Cap[k]
    /\ ~Claimed(k, a)
    /\ k \in NewOnly => ~OnRecord(a)
    /\ ~ClaimedBy(k, Mailbox[a])
    /\ call' = [call EXCEPT ![r] = [kind |-> "claim", account |-> a, of |-> k]]
    /\ UNCHANGED <<gifts, campaign, claims, reversed>>

\* the conditional increment: the cap and the status, under the campaign's lock
Increments(k) == campaign[k].status = "active" /\ campaign[k].count < Cap[k]
\* promo_redemptions' unique indexes
Unique(k, a) == ~Claimed(k, a) /\ ~ClaimedBy(k, Mailbox[a])

ClaimCommits(r) ==
    LET k == call[r].of
        a == call[r].account
    IN  /\ call[r].kind = "claim"
        /\ \/ /\ Increments(k) /\ Unique(k, a) /\ Room
              /\ campaign' = [campaign EXCEPT ![k].count = @ + 1]
              /\ claims' = claims \cup {[campaign |-> k, account |-> a, mailbox |-> Mailbox[a]]}
              /\ gifts' = Granted(gifts, <<"seed", <<k, a>>>>, a, SeedBudget[k], None, None)
           \/ /\ ~(Increments(k) /\ Unique(k, a))
              /\ UNCHANGED <<gifts, campaign, claims>>
        /\ call' = [call EXCEPT ![r] = Idle]
        /\ UNCHANGED reversed

\* the request dies before its transaction commits
RequestDies(r) ==
    /\ call[r] # Idle
    /\ call' = [call EXCEPT ![r] = Idle]
    /\ UNCHANGED <<gifts, campaign, claims, reversed>>

-----------------------------------------------------------------------------
(* Campaigns, as an operator moves them. *)

Transitions == [draft |-> {"active", "ended"}, active |-> {"paused", "ended"},
                paused |-> {"active", "ended"}, ended |-> {}, deleted |-> {}]

MovesCampaign(k, status) ==
    /\ status \in Transitions[campaign[k].status]
    /\ campaign' = [campaign EXCEPT ![k].status = status]
    /\ UNCHANGED <<gifts, claims, reversed, call>>

\* one that was claimed, or that a gift letter names, is never deleted
DeletesCampaign(k) ==
    /\ campaign[k].status # "deleted" /\ campaign[k].count = 0
    /\ \A g \in DOMAIN gifts : gifts[g].card # k
    /\ campaign' = [campaign EXCEPT ![k].status = "deleted"]
    /\ UNCHANGED <<gifts, claims, reversed, call>>

\* its end passes; nothing looks at it before the campaign is active
CampaignEnds(k) ==
    /\ campaign[k].status = "active" /\ ~campaign[k].over
    /\ campaign' = [campaign EXCEPT ![k].over = TRUE]
    /\ UNCHANGED <<gifts, claims, reversed, call>>

-----------------------------------------------------------------------------
(* What ends a gift letter or a code. *)

\* an operator voids a code, or its days pass, which every reader treats alike
CodeEnds(g) ==
    /\ gifts[g].code = "issued"
    /\ gifts' = [gifts EXCEPT ![g].code = "void"]
    /\ UNCHANGED <<campaign, claims, reversed, call>>

GiftLapses(g) ==
    /\ gifts[g].status = "available"
    /\ gifts' = [gifts EXCEPT ![g].status = "expired"]
    /\ UNCHANGED <<campaign, claims, reversed, call>>

\* revokeGiftLettersForOrder: a refund leaves the printed codes, a dispute does not
TakenBack(gift, cause) ==
    [gift EXCEPT !.status = IF @ = "available" THEN "revoked" ELSE @,
                 !.reversed = @ \/ gift.status = "consumed",
                 !.code = IF cause = "disputed" /\ @ = "issued" THEN "void" ELSE @]

ReversesPack(o, cause) ==
    /\ Bought(o) /\ cause \notin reversed[o]
    /\ reversed' = [reversed EXCEPT ![o] = @ \cup {cause}]
    /\ gifts' = [g \in DOMAIN gifts |->
                   IF gifts[g].order = o THEN TakenBack(gifts[g], cause) ELSE gifts[g]]
    /\ UNCHANGED <<campaign, claims, call>>

-----------------------------------------------------------------------------
Next ==
    \/ \E o \in Orders : BuysPack(o) \/ ReversesPack(o, "refunded") \/ ReversesPack(o, "disputed")
    \/ \E i \in Invites : OperatorGrantsGift(i[1], i[2])
    \/ \E g \in DOMAIN gifts : \/ \E heldPast \in BOOLEAN : SendsGift(g, heldPast)
                               \/ SendFails(g) \/ Resends(g)
                               \/ CodeEnds(g) \/ GiftLapses(g)
                               \/ \E r \in Requests, a \in Accounts : RedeemReads(r, a, g)
    \/ \E r \in Requests : \/ RedeemCommits(r) \/ ClaimCommits(r) \/ RequestDies(r)
                           \/ \E a \in Accounts, k \in Campaigns : ClaimReads(r, a, k)
    \/ \E k \in Campaigns : \/ \E status \in DOMAIN Transitions : MovesCampaign(k, status)
                            \/ DeletesCampaign(k) \/ CampaignEnds(k)

Spec == Init /\ [][Next]_vars

-----------------------------------------------------------------------------
(* The chain a grant starts, as GiftChain promises it. *)

\* the grant a gift letter descends from
Root == LET root[g \in DOMAIN gifts] == IF g \in Grants THEN g ELSE root[g[2]]
        IN  root
Family(r) == {g \in DOMAIN gifts : Root[g] = r}

Held(g) == gifts[g].status = "available"
\* sent, and may still pass the chain on or come back
Passing(g) == /\ gifts[g].letter = "mailed"
              /\ \/ gifts[g].code = "issued"
                 \/ gifts[g].code # "redeemed" /\ ~Compensated(g)
\* sent and not given back, so mailed or still to be sent again
Sent(g) == gifts[g].status = "consumed" /\ ~GivenBack(g)

ChainOf(r) ==
    IF r \notin DOMAIN gifts
    THEN [at |-> "none", left |-> 0, budget |-> 0, letters |-> 0]
    ELSE LET family == Family(r)
             ends == {g \in family : Held(g) \/ Passing(g)}
         IN  [at |-> CASE ends = {} -> "over"
                       [] Cardinality(ends) > 1 -> "tree"
                       [] Cardinality(ends) = 1 /\ (\E g \in ends : Held(g)) -> "held"
                       [] OTHER -> "mailed",
              left |-> IF ends = {} THEN 0 ELSE gifts[CHOOSE g \in ends : TRUE].budget,
              budget |-> gifts[r].budget,
              letters |-> Cardinality({g \in family : Sent(g)})]

Path == INSTANCE GiftChain WITH Grants <- Grants, chain <- [r \in Grants |-> ChainOf(r)]

-----------------------------------------------------------------------------
(* Every row is well formed, a printed code belongs to a sent letter, and  *)
(* what another gift letter granted names one that exists (the columns   *)
(* and constraints of 033_gift_letters.sql).                               *)
TypeOK ==
    /\ \A g \in DOMAIN gifts :
         /\ gifts[g] \in Gift
         /\ g \in Grants \/ (Source(g) \in {"chain", "send_failed"} /\ g[2] \in DOMAIN gifts)
         /\ (gifts[g].letter = "none") = (gifts[g].status # "consumed")
         /\ gifts[g].letter = "none" => gifts[g].code = "none"
    /\ campaign \in [Campaigns -> [status : DOMAIN Transitions, over : BOOLEAN, count : Nat]]
    /\ reversed \in [Orders -> SUBSET {"refunded", "disputed"}]
    /\ DOMAIN call = Requests

(* A grant's budget is all it can cost: however its letters fail, come back,
   are resent and are passed on, at most budget + 1 of them are in the mail
   (docs/gift-letters.md, "The cost bound" of giftLetterService). *)
FreeLettersBounded ==
    \A r \in Grants \cap DOMAIN gifts :
        Cardinality({g \in Family(r) : gifts[g].letter = "mailed"}) <= gifts[r].budget + 1

(* Claims read their limits before the transaction: still the count is the
   number of claims, seed claims are gift letters one for one, the cap is kept,
   and nobody claims twice, by account or by mailbox (redeemPromoCode). *)
ClaimsBounded ==
    /\ \A k \in Campaigns : /\ campaign[k].count = Cardinality({c \in claims : c.campaign = k})
                            /\ campaign[k].count <= Cap[k]
    /\ Cardinality(claims) = Cardinality({g \in DOMAIN gifts : Source(g) = "seed"})
    /\ \A c, d \in claims : c # d /\ c.campaign = d.campaign =>
         c.account # d.account /\ (c.mailbox = None \/ c.mailbox # d.mailbox)

(* What is given away is bounded, by the grants and by the campaigns. *)
GiftsBounded == TypeOK /\ FreeLettersBounded /\ ClaimsBounded

(* Once a pack's money went back, none of its gift letters can be sent, not
   even one that comes back from a letter failing later
   (revokeGiftLettersForOrderWithClient, returnGiftLetterForFailedSendWithClient). *)
ReversedStaysGone ==
    \A g \in DOMAIN gifts :
        gifts[g].order # None /\ reversed[gifts[g].order] # {} => gifts[g].status # "available"

(* After a dispute no code printed for the pack grants anything, though its
   redemption had read it as good before (redeemChainCode). *)
DisputeStopsChain ==
    [][\A g \in DOMAIN gifts :
         gifts[g].order # None /\ "disputed" \in reversed[gifts[g].order]
           => /\ gifts'[g].code \in {"issued", "redeemed"} => gifts'[g].code = gifts[g].code
              /\ ByCode(g) \in DOMAIN gifts' => ByCode(g) \in DOMAIN gifts]_vars

(* What a refund or a dispute took stays taken, from the buyer and down the chain. *)
ReversalIsFinal == []ReversedStaysGone /\ DisputeStopsChain

(* Each grant starts a path, never a tree: one gift letter held or one letter
   on its way at a time, one less budget for each hop, whatever is redeemed,
   refused, cancelled, voided or reversed meanwhile (giftLetterService). *)
ChainIsAPath == Path!Spec

=============================================================================
