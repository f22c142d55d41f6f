-------------------------- MODULE GiftCodesProofs --------------------------
(***************************************************************************)
(* For any accounts, packs, campaigns, requests and number of gift         *)
(* letters: what a refund or a dispute of a pack took from its gift        *)
(* letters, and from the codes they printed, never comes back; each gift   *)
(* letter granted starts a path, so what it can cost is bounded; and so is *)
(* what the campaigns give away.                                           *)
(***************************************************************************)
EXTENDS GiftCodes, FiniteSetTheorems, TLAPS

\* What holds of each gift letter while rev is what reversed the packs: a letter in the mail
\* was paid with it, a printed code has budget to pass on, and a reversed pack's gift letter
\* is gone, marked if it had been sent, its code void if the money is disputed.
RowInv(x, rev) ==
    /\ x \in Gift
    /\ x.letter # "none" => x.status = "consumed"
    /\ x.code = "issued" => x.budget > 0
    /\ x.order # None /\ rev[x.order] # {} =>
         /\ x.status # "available"
         /\ x.status = "consumed" => x.reversed
         /\ "disputed" \in rev[x.order] => x.code # "issued"

\* What a request read before its transaction names rows that stay.
CallInv ==
    /\ DOMAIN call = Requests
    /\ \A r \in Requests :
         /\ call[r].kind = "code" => call[r].of \in DOMAIN gifts /\ call[r].account \in Accounts
         /\ call[r].kind = "claim" => call[r].of \in Campaigns /\ call[r].account \in Accounts

\* Only a pack that was bought is reversed.
ReversedInv ==
    /\ reversed \in [Orders -> SUBSET {"refunded", "disputed"}]
    /\ \A o \in Orders : reversed[o] # {} => Bought(o)

RowsInv == \A g \in DOMAIN gifts : RowInv(gifts[g], reversed)

IInv == RowsInv /\ CallInv /\ ReversedInv

\* What DisputeStopsChain says of one step.
StopsChain ==
    \A g \in DOMAIN gifts :
       gifts[g].order # None /\ "disputed" \in reversed[gifts[g].order]
         => /\ gifts'[g].code \in {"issued", "redeemed"} => gifts'[g].code = gifts[g].code
            /\ ByCode(g) \in DOMAIN gifts' => ByCode(g) \in DOMAIN gifts

USE GiftAssumption

\* Gift letters are never removed, and nothing but ReversesPack reverses.
Grows == DOMAIN gifts \subseteq DOMAIN gifts' /\ reversed' = reversed

LEMMA CallStays ==
    ASSUME IInv, Grows, UNCHANGED call PROVE CallInv'
BY DEF IInv, CallInv, Grows

LEMMA CallEnds ==
    ASSUME IInv, Grows, NEW r \in Requests, call' = [call EXCEPT ![r] = Idle] PROVE CallInv'
BY DEF IInv, CallInv, Grows, Idle

LEMMA ReversedStays ==
    ASSUME IInv, Grows PROVE ReversedInv'
BY DEF IInv, ReversedInv, Grows, Bought

\* Rows kept as the invariant wants them, with one gift letter granted.
LEMMA GrantedRows ==
    ASSUME NEW rows, NEW k, NEW a \in Accounts, NEW budget \in Nat,
           NEW order \in Orders \cup {None}, NEW card \in Campaigns \cup {None},
           \A g \in DOMAIN rows : RowInv(rows[g], reversed),
           order # None => reversed[order] = {},
           gifts' = Granted(rows, k, a, budget, order, card), reversed' = reversed
    PROVE  /\ DOMAIN gifts' = DOMAIN rows \cup {k}
           /\ \A g \in DOMAIN rows : gifts'[g] = rows[g]
           /\ RowsInv'
<1> DEFINE row == [owner |-> a, budget |-> budget, order |-> order, card |-> card,
                   status |-> "available", reversed |-> FALSE, letter |-> "none", code |-> "none"]
<1>1. RowInv(row, reversed)
  <2>1. row \in Gift
    BY DEF Gift
  <2> QED BY <2>1 DEF RowInv
<1>2. gifts' = [h \in DOMAIN rows \cup {k} |-> IF h \in DOMAIN rows THEN rows[h] ELSE row]
  BY DEF Granted
<1> HIDE DEF row
<1>3. DOMAIN gifts' = DOMAIN rows \cup {k} /\ \A g \in DOMAIN rows : gifts'[g] = rows[g]
  BY <1>2
<1>4. \A g \in DOMAIN gifts' : RowInv(gifts'[g], reversed)
  BY <1>1, <1>2
<1> QED BY <1>3, <1>4 DEF RowsInv

\* Rows of which one, g, becomes x.
LEMMA ChangedRow ==
    ASSUME RowsInv, NEW g \in DOMAIN gifts, NEW x, RowInv(x, reversed)
    PROVE  /\ DOMAIN [gifts EXCEPT ![g] = x] = DOMAIN gifts
           /\ [gifts EXCEPT ![g] = x][g] = x
           /\ \A h \in DOMAIN gifts \ {g} : [gifts EXCEPT ![g] = x][h] = gifts[h]
           /\ \A h \in DOMAIN gifts : RowInv([gifts EXCEPT ![g] = x][h], reversed)
BY DEF RowsInv

\* One row changes: the rest, and what names them, are as they were.
LEMMA RowChanges ==
    ASSUME IInv, NEW g \in DOMAIN gifts, NEW x, RowInv(x, reversed),
           gifts' = [gifts EXCEPT ![g] = x], reversed' = reversed, call' = call,
           x.code \in {"issued", "redeemed"} => x.code = gifts[g].code \/ gifts[g].status = "available"
    PROVE  IInv' /\ StopsChain
<1>1. RowsInv
  BY DEF IInv
<1>2. /\ DOMAIN gifts' = DOMAIN gifts /\ gifts'[g] = x
      /\ \A h \in DOMAIN gifts \ {g} : gifts'[h] = gifts[h]
      /\ RowsInv'
  BY <1>1, ChangedRow DEF RowsInv
<1>3. Grows
  BY <1>2 DEF Grows
<1>4. StopsChain
  BY <1>1, <1>2 DEF StopsChain, RowsInv, RowInv
<1> QED BY <1>2, <1>3, <1>4, CallStays, ReversedStays DEF IInv

LEMMA SendsGiftStep ==
    ASSUME IInv, NEW g \in DOMAIN gifts, NEW heldPast \in BOOLEAN, SendsGift(g, heldPast)
    PROVE  IInv' /\ StopsChain
<1>1. PICK c \in {"none", "issued"} :
        /\ c = IF ~SeedPrints(gifts[g].card, heldPast) /\ gifts[g].budget > 0 THEN "issued" ELSE "none"
        /\ c = "issued" => gifts[g].budget > 0
  OBVIOUS
<1> DEFINE x == [gifts[g] EXCEPT !.status = "consumed", !.letter = "mailed", !.code = c]
<1>2. RowInv(gifts[g], reversed) /\ gifts[g].status = "available"
  BY DEF IInv, RowsInv, SendsGift
<1>3. gifts' = [gifts EXCEPT ![g] = x]
  BY <1>1, <1>2 DEF SendsGift, RowInv, Gift
<1>4. RowInv(x, reversed)
  BY <1>1, <1>2 DEF RowInv, Gift
<1> QED BY <1>2, <1>3, <1>4, RowChanges DEF SendsGift

LEMMA ResendsStep ==
    ASSUME IInv, NEW g \in DOMAIN gifts, Resends(g)
    PROVE  IInv' /\ StopsChain
<1> DEFINE x == [gifts[g] EXCEPT !.letter = "mailed"]
<1>1. RowInv(gifts[g], reversed) /\ gifts[g].letter = "failed"
  BY DEF IInv, RowsInv, Resends
<1>2. gifts' = [gifts EXCEPT ![g] = x]
  BY <1>1 DEF Resends, RowInv, Gift
<1>3. RowInv(x, reversed) /\ x.code = gifts[g].code
  BY <1>1 DEF RowInv, Gift
<1> QED BY <1>2, <1>3, RowChanges DEF Resends

LEMMA CodeEndsStep ==
    ASSUME IInv, NEW g \in DOMAIN gifts, CodeEnds(g)
    PROVE  IInv' /\ StopsChain
<1> DEFINE x == [gifts[g] EXCEPT !.code = "void"]
<1>1. RowInv(gifts[g], reversed)
  BY DEF IInv, RowsInv
<1>2. gifts' = [gifts EXCEPT ![g] = x]
  BY <1>1 DEF CodeEnds, RowInv, Gift
<1>3. RowInv(x, reversed) /\ x.code = "void"
  BY <1>1 DEF RowInv, Gift
<1> QED BY <1>2, <1>3, RowChanges DEF CodeEnds

LEMMA GiftLapsesStep ==
    ASSUME IInv, NEW g \in DOMAIN gifts, GiftLapses(g)
    PROVE  IInv' /\ StopsChain
<1> DEFINE x == [gifts[g] EXCEPT !.status = "expired"]
<1>1. RowInv(gifts[g], reversed) /\ gifts[g].status = "available"
  BY DEF IInv, RowsInv, GiftLapses
<1>2. gifts' = [gifts EXCEPT ![g] = x]
  BY <1>1 DEF GiftLapses, RowInv, Gift
<1>3. RowInv(x, reversed) /\ x.code = gifts[g].code
  BY <1>1 DEF RowInv, Gift
<1> QED BY <1>2, <1>3, RowChanges DEF GiftLapses

\* One gift letter is granted, named by no code of a pack whose money is disputed.
LEMMA GrantsOne ==
    ASSUME IInv, NEW rows, DOMAIN rows = DOMAIN gifts,
           \A g \in DOMAIN gifts :
              /\ RowInv(rows[g], reversed)
              /\ gifts[g].order # None /\ "disputed" \in reversed[gifts[g].order] =>
                   (rows[g].code \in {"issued", "redeemed"} => rows[g].code = gifts[g].code),
           NEW k, NEW a \in Accounts, NEW budget \in Nat,
           NEW order \in Orders \cup {None}, NEW card \in Campaigns \cup {None},
           order # None => reversed[order] = {},
           gifts' = Granted(rows, k, a, budget, order, card), reversed' = reversed,
           \A g \in DOMAIN gifts :
              gifts[g].order # None /\ "disputed" \in reversed[gifts[g].order] => k # ByCode(g)
    PROVE  RowsInv' /\ Grows /\ StopsChain
<1>1. /\ DOMAIN gifts' = DOMAIN gifts \cup {k}
      /\ \A g \in DOMAIN gifts : gifts'[g] = rows[g]
      /\ RowsInv'
  BY GrantedRows
<1>2. Grows
  BY <1>1 DEF Grows
<1>3. StopsChain
  BY <1>1 DEF StopsChain
<1> QED BY <1>1, <1>2, <1>3

LEMMA BuysPackStep ==
    ASSUME IInv, NEW o \in Orders, BuysPack(o)
    PROVE  IInv' /\ StopsChain
<1>1. reversed[o] = {}
  BY DEF IInv, ReversedInv, BuysPack
<1>2. \A g : <<"pack", o>> # ByCode(g)
  BY DEF ByCode
<1>3. RowsInv' /\ Grows /\ StopsChain
  BY <1>1, <1>2, GrantsOne DEF BuysPack, IInv, RowsInv
<1> QED BY <1>3, CallStays, ReversedStays DEF IInv, BuysPack

LEMMA OperatorGrantsStep ==
    ASSUME IInv, NEW i \in Invites, OperatorGrantsGift(i[1], i[2])
    PROVE  IInv' /\ StopsChain
<1>1. i[1] \in Accounts /\ i[2] \in Campaigns \cup {None}
  OBVIOUS
<1>2. \A g : <<"operator", <<i[1], i[2]>>>> # ByCode(g)
  BY DEF ByCode
<1>3. RowsInv' /\ Grows /\ StopsChain
  BY <1>1, <1>2, GrantsOne DEF OperatorGrantsGift, IInv, RowsInv
<1> QED BY <1>3, CallStays, ReversedStays DEF IInv, OperatorGrantsGift

LEMMA SendFailsStep ==
    ASSUME IInv, NEW g \in DOMAIN gifts, SendFails(g)
    PROVE  IInv' /\ StopsChain
<1> DEFINE x == [gifts[g] EXCEPT !.letter = "failed",
                                 !.code = IF gifts[g].code = "issued" THEN "void" ELSE gifts[g].code]
           voided == [gifts EXCEPT ![g] = x]
<1>1. RowInv(gifts[g], reversed) /\ gifts[g].letter = "mailed" /\ gifts[g].status = "consumed"
  BY DEF IInv, RowsInv, SendFails, RowInv
<1>2. voided = [gifts EXCEPT ![g].letter = "failed",
                             ![g].code = IF @ = "issued" THEN "void" ELSE @]
  BY <1>1 DEF RowInv, Gift
<1>3. RowInv(x, reversed) /\ (x.code \in {"issued", "redeemed"} => x.code = gifts[g].code)
  BY <1>1 DEF RowInv, Gift
<1> HIDE DEF x
<1>4. CASE gifts' = voided
  BY <1>3, <1>4, RowChanges DEF SendFails
<1>5. CASE /\ ~Compensated(g)
           /\ gifts' = Granted(voided, ByFailure(g), gifts[g].owner, gifts[g].budget,
                               gifts[g].order, gifts[g].card)
  <2>1. gifts[g].order # None => reversed[gifts[g].order] = {}
    BY <1>1, <1>5 DEF RowInv, Compensated
  <2>2. \A h : ByFailure(g) # ByCode(h)
    BY DEF ByFailure, ByCode
  <2>3. /\ DOMAIN voided = DOMAIN gifts /\ voided[g] = x
        /\ \A h \in DOMAIN gifts \ {g} : voided[h] = gifts[h]
        /\ \A h \in DOMAIN gifts : RowInv(voided[h], reversed)
    BY <1>3, ChangedRow DEF IInv
  <2>4. /\ gifts[g].owner \in Accounts /\ gifts[g].budget \in Nat
        /\ gifts[g].order \in Orders \cup {None} /\ gifts[g].card \in Campaigns \cup {None}
    BY <1>1 DEF RowInv, Gift
  <2>5. \A h \in DOMAIN gifts :
           voided[h].code \in {"issued", "redeemed"} => voided[h].code = gifts[h].code
    BY <1>3, <2>3
  <2> HIDE DEF voided
  <2>6. RowsInv' /\ Grows /\ StopsChain
    BY <1>5, <2>1, <2>2, <2>3, <2>4, <2>5, GrantsOne DEF SendFails
  <2> QED BY <2>6, CallStays, ReversedStays DEF IInv, SendFails
<1> QED BY <1>2, <1>4, <1>5 DEF SendFails

\* A code is redeemed while it is issued, so not one of a pack whose money is disputed.
LEMMA RedeemCommitsStep ==
    ASSUME IInv, NEW r \in Requests, RedeemCommits(r)
    PROVE  IInv' /\ StopsChain
<1> DEFINE g == call[r].of
           x == [gifts[g] EXCEPT !.code = "redeemed"]
           rows == [gifts EXCEPT ![g] = x]
<1>1. g \in DOMAIN gifts /\ call[r].account \in Accounts
  BY DEF IInv, CallInv, RedeemCommits
<1>2. RowInv(gifts[g], reversed)
  BY <1>1 DEF IInv, RowsInv
<1>3. CASE gifts' = gifts
  <2>1. RowsInv' /\ Grows /\ StopsChain
    BY <1>3 DEF IInv, RowsInv, Grows, StopsChain, RedeemCommits
  <2> QED BY <2>1, CallEnds, ReversedStays DEF IInv, RedeemCommits
<1>4. CASE gifts[g].code = "issued" /\ Redeemed(r)
  <2>1. rows = [gifts EXCEPT ![g].code = "redeemed"]
    BY <1>2 DEF RowInv, Gift
  <2>2. RowInv(x, reversed) /\ gifts[g].budget \in Nat /\ gifts[g].budget > 0
    BY <1>2, <1>4 DEF RowInv, Gift
  <2>3. ~(gifts[g].order # None /\ "disputed" \in reversed[gifts[g].order])
    BY <1>2, <1>4 DEF RowInv
  <2> HIDE DEF x
  <2>4. /\ DOMAIN rows = DOMAIN gifts
        /\ \A h \in DOMAIN gifts \ {g} : rows[h] = gifts[h]
        /\ \A h \in DOMAIN gifts : RowInv(rows[h], reversed)
    BY <1>1, <2>2, ChangedRow DEF IInv
  <2>5. gifts' = Granted(rows, ByCode(g), call[r].account, gifts[g].budget - 1, None, None)
    BY <1>4, <2>1 DEF Redeemed
  <2>6. gifts[g].budget - 1 \in Nat
    BY <2>2
  <2>7. \A h \in DOMAIN gifts : h # g => ByCode(g) # ByCode(h)
    BY DEF ByCode
  <2> HIDE DEF rows, g
  <2>8. RowsInv' /\ Grows /\ StopsChain
    BY <1>1, <2>3, <2>4, <2>5, <2>6, <2>7, GrantsOne DEF RedeemCommits
  <2> QED BY <2>8, CallEnds, ReversedStays DEF IInv, RedeemCommits
<1> QED BY <1>3, <1>4 DEF RedeemCommits

\* Steps of requests and campaigns that leave the gift letters alone.
LEMMA RowsUntouched ==
    ASSUME IInv, UNCHANGED <<gifts, reversed>>
    PROVE  RowsInv' /\ Grows /\ StopsChain
BY DEF IInv, RowsInv, Grows, StopsChain

LEMMA RedeemReadsStep ==
    ASSUME IInv, NEW r \in Requests, NEW a \in Accounts, NEW g \in DOMAIN gifts, RedeemReads(r, a, g)
    PROVE  IInv' /\ StopsChain
<1>1. CallInv'
  BY DEF IInv, CallInv, RedeemReads
<1> QED BY <1>1, RowsUntouched, ReversedStays DEF RedeemReads, IInv

LEMMA ClaimReadsStep ==
    ASSUME IInv, NEW r \in Requests, NEW a \in Accounts, NEW k \in Campaigns, ClaimReads(r, a, k)
    PROVE  IInv' /\ StopsChain
<1>1. CallInv'
  BY DEF IInv, CallInv, ClaimReads
<1> QED BY <1>1, RowsUntouched, ReversedStays DEF ClaimReads, IInv

LEMMA ClaimCommitsStep ==
    ASSUME IInv, NEW r \in Requests, ClaimCommits(r)
    PROVE  IInv' /\ StopsChain
<1> DEFINE k == call[r].of
           a == call[r].account
<1>1. k \in Campaigns /\ a \in Accounts /\ SeedBudget[k] \in Nat
  BY DEF IInv, CallInv, ClaimCommits
<1>2. CASE UNCHANGED gifts
  BY <1>2, RowsUntouched, CallEnds, ReversedStays DEF ClaimCommits, IInv
<1>3. CASE gifts' = Granted(gifts, <<"seed", <<k, a>>>>, a, SeedBudget[k], None, None)
  <2>1. \A g : <<"seed", <<k, a>>>> # ByCode(g)
    BY DEF ByCode
  <2>2. RowsInv' /\ Grows /\ StopsChain
    BY <1>1, <1>3, <2>1, GrantsOne DEF ClaimCommits, IInv, RowsInv
  <2> QED BY <2>2, CallEnds, ReversedStays DEF IInv, ClaimCommits
<1> QED BY <1>2, <1>3 DEF ClaimCommits

LEMMA RequestDiesStep ==
    ASSUME IInv, NEW r \in Requests, RequestDies(r)
    PROVE  IInv' /\ StopsChain
BY RowsUntouched, CallEnds, ReversedStays DEF RequestDies, IInv

LEMMA CampaignStep ==
    ASSUME IInv, NEW k \in Campaigns,
           (\E status \in DOMAIN Transitions : MovesCampaign(k, status))
             \/ DeletesCampaign(k) \/ CampaignEnds(k)
    PROVE  IInv' /\ StopsChain
<1>1. UNCHANGED <<gifts, reversed, call>>
  BY DEF MovesCampaign, DeletesCampaign, CampaignEnds
<1> QED BY <1>1, RowsUntouched, CallStays, ReversedStays DEF IInv

\* revokeGiftLettersForOrderWithClient: of a row of the order, whatever it was.
LEMMA TakenBackRow ==
    ASSUME ReversedInv, NEW o \in Orders, NEW cause \in {"refunded", "disputed"},
           NEW x, RowInv(x, reversed), x.order = o,
           reversed' = [reversed EXCEPT ![o] = @ \cup {cause}]
    PROVE  /\ RowInv(TakenBack(x, cause), reversed')
           /\ TakenBack(x, cause).code \in {"issued", "redeemed"} =>
                TakenBack(x, cause).code = x.code
<1> DEFINE status == IF x.status = "available" THEN "revoked" ELSE x.status
           code == IF cause = "disputed" /\ x.code = "issued" THEN "void" ELSE x.code
           taken == x.reversed \/ x.status = "consumed"
           y == TakenBack(x, cause)
<1>1. x \in Gift /\ status \in {"consumed", "expired", "revoked"}
      /\ code \in {"none", "issued", "redeemed", "void"} /\ taken \in BOOLEAN
  BY DEF RowInv, Gift
<1>2. y = [x EXCEPT !.status = status, !.reversed = taken, !.code = code]
  BY <1>1 DEF TakenBack, Gift
<1> HIDE DEF y
<1>3. /\ y \in Gift /\ y.status = status /\ y.code = code /\ y.reversed = taken
      /\ y.letter = x.letter /\ y.budget = x.budget /\ y.order = x.order
  <2> HIDE DEF status, code, taken
  <2> QED BY <1>1, <1>2 DEF Gift
<1>4. reversed'[o] = reversed[o] \cup {cause}
  BY DEF ReversedInv
<1>5. x.letter # "none" => x.status = "consumed"
  BY DEF RowInv
<1>6. x.code = "issued" => x.budget > 0
  BY DEF RowInv
<1>7. "disputed" \in reversed'[o] => code # "issued"
  BY <1>4 DEF RowInv
<1>8. status = "consumed" => taken
  OBVIOUS
<1>9. RowInv(y, reversed')
  BY <1>1, <1>3, <1>5, <1>6, <1>7, <1>8 DEF RowInv
<1> QED BY <1>3, <1>9 DEF y

LEMMA ReversesPackStep ==
    ASSUME IInv, NEW o \in Orders, NEW cause \in {"refunded", "disputed"}, ReversesPack(o, cause)
    PROVE  IInv' /\ StopsChain
<1>1. /\ DOMAIN gifts' = DOMAIN gifts
      /\ \A g \in DOMAIN gifts :
           gifts'[g] = IF gifts[g].order = o THEN TakenBack(gifts[g], cause) ELSE gifts[g]
      /\ reversed' = [reversed EXCEPT ![o] = @ \cup {cause}]
  BY DEF ReversesPack
<1>2. reversed \in [Orders -> SUBSET {"refunded", "disputed"}]
  BY DEF IInv, ReversedInv
<1>3. \A g \in DOMAIN gifts : gifts[g].order = o =>
        /\ RowInv(gifts'[g], reversed')
        /\ gifts'[g].code \in {"issued", "redeemed"} => gifts'[g].code = gifts[g].code
  <2> TAKE g \in DOMAIN gifts
  <2> HAVE gifts[g].order = o
  <2>1. RowInv(gifts[g], reversed) /\ ReversedInv
    BY DEF IInv, RowsInv
  <2>2. gifts'[g] = TakenBack(gifts[g], cause)
    BY <1>1
  <2>3. /\ RowInv(TakenBack(gifts[g], cause), reversed')
        /\ TakenBack(gifts[g], cause).code \in {"issued", "redeemed"} =>
             TakenBack(gifts[g], cause).code = gifts[g].code
    BY <1>1, <2>1, TakenBackRow
  <2> QED BY <2>2, <2>3
<1>4. \A g \in DOMAIN gifts : gifts[g].order # o =>
        RowInv(gifts'[g], reversed') /\ gifts'[g] = gifts[g]
  <2> TAKE g \in DOMAIN gifts
  <2> HAVE gifts[g].order # o
  <2>1. RowInv(gifts[g], reversed) /\ gifts'[g] = gifts[g]
    BY <1>1 DEF IInv, RowsInv
  <2>2. gifts[g].order # None => reversed'[gifts[g].order] = reversed[gifts[g].order]
    BY <1>1, <1>2, <2>1 DEF RowInv, Gift
  <2> QED BY <2>1, <2>2 DEF RowInv
<1>5. RowsInv'
  BY <1>1, <1>3, <1>4 DEF RowsInv
<1>6. CallInv'
  BY <1>1 DEF IInv, CallInv, ReversesPack
<1>7. ReversedInv'
  BY <1>1, <1>2 DEF IInv, ReversedInv, ReversesPack, Bought
<1>8. StopsChain
  BY <1>1, <1>3, <1>4 DEF StopsChain
<1> QED BY <1>5, <1>6, <1>7, <1>8 DEF IInv

-----------------------------------------------------------------------------
LEMMA InitInv == Init => IInv
BY DEF Init, IInv, RowsInv, CallInv, ReversedInv, Idle

LEMMA NextInv ==
    ASSUME IInv, [Next]_vars
    PROVE  IInv' /\ [StopsChain]_vars
<1>1. ASSUME Next PROVE IInv' /\ StopsChain
  <2>1. ASSUME NEW o \in Orders,
               BuysPack(o) \/ ReversesPack(o, "refunded") \/ ReversesPack(o, "disputed")
        PROVE  IInv' /\ StopsChain
    BY <2>1, BuysPackStep, ReversesPackStep
  <2>2. ASSUME NEW g \in DOMAIN gifts,
               \/ \E heldPast \in BOOLEAN : SendsGift(g, heldPast)
               \/ SendFails(g) \/ Resends(g) \/ CodeEnds(g) \/ GiftLapses(g)
               \/ \E r \in Requests, a \in Accounts : RedeemReads(r, a, g)
        PROVE  IInv' /\ StopsChain
    BY <2>2, SendsGiftStep, SendFailsStep, ResendsStep, CodeEndsStep, GiftLapsesStep, RedeemReadsStep
  <2>3. ASSUME NEW r \in Requests,
               \/ RedeemCommits(r) \/ ClaimCommits(r) \/ RequestDies(r)
               \/ \E a \in Accounts, k \in Campaigns : ClaimReads(r, a, k)
        PROVE  IInv' /\ StopsChain
    BY <2>3, RedeemCommitsStep, ClaimCommitsStep, RequestDiesStep, ClaimReadsStep
  <2> QED BY <1>1, <2>1, <2>2, <2>3, OperatorGrantsStep, CampaignStep DEF Next
<1>2. ASSUME UNCHANGED vars PROVE IInv'
  BY <1>2 DEF vars, IInv, RowsInv, CallInv, ReversedInv, Bought
<1> QED BY <1>1, <1>2

\* revokeGiftLettersForOrderWithClient, returnGiftLetterForFailedSendWithClient and
\* redeemChainCode: no gift letter of a pack whose money went back can be sent, however it
\* came back, and after a dispute no code printed for it grants anything.
THEOREM ReversalsAreFinal == Spec => ReversalIsFinal
<1>1. IInv => ReversedStaysGone
  BY DEF IInv, RowsInv, RowInv, ReversedStaysGone
<1>2. Spec => []IInv
  BY InitInv, NextInv, PTL DEF Spec
<1>3. Spec => DisputeStopsChain
  <2>1. IInv /\ [Next]_vars => [\A g \in DOMAIN gifts :
         gifts[g].order # None /\ "disputed" \in reversed[gifts[g].order]
           => /\ gifts'[g].code \in {"issued", "redeemed"} => gifts'[g].code = gifts[g].code
              /\ ByCode(g) \in DOMAIN gifts' => ByCode(g) \in DOMAIN gifts]_vars
    BY NextInv DEF StopsChain
  <2> QED BY <1>2, <2>1, PTL DEF Spec, DisputeStopsChain
<1> QED BY <1>1, <1>2, <1>3, PTL DEF ReversalIsFinal

-----------------------------------------------------------------------------
(* The chain a grant starts.  Each gift letter but a grant names the one   *)
(* it came from, so each has one root; one that came from another came     *)
(* when that one had passed it on or was given back, which happens to a    *)
(* gift letter once: of a root's family only the last can still be sent or *)
(* pass the chain on.                                                      *)

LEMMA Keys ==
    /\ \A g, h : ByCode(g) # ByFailure(h)
    /\ \A g, h : ByCode(g) = ByCode(h) => g = h
    /\ \A g, h : ByFailure(g) = ByFailure(h) => g = h
    /\ \A g : ByCode(g) \notin Grants /\ ByFailure(g) \notin Grants
    /\ \A g : ByCode(g)[2] = g /\ ByFailure(g)[2] = g
BY DEF ByCode, ByFailure, Grants

Parents == \A g \in DOMAIN gifts :
    g \in Grants \/ (g[2] \in DOMAIN gifts /\ g \in {ByCode(g[2]), ByFailure(g[2])})

\* The root of each gift letter is well defined.
IsRoot(f, D) == f = [g \in D |-> IF g \in Grants THEN g ELSE f[g[2]]]
Rooted == \E f : IsRoot(f, DOMAIN gifts) /\ \A h : IsRoot(h, DOMAIN gifts) => h = f

\* What holds of a gift letter x; back tells that it was given back.
Shape(x, back) ==
    /\ (x.letter = "none") = (x.status # "consumed")
    /\ x.letter = "none" => x.code = "none" /\ ~x.reversed
    /\ x.code = "issued" => x.letter = "mailed"
    /\ back => x.letter = "failed" /\ x.code \notin {"issued", "redeemed"}
    /\ x.letter = "failed" => x.code = "redeemed" \/ back \/ x.reversed

Shapes == \A g \in DOMAIN gifts :
    /\ gifts[g] \in Gift /\ Shape(gifts[g], GivenBack(g))
    /\ (ByCode(g) \in DOMAIN gifts) <=> (gifts[g].code = "redeemed")

Childless(g) == ByCode(g) \notin DOMAIN gifts /\ ~GivenBack(g)
Tip == \A g, h \in DOMAIN gifts : Root[g] = Root[h] /\ Childless(g) /\ Childless(h) => g = h

RootsIn == \A g \in DOMAIN gifts : Root[g] \in Grants \cap DOMAIN gifts

PathInv == IsFiniteSet(DOMAIN gifts) /\ Parents /\ Rooted /\ RootsIn /\ Shapes /\ Tip

LEMMA RootIs ==
    ASSUME Rooted
    PROVE  IsRoot(Root, DOMAIN gifts) /\ \A h : IsRoot(h, DOMAIN gifts) => h = Root
<1>1. PICK f : IsRoot(f, DOMAIN gifts) /\ \A h : IsRoot(h, DOMAIN gifts) => h = f
  BY DEF Rooted
<1>2. Root = CHOOSE h : IsRoot(h, DOMAIN gifts)
  BY DEF Root, IsRoot
<1>3. IsRoot(Root, DOMAIN gifts)
  BY <1>1, <1>2
<1> QED BY <1>1, <1>3

\* A grant is its own root, and what a gift letter became has that letter's.
LEMMA RootOf ==
    ASSUME Rooted
    PROVE  /\ \A g \in DOMAIN gifts : Root[g] = IF g \in Grants THEN g ELSE Root[g[2]]
           /\ DOMAIN Root = DOMAIN gifts
<1> DEFINE f == Root
<1>1. f = [g \in DOMAIN gifts |-> IF g \in Grants THEN g ELSE f[g[2]]]
  BY RootIs DEF IsRoot
<1> HIDE DEF f
<1>2. /\ \A g \in DOMAIN gifts : f[g] = IF g \in Grants THEN g ELSE f[g[2]]
      /\ DOMAIN f = DOMAIN gifts
  BY <1>1
<1> QED BY <1>2 DEF f

\* One gift letter more, k: every other keeps its root.
LEMMA RootStays ==
    ASSUME Parents, Rooted, NEW k, k \notin DOMAIN gifts, k \in Grants \/ k[2] \in DOMAIN gifts,
           DOMAIN gifts' = DOMAIN gifts \cup {k}
    PROVE  /\ Rooted'
           /\ \A g \in DOMAIN gifts : Root'[g] = Root[g]
           /\ Root'[k] = IF k \in Grants THEN k ELSE Root[k[2]]
<1> DEFINE D == DOMAIN gifts
           f == Root
           top == IF k \in Grants THEN k ELSE f[k[2]]
           next == [g \in D \cup {k} |-> IF g = k THEN top ELSE f[g]]
<1>1. /\ f = [g \in D |-> IF g \in Grants THEN g ELSE f[g[2]]]
      /\ \A h : h = [g \in D |-> IF g \in Grants THEN g ELSE h[g[2]]] => h = f
  BY RootIs DEF IsRoot
<1>2. \A g \in D : g \in Grants \/ g[2] \in D
  BY DEF Parents
<1> HIDE DEF f
<1>3. IsRoot(next, D \cup {k})
  <2>1. \A g \in D : next[g] = f[g] /\ (g \notin Grants => next[g[2]] = f[g[2]])
    BY <1>2
  <2>2. next[k] = IF k \in Grants THEN k ELSE next[k[2]]
    OBVIOUS
  <2>3. \A g \in D : f[g] = IF g \in Grants THEN g ELSE f[g[2]]
    BY <1>1
  <2>4. \A g \in D \cup {k} : next[g] = IF g \in Grants THEN g ELSE next[g[2]]
    BY <2>1, <2>2, <2>3
  <2>5. next = [g \in D \cup {k} |-> next[g]]
    OBVIOUS
  <2> HIDE DEF next, top
  <2> QED BY <2>4, <2>5 DEF IsRoot
<1>4. ASSUME NEW h, IsRoot(h, D \cup {k}) PROVE h = next
  <2> DEFINE part == [g \in D |-> h[g]]
  <2>1. h = [g \in D \cup {k} |-> IF g \in Grants THEN g ELSE h[g[2]]]
    BY <1>4 DEF IsRoot
  <2>2. \A g \in D \cup {k} : h[g] = IF g \in Grants THEN g ELSE h[g[2]]
    BY <2>1
  <2>3. part = [g \in D |-> IF g \in Grants THEN g ELSE part[g[2]]]
    BY <1>2, <2>2
  <2>4. part = f
    BY <1>1, <2>3
  <2>5. \A g \in D : h[g] = f[g]
    BY <2>4
  <2>6. h[k] = top
    BY <2>2, <2>5
  <2>7. DOMAIN h = D \cup {k} /\ h = [g \in D \cup {k} |-> h[g]]
    BY <2>1
  <2> HIDE DEF top
  <2> QED BY <2>5, <2>6, <2>7
<1>5. Rooted'
  BY <1>3, <1>4 DEF Rooted
<1>6. Root' = next
  <2>1. Root' = CHOOSE h : IsRoot(h, DOMAIN gifts')
    BY DEF Root, IsRoot
  <2>2. IsRoot(Root', DOMAIN gifts')
    BY <1>3, <2>1
  <2>3. IsRoot(Root', D \cup {k})
    BY <2>2
  <2> HIDE DEF next
  <2> QED BY ONLY <1>4, <2>3
<1> QED BY <1>5, <1>6 DEF f

LEMMA PathInit == Init => PathInv
<1> SUFFICES ASSUME Init PROVE PathInv
  OBVIOUS
<1>1. DOMAIN gifts = {}
  BY DEF Init
<1>2. Rooted
  <2> DEFINE f == [g \in {} |-> g]
  <2>1. \A h : IsRoot(h, {}) => h = f
    BY DEF IsRoot
  <2>2. IsRoot(f, {})
    BY DEF IsRoot
  <2> QED BY <1>1, <2>1, <2>2 DEF Rooted
<1> QED BY <1>1, <1>2, FS_EmptySet DEF PathInv, Parents, RootsIn, Shapes, Tip

\* The gift letters there are, each changed into one that is well formed.
LEMMA PathTurns ==
    ASSUME PathInv, DOMAIN gifts' = DOMAIN gifts,
           \A g \in DOMAIN gifts :
              /\ gifts'[g] \in Gift /\ Shape(gifts'[g], GivenBack(g))
              /\ gifts'[g].code = "redeemed" <=> gifts[g].code = "redeemed"
    PROVE  PathInv' /\ Root' = Root /\ \A g : GivenBack(g)' <=> GivenBack(g)
<1>1. Root' = Root
  BY DEF Root
<1>2. \A g : GivenBack(g)' <=> GivenBack(g)
  BY DEF GivenBack
<1>3. Parents' /\ Rooted' /\ RootsIn'
  BY <1>1 DEF PathInv, Parents, Rooted, RootsIn
<1>4. Shapes'
  BY <1>2 DEF PathInv, Shapes
<1>5. Tip'
  BY <1>1, <1>2 DEF PathInv, Tip, Childless
<1> QED BY <1>1, <1>2, <1>3, <1>4, <1>5 DEF PathInv

\* One gift letter more: a grant, or what the last of its family became.
LEMMA PathGrows ==
    ASSUME PathInv, NEW k, k \notin DOMAIN gifts, DOMAIN gifts' = DOMAIN gifts \cup {k},
           k \in Grants
             \/ \E g \in DOMAIN gifts : Childless(g) /\ k \in {ByCode(g), ByFailure(g)},
           \A g \in DOMAIN gifts :
              /\ gifts'[g] \in Gift /\ Shape(gifts'[g], GivenBack(g) \/ k = ByFailure(g))
              /\ gifts'[g].code = "redeemed" <=> gifts[g].code = "redeemed" \/ k = ByCode(g),
           gifts'[k] \in Gift, Shape(gifts'[k], FALSE), gifts'[k].code # "redeemed"
    PROVE  /\ PathInv'
           /\ \A g \in DOMAIN gifts : /\ Root'[g] = Root[g]
                                      /\ GivenBack(g)' <=> GivenBack(g) \/ k = ByFailure(g)
           /\ Root'[k] = IF k \in Grants THEN k ELSE Root[k[2]]
           /\ ~GivenBack(k)'
<1>1. /\ IsFiniteSet(DOMAIN gifts) /\ Parents /\ Rooted /\ RootsIn /\ Shapes /\ Tip
  BY DEF PathInv
<1>2. k \in Grants \/ (k[2] \in DOMAIN gifts /\ k \in {ByCode(k[2]), ByFailure(k[2])})
  BY Keys
<1>3. /\ Rooted' /\ \A g \in DOMAIN gifts : Root'[g] = Root[g]
      /\ Root'[k] = IF k \in Grants THEN k ELSE Root[k[2]]
  BY <1>1, <1>2, RootStays
<1>4. \A g \in DOMAIN gifts : GivenBack(g)' <=> GivenBack(g) \/ k = ByFailure(g)
  BY DEF GivenBack
<1>5. ByCode(k) \notin DOMAIN gifts' /\ ByFailure(k) \notin DOMAIN gifts'
  <2>1. ByCode(k) \notin DOMAIN gifts /\ ByFailure(k) \notin DOMAIN gifts
    BY <1>1, Keys DEF Parents
  <2>2. ByCode(k) # k /\ ByFailure(k) # k
    BY Keys
  <2> QED BY <2>1, <2>2
<1>6. IsFiniteSet(DOMAIN gifts')
  BY <1>1, FS_AddElement
<1>7. Parents'
  BY <1>1, <1>2 DEF Parents
<1>8. RootsIn'
  BY <1>1, <1>2, <1>3 DEF RootsIn
<1>9. Shapes'
  <2>1. ASSUME NEW g \in DOMAIN gifts
        PROVE  /\ gifts'[g] \in Gift /\ Shape(gifts'[g], GivenBack(g)')
               /\ ByCode(g) \in DOMAIN gifts' <=> gifts'[g].code = "redeemed"
    <3>1. GivenBack(g)' = (GivenBack(g) \/ k = ByFailure(g))
      BY <1>4 DEF GivenBack
    <3>2. ByCode(g) \in DOMAIN gifts' <=> gifts'[g].code = "redeemed"
      BY <1>1 DEF Shapes
    <3> QED BY <3>1, <3>2
  <2>2. /\ gifts'[k] \in Gift /\ Shape(gifts'[k], GivenBack(k)')
        /\ ByCode(k) \in DOMAIN gifts' <=> gifts'[k].code = "redeemed"
    <3>1. GivenBack(k)' = FALSE
      BY <1>5 DEF GivenBack
    <3> QED BY <1>5, <3>1
  <2> QED BY <2>1, <2>2 DEF Shapes
<1>10. Tip'
  <2> SUFFICES ASSUME NEW g \in DOMAIN gifts', NEW h \in DOMAIN gifts', Root'[g] = Root'[h],
                      Childless(g)', Childless(h)'
               PROVE  g = h
    BY DEF Tip
  <2>1. \A x \in DOMAIN gifts : Childless(x)' => Childless(x) /\ k # ByCode(x) /\ k # ByFailure(x)
    BY DEF Childless, GivenBack
  <2>2. ASSUME NEW x \in DOMAIN gifts, Childless(x)', Root'[x] = Root'[k] PROVE FALSE
    <3>1. CASE k \in Grants
      BY <1>1, <1>3, <2>2, <3>1 DEF RootsIn
    <3>2. CASE k \notin Grants
      <4>1. PICK p \in DOMAIN gifts : Childless(p) /\ k \in {ByCode(p), ByFailure(p)}
        BY <3>2
      <4>2. k[2] = p
        BY <4>1, Keys
      <4>3. Root[x] = Root[p]
        BY <1>3, <2>2, <3>2, <4>2
      <4> QED BY <1>1, <2>1, <2>2, <4>1, <4>3 DEF Tip
    <3> QED BY <3>1, <3>2
  <2> QED BY <1>1, <1>3, <2>1, <2>2 DEF Tip
<1> QED BY <1>3, <1>4, <1>5, <1>6, <1>7, <1>8, <1>9, <1>10 DEF PathInv, GivenBack

-----------------------------------------------------------------------------
(* Of a family at most one can still be sent or is on its way. *)

Live(g) == Held(g) \/ Passing(g)
LettersOf(r) == Cardinality({g \in Family(r) : Sent(g)})
View(at, left, r) == [at |-> at, left |-> left, budget |-> gifts[r].budget, letters |-> LettersOf(r)]

OneLive == PathInv =>
    /\ \A g, h \in DOMAIN gifts : Root[g] = Root[h] /\ Live(g) /\ Live(h) => g = h
    /\ \A g \in DOMAIN gifts : /\ Live(g) => Childless(g)
                               /\ ~(Held(g) /\ Passing(g))
                               /\ Held(g) => ~Sent(g) /\ gifts[g].letter = "none"
                               /\ Passing(g) => Sent(g)

LEMMA OneLiveHolds == OneLive
<1> SUFFICES ASSUME PathInv
             PROVE  /\ \A g, h \in DOMAIN gifts :
                          Root[g] = Root[h] /\ Live(g) /\ Live(h) => g = h
                    /\ \A g \in DOMAIN gifts : /\ Live(g) => Childless(g)
                                               /\ ~(Held(g) /\ Passing(g))
                                               /\ Held(g) => ~Sent(g) /\ gifts[g].letter = "none"
                                               /\ Passing(g) => Sent(g)
  BY DEF OneLive
<1>1. ASSUME NEW g \in DOMAIN gifts
      PROVE  /\ Live(g) => Childless(g)
             /\ ~(Held(g) /\ Passing(g))
             /\ Held(g) => ~Sent(g) /\ gifts[g].letter = "none"
             /\ Passing(g) => Sent(g)
  <2>1. Shape(gifts[g], GivenBack(g)) /\ gifts[g] \in Gift
    BY DEF PathInv, Shapes
  <2>2. ByCode(g) \in DOMAIN gifts <=> gifts[g].code = "redeemed"
    BY DEF PathInv, Shapes
  <2> QED BY <2>1, <2>2 DEF Shape, Gift, Live, Childless, Held, Passing, Sent
<1>2. \A g, h \in DOMAIN gifts : Root[g] = Root[h] /\ Live(g) /\ Live(h) => g = h
  BY <1>1 DEF PathInv, Tip
<1> QED BY <1>1, <1>2

\* So the chain of a root is what that one makes of it.
Views == PathInv =>
    \A r \in Grants \cap DOMAIN gifts :
       /\ LettersOf(r) \in Nat
       /\ \A e \in DOMAIN gifts : Root[e] = r =>
             /\ Held(e) => ChainOf(r) = View("held", gifts[e].budget, r)
             /\ Passing(e) => ChainOf(r) = View("mailed", gifts[e].budget, r)
       /\ (\A e \in DOMAIN gifts : Root[e] = r => ~Live(e)) => ChainOf(r) = View("over", 0, r)

LEMMA ViewsHold == Views
<1> SUFFICES ASSUME PathInv, NEW r \in Grants \cap DOMAIN gifts
             PROVE  /\ LettersOf(r) \in Nat
                    /\ \A e \in DOMAIN gifts : Root[e] = r =>
                         /\ Held(e) => ChainOf(r) = View("held", gifts[e].budget, r)
                         /\ Passing(e) => ChainOf(r) = View("mailed", gifts[e].budget, r)
                    /\ (\A e \in DOMAIN gifts : Root[e] = r => ~Live(e))
                         => ChainOf(r) = View("over", 0, r)
  BY DEF Views
<1> DEFINE ends == {g \in Family(r) : Held(g) \/ Passing(g)}
<1>1. IsFiniteSet({g \in Family(r) : Sent(g)})
  <2>1. {g \in Family(r) : Sent(g)} \subseteq DOMAIN gifts
    BY DEF Family
  <2> QED BY <2>1, FS_Subset DEF PathInv
<1>2. LettersOf(r) \in Nat
  BY <1>1, FS_CardinalityType DEF LettersOf
<1>3. ChainOf(r) =
        [at |-> CASE ends = {} -> "over"
                  [] Cardinality(ends) > 1 -> "tree"
                  [] Cardinality(ends) = 1 /\ (\E g \in ends : Held(g)) -> "held"
                  [] OTHER -> "mailed",
         left |-> IF ends = {} THEN 0 ELSE gifts[CHOOSE g \in ends : TRUE].budget,
         budget |-> gifts[r].budget, letters |-> LettersOf(r)]
  BY DEF ChainOf, LettersOf
<1>4. ASSUME NEW e \in DOMAIN gifts, Root[e] = r, Live(e)
      PROVE  /\ Held(e) => ChainOf(r) = View("held", gifts[e].budget, r)
             /\ ~Held(e) => ChainOf(r) = View("mailed", gifts[e].budget, r)
  <2>1. ends = {e}
    BY <1>4, OneLiveHolds DEF OneLive, Family, Live
  <2>2. Cardinality(ends) = 1
    BY <2>1, FS_Singleton
  <2>3. (CHOOSE g \in ends : TRUE) = e
    BY <2>1
  <2>4. ends # {}
    BY <2>1
  <2>5. (\E g \in ends : Held(g)) <=> Held(e)
    BY <2>1
  <2> DEFINE at == CASE ends = {} -> "over"
                     [] Cardinality(ends) > 1 -> "tree"
                     [] Cardinality(ends) = 1 /\ (\E g \in ends : Held(g)) -> "held"
                     [] OTHER -> "mailed"
             left == IF ends = {} THEN 0 ELSE gifts[CHOOSE g \in ends : TRUE].budget
  <2>6. at = IF Held(e) THEN "held" ELSE "mailed"
    <3> HIDE DEF ends
    <3>1. ~(Cardinality(ends) > 1)
      BY <2>2
    <3> QED BY <2>2, <2>4, <2>5, <3>1
  <2>7. left = gifts[e].budget
    BY <2>3, <2>4
  <2>8. ChainOf(r) = View(at, left, r)
    BY <1>3 DEF View
  <2> HIDE DEF at, left
  <2> QED BY <2>6, <2>7, <2>8
<1>5. (\A e \in DOMAIN gifts : Root[e] = r => ~Live(e)) => ChainOf(r) = View("over", 0, r)
  <2> SUFFICES ASSUME \A e \in DOMAIN gifts : Root[e] = r => ~Live(e)
               PROVE  ChainOf(r) = View("over", 0, r)
    OBVIOUS
  <2>1. ends = {}
    BY DEF Family, Live
  <2> DEFINE at == CASE ends = {} -> "over"
                     [] Cardinality(ends) > 1 -> "tree"
                     [] Cardinality(ends) = 1 /\ (\E g \in ends : Held(g)) -> "held"
                     [] OTHER -> "mailed"
             left == IF ends = {} THEN 0 ELSE gifts[CHOOSE g \in ends : TRUE].budget
  <2>2. at = "over"
    <3>1. Cardinality(ends) = 0
      BY <2>1, FS_EmptySet
    <3> HIDE DEF ends
    <3> QED BY <2>1, <3>1
  <2>3. left = 0
    BY <2>1
  <2>4. ChainOf(r) = View(at, left, r)
    BY <1>3 DEF View
  <2> HIDE DEF at, left
  <2> QED BY <2>2, <2>3, <2>4
<1> QED BY <1>2, <1>4, <1>5, OneLiveHolds DEF Live, OneLive

NotStarted == [at |-> "none", left |-> 0, budget |-> 0, letters |-> 0]

ChainsTyped == PathInv => [r \in Grants |-> ChainOf(r)] \in [Grants -> Path!Chain]

LEMMA ChainsAreTyped == ChainsTyped
<1> SUFFICES ASSUME PathInv, NEW r \in Grants PROVE ChainOf(r) \in Path!Chain
  BY DEF ChainsTyped
<1>1. CASE r \notin DOMAIN gifts
  BY <1>1 DEF ChainOf, Path!Chain
<1>2. CASE r \in DOMAIN gifts
  <2>1. /\ LettersOf(r) \in Nat
        /\ \A e \in DOMAIN gifts : gifts[e].budget \in Nat
    BY <1>2, ViewsHold DEF Views, PathInv, Shapes, Gift
  <2>2. \A at \in {"held", "mailed", "over"}, left \in Nat : View(at, left, r) \in Path!Chain
    BY <1>2, <2>1 DEF View, Path!Chain
  <2>3. \/ \E e \in DOMAIN gifts : Root[e] = r /\ Live(e)
        \/ ChainOf(r) = View("over", 0, r)
    BY <1>2, ViewsHold DEF Views
  <2> QED BY <1>2, <2>1, <2>2, <2>3, ViewsHold DEF Views, Live
<1> QED BY <1>1, <1>2

-----------------------------------------------------------------------------
(* Each step moves each chain by at most one step of GiftChain. *)

Moves(r) == ChainOf(r)' = ChainOf(r) \/ Path!Step(ChainOf(r), ChainOf(r)')

\* What a step leaves as it was of a gift letter, as its chain sees it.
SameGift(g) ==
    /\ gifts'[g].budget = gifts[g].budget
    /\ Held(g)' <=> Held(g)
    /\ Passing(g)' <=> Passing(g)
    /\ Sent(g)' <=> Sent(g)

InFamily(g, r) == g \in DOMAIN gifts /\ Root[g] = r

LEMMA LettersByFamily ==
    ASSUME NEW r, NEW S, \A g : InFamily(g, r)' /\ Sent(g)' <=> g \in S
    PROVE  LettersOf(r)' = Cardinality(S)
<1>1. {g \in Family(r) : Sent(g)}' = S
  BY DEF InFamily, Family
<1>2. LettersOf(r)' = Cardinality({g \in Family(r) : Sent(g)}')
  BY DEF LettersOf
<1> QED BY <1>1, <1>2

LEMMA SameLetters ==
    ASSUME NEW r, \A g : InFamily(g, r)' /\ Sent(g)' <=> InFamily(g, r) /\ Sent(g)
    PROVE  LettersOf(r)' = LettersOf(r)
<1> DEFINE S == {g \in Family(r) : Sent(g)}
<1>1. \A g : InFamily(g, r)' /\ Sent(g)' <=> g \in S
  BY DEF InFamily, Family
<1>2. LettersOf(r) = Cardinality(S)
  BY DEF LettersOf
<1> HIDE DEF S
<1> QED BY <1>1, <1>2, LettersByFamily

\* A family none of whose gift letters the step touches.
LEMMA SameChain ==
    ASSUME PathInv, PathInv', NEW r \in Grants \cap DOMAIN gifts, r \in DOMAIN gifts',
           gifts'[r].budget = gifts[r].budget,
           \A g : InFamily(g, r)' <=> InFamily(g, r),
           \A g : InFamily(g, r) => SameGift(g)
    PROVE  Moves(r)
<1>1. LettersOf(r)' = LettersOf(r)
  BY SameLetters DEF SameGift
<1>2. Views /\ Views'
  BY ViewsHold, PTL
<1>3. \A at, left : View(at, left, r)' = View(at, left, r)
  BY <1>1 DEF View
<1>4. CASE \E e : InFamily(e, r) /\ Live(e)
  <2>1. PICK e : InFamily(e, r) /\ InFamily(e, r)' /\ SameGift(e) /\ Live(e)
    BY <1>4
  <2>2. CASE Held(e)
    <3>1. ChainOf(r) = View("held", gifts[e].budget, r)
      BY <1>2, <2>1, <2>2 DEF Views, InFamily
    <3>2. ChainOf(r)' = View("held", gifts[e].budget, r)'
      BY <1>2, <2>1, <2>2 DEF Views, InFamily, SameGift
    <3> QED BY <1>3, <2>1, <3>1, <3>2 DEF Moves, SameGift, View
  <2>3. CASE Passing(e)
    <3>1. ChainOf(r) = View("mailed", gifts[e].budget, r)
      BY <1>2, <2>1, <2>3 DEF Views, InFamily
    <3>2. ChainOf(r)' = View("mailed", gifts[e].budget, r)'
      BY <1>2, <2>1, <2>3 DEF Views, InFamily, SameGift
    <3> QED BY <1>3, <2>1, <3>1, <3>2 DEF Moves, SameGift, View
  <2> QED BY <2>1, <2>2, <2>3 DEF Live
<1>5. CASE ~\E e : InFamily(e, r) /\ Live(e)
  <2>1. \A e : InFamily(e, r)' => ~Live(e)'
    BY <1>5 DEF SameGift, Live
  <2>2. ChainOf(r) = View("over", 0, r)
    BY <1>2, <1>5 DEF Views, InFamily
  <2>3. ChainOf(r)' = View("over", 0, r)'
    BY <1>2, <2>1 DEF Views, InFamily
  <2> QED BY <1>3, <2>2, <2>3 DEF Moves
<1> QED BY <1>4, <1>5

LEMMA NoChain ==
    ASSUME NEW r \in Grants, r \notin DOMAIN gifts, r \notin DOMAIN gifts'
    PROVE  Moves(r)
BY DEF Moves, ChainOf

\* The gift letter that was held is mailed.
MailsGift(g) == /\ Held(g) /\ Passing(g)' /\ gifts'[g].budget = gifts[g].budget
\* What could be sent or was on its way cannot go on.
EndsGift(g) == /\ Live(g) /\ ~Live(g)'
               /\ Sent(g)' <=> Sent(g)
               /\ gifts'[g].budget = gifts[g].budget

\* A step that grants none.
LEMMA TurnsMove ==
    ASSUME PathInv, PathInv', DOMAIN gifts' = DOMAIN gifts, Root' = Root,
           \A g \in DOMAIN gifts : SameGift(g) \/ MailsGift(g) \/ EndsGift(g)
    PROVE  \A r \in Grants : Moves(r)
<1> SUFFICES ASSUME NEW r \in Grants PROVE Moves(r)
  OBVIOUS
<1>1. CASE r \notin DOMAIN gifts
  BY <1>1, NoChain
<1>2. CASE r \in DOMAIN gifts
  <2>1. \A g : InFamily(g, r)' <=> InFamily(g, r)
    BY DEF InFamily
  <2>2. gifts'[r].budget = gifts[r].budget
    BY <1>2 DEF SameGift, MailsGift, EndsGift
  <2>3. CASE \A g : InFamily(g, r) => SameGift(g)
    BY <1>2, <2>1, <2>2, <2>3, SameChain
  <2>4. CASE \E g : InFamily(g, r) /\ ~SameGift(g)
    <3>1. PICK e : InFamily(e, r) /\ (MailsGift(e) \/ EndsGift(e)) /\ Live(e)
      BY <2>4 DEF InFamily, MailsGift, Live, EndsGift
    <3>2. OneLive /\ OneLive' /\ Views /\ Views'
      BY OneLiveHolds, ViewsHold, PTL
    <3>3. \A g : InFamily(g, r) /\ g # e => SameGift(g)
      BY <3>1, <3>2 DEF OneLive, InFamily, MailsGift, EndsGift, Live
    <3>4. LettersOf(r) \in Nat /\ gifts[e].budget \in Nat
      BY <1>2, <3>1, <3>2 DEF Views, PathInv, Shapes, Gift, InFamily
    <3>5. CASE MailsGift(e)
      <4>1. Sent(e)' /\ ~Sent(e)
        BY <2>1, <3>1, <3>2, <3>5 DEF OneLive, MailsGift, InFamily
      <4> DEFINE S == {g \in Family(r) : Sent(g)}
      <4>2. IsFiniteSet(S) /\ e \notin S /\ LettersOf(r) = Cardinality(S)
        <5>1. S \subseteq DOMAIN gifts
          BY DEF Family
        <5> QED BY <4>1, <5>1, FS_Subset DEF PathInv, LettersOf
      <4>3. \A g : InFamily(g, r)' /\ Sent(g)' <=> g \in S \cup {e}
        BY <2>1, <3>1, <3>3, <4>1 DEF InFamily, Family, SameGift
      <4>4. LettersOf(r)' = Cardinality(S \cup {e})
        <5> HIDE DEF S
        <5> QED BY <4>3, LettersByFamily
      <4>5. LettersOf(r)' = LettersOf(r) + 1
        <5> HIDE DEF S
        <5> QED BY <4>2, <4>4, FS_AddElement
      <4>6. ChainOf(r) = View("held", gifts[e].budget, r)
        BY <1>2, <3>1, <3>2, <3>5 DEF Views, InFamily, MailsGift
      <4>7. ChainOf(r)' = View("mailed", gifts[e].budget, r)'
        BY <1>2, <2>1, <3>1, <3>2, <3>5 DEF Views, InFamily, MailsGift
      <4>8. Path!Mail(ChainOf(r), ChainOf(r)')
        BY <2>2, <3>5, <4>5, <4>6, <4>7 DEF Path!Mail, View, MailsGift
      <4> QED BY <4>8 DEF Moves, Path!Step
    <3>6. CASE EndsGift(e)
      <4>1. LettersOf(r)' = LettersOf(r)
        BY <2>1, <3>1, <3>3, <3>6, SameLetters DEF SameGift, EndsGift
      <4>2. \A g : InFamily(g, r)' => ~Live(g)'
        BY <2>1, <3>1, <3>2, <3>3, <3>6 DEF OneLive, InFamily, EndsGift, SameGift, Live
      <4>3. ChainOf(r)' = View("over", 0, r)'
        BY <1>2, <3>2, <4>2 DEF Views, InFamily
      <4>4. \/ ChainOf(r) = View("held", gifts[e].budget, r)
            \/ ChainOf(r) = View("mailed", gifts[e].budget, r)
        BY <1>2, <3>1, <3>2 DEF Views, InFamily, Live
      <4>5. Path!End(ChainOf(r), ChainOf(r)')
        BY <2>2, <4>1, <4>3, <4>4 DEF Path!End, View
      <4> QED BY <4>5 DEF Moves, Path!Step
    <3> QED BY <3>1, <3>5, <3>6
  <2> QED BY <2>3, <2>4
<1> QED BY <1>1, <1>2

\* A new grant starts its chain.
LEMMA RootMoves ==
    ASSUME PathInv, PathInv', NEW k \in Grants, k \notin DOMAIN gifts,
           DOMAIN gifts' = DOMAIN gifts \cup {k}, Root'[k] = k, Held(k)',
           \A g \in DOMAIN gifts : Root'[g] = Root[g] /\ SameGift(g)
    PROVE  \A r \in Grants : Moves(r)
<1>1. ASSUME NEW r \in Grants \ {k} PROVE Moves(r)
  <2>1. \A g : InFamily(g, r)' <=> InFamily(g, r)
    BY DEF InFamily
  <2>2. CASE r \in DOMAIN gifts
    <3>1. gifts'[r].budget = gifts[r].budget /\ r \in DOMAIN gifts'
      BY <2>2 DEF SameGift
    <3>2. \A g : InFamily(g, r) => SameGift(g)
      BY DEF InFamily
    <3> QED BY <2>1, <2>2, <3>1, <3>2, SameChain
  <2>3. CASE r \notin DOMAIN gifts
    BY <2>3, NoChain
  <2> QED BY <2>2, <2>3
<1>2. Moves(k)
  <2>1. OneLive' /\ Views'
    BY OneLiveHolds, ViewsHold, PTL
  <2>2. \A g : InFamily(g, k)' => g = k
    BY DEF InFamily, PathInv, RootsIn
  <2>3. ~Sent(k)'
    BY <2>1 DEF OneLive
  <2>4. LettersOf(k)' = Cardinality({})
    BY <2>2, <2>3, LettersByFamily
  <2>5. LettersOf(k)' = 0
    BY <2>4, FS_EmptySet
  <2>6. ChainOf(k) = NotStarted
    BY DEF ChainOf, NotStarted
  <2>7. ChainOf(k)' = View("held", gifts[k].budget, k)'
    BY <2>1 DEF Views
  <2>8. Path!Grant(ChainOf(k), ChainOf(k)')
    BY <2>5, <2>6, <2>7 DEF Path!Grant, View, NotStarted
  <2> QED BY <2>8 DEF Moves, Path!Step
<1> QED BY <1>1, <1>2

\* The letter of p was passed on, or its gift letter given back: k is what p became.
LEMMA ChildMoves ==
    ASSUME PathInv, PathInv', NEW p \in DOMAIN gifts, NEW k, k \notin DOMAIN gifts, k \notin Grants,
           DOMAIN gifts' = DOMAIN gifts \cup {k}, Root'[k] = Root[p], Held(k)',
           \A g \in DOMAIN gifts : /\ Root'[g] = Root[g]
                                   /\ g # p => SameGift(g)
                                   /\ gifts'[g].budget = gifts[g].budget,
           Passing(p),
           \/ /\ Sent(p)' /\ gifts[p].budget > 0 /\ gifts'[k].budget = gifts[p].budget - 1
           \/ /\ ~Sent(p)' /\ gifts'[k].budget = gifts[p].budget
    PROVE  \A r \in Grants : Moves(r)
<1> SUFFICES ASSUME NEW r \in Grants PROVE Moves(r)
  OBVIOUS
<1>1. CASE r \notin DOMAIN gifts
  BY <1>1, NoChain
<1>2. CASE r \in DOMAIN gifts /\ r # Root[p]
  <2>1. \A g : InFamily(g, r)' <=> InFamily(g, r)
    BY <1>2 DEF InFamily
  <2>2. \A g : InFamily(g, r) => SameGift(g)
    BY <1>2 DEF InFamily
  <2> QED BY <1>2, <2>1, <2>2, SameChain
<1>3. CASE r \in DOMAIN gifts /\ r = Root[p]
  <2>1. /\ OneLive' /\ Views' /\ OneLive /\ Views
    BY OneLiveHolds, ViewsHold, PTL
  <2>2. ~Sent(k)' /\ Sent(p)
    BY <2>1 DEF OneLive
  <2>3. \A g : InFamily(g, r)' <=> InFamily(g, r) \/ g = k
    BY <1>3 DEF InFamily
  <2>4. ChainOf(r) = View("mailed", gifts[p].budget, r)
    BY <1>3, <2>1 DEF Views
  <2>5. ChainOf(r)' = View("held", gifts[k].budget, r)'
    BY <1>3, <2>1 DEF Views
  <2>6. gifts[p].budget \in Nat /\ LettersOf(r) \in Nat /\ gifts'[r].budget = gifts[r].budget
    BY <1>3, <2>1 DEF Views, PathInv, Shapes, Gift
  <2>7. InFamily(p, r) /\ ~InFamily(k, r)
    BY <1>3 DEF InFamily
  <2>8. CASE /\ Sent(p)' /\ gifts[p].budget > 0 /\ gifts'[k].budget = gifts[p].budget - 1
    <3>1. LettersOf(r)' = LettersOf(r)
      <4>1. \A g : InFamily(g, r)' /\ Sent(g)' <=> InFamily(g, r) /\ Sent(g)
        <5>1. \A g : InFamily(g, r) => (Sent(g)' <=> Sent(g))
          BY <2>2, <2>8 DEF InFamily, SameGift
        <5> QED BY <2>2, <2>3, <2>7, <5>1
      <4> QED BY <4>1, SameLetters
    <3>2. Path!Redeem(ChainOf(r), ChainOf(r)')
      BY <2>4, <2>5, <2>6, <2>8, <3>1 DEF Path!Redeem, View
    <3> QED BY <3>2 DEF Moves, Path!Step
  <2>9. CASE /\ ~Sent(p)' /\ gifts'[k].budget = gifts[p].budget
    <3> DEFINE S == {g \in Family(r) : Sent(g)}
    <3>1. IsFiniteSet(S) /\ p \in S /\ LettersOf(r) = Cardinality(S)
      <4>1. S \subseteq DOMAIN gifts
        BY DEF Family
      <4> QED BY <1>3, <2>2, <4>1, FS_Subset DEF PathInv, LettersOf, Family
    <3>2. \A g : InFamily(g, r)' /\ Sent(g)' <=> g \in S \ {p}
      <4>1. \A g : InFamily(g, r) /\ g # p => (Sent(g)' <=> Sent(g))
        BY DEF InFamily, SameGift
      <4>2. \A g : g \in S <=> InFamily(g, r) /\ Sent(g)
        BY DEF InFamily, Family
      <4> HIDE DEF S
      <4> QED BY <2>2, <2>3, <2>7, <2>9, <4>1, <4>2
    <3>3. LettersOf(r)' = Cardinality(S \ {p})
      <4> HIDE DEF S
      <4> QED BY <3>2, LettersByFamily
    <3>4. LettersOf(r)' = LettersOf(r) - 1 /\ LettersOf(r) > 0
      <4> HIDE DEF S
      <4>1. Cardinality(S) # 0
        BY <3>1, FS_EmptySet
      <4>2. Cardinality(S \ {p}) = Cardinality(S) - 1
        BY <3>1, FS_RemoveElement
      <4> QED BY <2>6, <3>1, <3>3, <4>1, <4>2
    <3>5. Path!GiveBack(ChainOf(r), ChainOf(r)')
      BY <2>4, <2>5, <2>6, <2>9, <3>4 DEF Path!GiveBack, View
    <3> QED BY <3>5 DEF Moves, Path!Step
  <2> QED BY <2>8, <2>9
<1> QED BY <1>1, <1>2, <1>3

-----------------------------------------------------------------------------
(* What the steps make of a gift letter, x before and y after. *)

RowHeld(x) == x.status = "available"
RowPassing(x, back) ==
    x.letter = "mailed" /\ (x.code = "issued" \/ (x.code # "redeemed" /\ ~back /\ ~x.reversed))
RowSent(x, back) == x.status = "consumed" /\ ~back
RowLive(x, back) == RowHeld(x) \/ RowPassing(x, back)

Turn(x, y, back) ==
    /\ y \in Gift /\ y.budget = x.budget /\ Shape(y, back)
    /\ y.code = "redeemed" <=> x.code = "redeemed"
    /\ \/ /\ RowHeld(y) <=> RowHeld(x)
          /\ RowPassing(y, back) <=> RowPassing(x, back)
          /\ RowSent(y, back) <=> RowSent(x, back)
       \/ RowHeld(x) /\ RowPassing(y, back)
       \/ /\ RowLive(x, back) /\ ~RowLive(y, back)
          /\ RowSent(y, back) <=> RowSent(x, back)

LEMMA RowsTurn ==
    ASSUME PathInv, DOMAIN gifts' = DOMAIN gifts,
           \A g \in DOMAIN gifts : Turn(gifts[g], gifts'[g], GivenBack(g))
    PROVE  PathInv' /\ \A r \in Grants : Moves(r)
<1>1. PathInv' /\ Root' = Root /\ \A g : GivenBack(g)' <=> GivenBack(g)
  BY PathTurns DEF Turn
<1>2. ASSUME NEW g \in DOMAIN gifts PROVE SameGift(g) \/ MailsGift(g) \/ EndsGift(g)
  <2>1. Turn(gifts[g], gifts'[g], GivenBack(g)) /\ (GivenBack(g)' <=> GivenBack(g))
    BY <1>1
  <2>2. /\ Held(g) <=> RowHeld(gifts[g])
        /\ Passing(g) <=> RowPassing(gifts[g], GivenBack(g))
        /\ Sent(g) <=> RowSent(gifts[g], GivenBack(g))
    BY DEF Held, Passing, Sent, RowHeld, RowPassing, RowSent, Compensated
  <2>3. /\ Held(g)' <=> RowHeld(gifts'[g])
        /\ Passing(g)' <=> RowPassing(gifts'[g], GivenBack(g))
        /\ Sent(g)' <=> RowSent(gifts'[g], GivenBack(g))
    BY <2>1 DEF Held, Passing, Sent, RowHeld, RowPassing, RowSent, Compensated
  <2> QED BY <2>1, <2>2, <2>3 DEF Turn, SameGift, MailsGift, EndsGift, Live, RowLive
<1> QED BY <1>1, <1>2, TurnsMove

LEMMA RowStays ==
    ASSUME PathInv, NEW g \in DOMAIN gifts PROVE Turn(gifts[g], gifts[g], GivenBack(g))
BY DEF PathInv, Shapes, Turn

\* The gift letters there are, of which g becomes y.
LEMMA OneTurns ==
    ASSUME PathInv, NEW g \in DOMAIN gifts, NEW y, Turn(gifts[g], y, GivenBack(g)),
           gifts' = [gifts EXCEPT ![g] = y]
    PROVE  PathInv' /\ \A r \in Grants : Moves(r)
<1>1. \A h \in DOMAIN gifts : Turn(gifts[h], gifts'[h], GivenBack(h))
  <2> TAKE h \in DOMAIN gifts
  <2>1. CASE h = g
    BY <2>1
  <2>2. CASE h # g
    <3>1. gifts'[h] = gifts[h]
      BY <2>2
    <3> QED BY <3>1, RowStays
  <2> QED BY <2>1, <2>2
<1> QED BY <1>1, RowsTurn

LEMMA SendsGiftMoves ==
    ASSUME PathInv, NEW g \in DOMAIN gifts, NEW heldPast \in BOOLEAN, SendsGift(g, heldPast)
    PROVE  PathInv' /\ \A r \in Grants : Moves(r)
<1>1. PICK c \in {"none", "issued"} :
        c = IF ~SeedPrints(gifts[g].card, heldPast) /\ gifts[g].budget > 0 THEN "issued" ELSE "none"
  OBVIOUS
<1> DEFINE y == [gifts[g] EXCEPT !.status = "consumed", !.letter = "mailed", !.code = c]
<1>2. gifts[g] \in Gift /\ Shape(gifts[g], GivenBack(g)) /\ gifts[g].status = "available"
  BY DEF PathInv, Shapes, SendsGift
<1>3. gifts' = [gifts EXCEPT ![g] = y]
  BY <1>1, <1>2 DEF SendsGift, Gift
<1>4. /\ y \in Gift /\ y.status = "consumed" /\ y.letter = "mailed" /\ y.code = c
      /\ y.budget = gifts[g].budget /\ y.reversed = gifts[g].reversed
  BY <1>1, <1>2 DEF Gift
<1> HIDE DEF y
<1>5. Turn(gifts[g], y, GivenBack(g))
  BY <1>1, <1>2, <1>4 DEF Turn, Shape, RowHeld, RowPassing
<1> QED BY <1>3, <1>5, OneTurns

LEMMA ResendsMoves ==
    ASSUME PathInv, NEW g \in DOMAIN gifts, Resends(g)
    PROVE  PathInv' /\ \A r \in Grants : Moves(r)
<1> DEFINE y == [gifts[g] EXCEPT !.letter = "mailed"]
<1>1. /\ gifts[g] \in Gift /\ Shape(gifts[g], GivenBack(g)) /\ gifts[g].letter = "failed"
      /\ ~GivenBack(g) /\ ~gifts[g].reversed
  BY DEF PathInv, Shapes, Resends, Compensated
<1>2. gifts' = [gifts EXCEPT ![g] = y]
  BY <1>1 DEF Resends, Gift
<1>3. /\ y \in Gift /\ y.status = gifts[g].status /\ y.letter = "mailed" /\ y.code = gifts[g].code
      /\ y.budget = gifts[g].budget /\ y.reversed = gifts[g].reversed
  BY <1>1 DEF Gift
<1> HIDE DEF y
<1>4. Turn(gifts[g], y, GivenBack(g))
  BY <1>1, <1>3 DEF Turn, Shape, RowHeld, RowPassing, RowSent
<1> QED BY <1>2, <1>4, OneTurns

LEMMA CodeEndsMoves ==
    ASSUME PathInv, NEW g \in DOMAIN gifts, CodeEnds(g)
    PROVE  PathInv' /\ \A r \in Grants : Moves(r)
<1> DEFINE y == [gifts[g] EXCEPT !.code = "void"]
<1>1. /\ gifts[g] \in Gift /\ Shape(gifts[g], GivenBack(g)) /\ gifts[g].code = "issued"
      /\ gifts' = [gifts EXCEPT ![g].code = "void"]
  BY DEF PathInv, Shapes, CodeEnds
<1>2. gifts' = [gifts EXCEPT ![g] = y]
  BY <1>1 DEF Gift
<1>3. /\ y \in Gift /\ y.status = gifts[g].status /\ y.letter = gifts[g].letter /\ y.code = "void"
      /\ y.budget = gifts[g].budget /\ y.reversed = gifts[g].reversed
  BY <1>1 DEF Gift
<1> HIDE DEF y
<1>4. Turn(gifts[g], y, GivenBack(g))
  BY <1>1, <1>3 DEF Turn, Shape, RowHeld, RowPassing, RowSent, RowLive
<1> QED BY <1>2, <1>4, OneTurns

LEMMA GiftLapsesMoves ==
    ASSUME PathInv, NEW g \in DOMAIN gifts, GiftLapses(g)
    PROVE  PathInv' /\ \A r \in Grants : Moves(r)
<1> DEFINE y == [gifts[g] EXCEPT !.status = "expired"]
<1>1. /\ gifts[g] \in Gift /\ Shape(gifts[g], GivenBack(g)) /\ gifts[g].status = "available"
      /\ gifts' = [gifts EXCEPT ![g].status = "expired"]
  BY DEF PathInv, Shapes, GiftLapses
<1>2. gifts' = [gifts EXCEPT ![g] = y]
  BY <1>1 DEF Gift
<1>3. /\ y \in Gift /\ y.status = "expired" /\ y.letter = gifts[g].letter /\ y.code = gifts[g].code
      /\ y.budget = gifts[g].budget /\ y.reversed = gifts[g].reversed
  BY <1>1 DEF Gift
<1> HIDE DEF y
<1>4. Turn(gifts[g], y, GivenBack(g))
  BY <1>1, <1>3 DEF Turn, Shape, RowHeld, RowPassing, RowSent, RowLive
<1> QED BY <1>2, <1>4, OneTurns

LEMMA TakenBackTurns ==
    ASSUME NEW x \in Gift, NEW back \in BOOLEAN, Shape(x, back), NEW cause
    PROVE  Turn(x, TakenBack(x, cause), back)
<1> DEFINE status == IF x.status = "available" THEN "revoked" ELSE x.status
           code == IF cause = "disputed" /\ x.code = "issued" THEN "void" ELSE x.code
           taken == x.reversed \/ x.status = "consumed"
           y == TakenBack(x, cause)
<1>1. /\ status \in {"consumed", "expired", "revoked"} /\ taken \in BOOLEAN
      /\ code \in {"none", "issued", "redeemed", "void"}
  BY DEF Gift
<1>2. y = [x EXCEPT !.status = status, !.reversed = taken, !.code = code]
  BY <1>1 DEF TakenBack, Gift
<1> HIDE DEF y
<1>3. /\ y \in Gift /\ y.status = status /\ y.code = code /\ y.reversed = taken
      /\ y.letter = x.letter /\ y.budget = x.budget
  <2> HIDE DEF status, code, taken
  <2> QED BY <1>1, <1>2 DEF Gift
<1>4. Shape(y, back)
  BY <1>3 DEF Shape
<1>7. y.code = "redeemed" <=> x.code = "redeemed"
  BY <1>3
<1>5. ASSUME x.status = "available" PROVE Turn(x, y, back)
  <2>1. RowLive(x, back) /\ ~RowLive(y, back) /\ ~RowSent(x, back) /\ ~RowSent(y, back)
    BY <1>3, <1>5 DEF Shape, RowLive, RowHeld, RowPassing, RowSent
  <2> QED BY <1>3, <1>4, <1>7, <2>1 DEF Turn
<1>6. ASSUME x.status # "available" PROVE Turn(x, y, back)
  <2>1. /\ RowHeld(x) = FALSE /\ RowHeld(y) = FALSE
        /\ RowSent(y, back) <=> RowSent(x, back)
        /\ RowPassing(y, back) => RowPassing(x, back)
    BY <1>3, <1>6 DEF Shape, RowHeld, RowPassing, RowSent
  <2> QED BY <1>3, <1>4, <1>7, <2>1 DEF Turn, RowLive
<1> QED BY <1>5, <1>6 DEF y

LEMMA ReversesPackMoves ==
    ASSUME PathInv, NEW o \in Orders, NEW cause \in {"refunded", "disputed"}, ReversesPack(o, cause)
    PROVE  PathInv' /\ \A r \in Grants : Moves(r)
<1>1. /\ DOMAIN gifts' = DOMAIN gifts
      /\ \A g \in DOMAIN gifts :
           gifts'[g] = IF gifts[g].order = o THEN TakenBack(gifts[g], cause) ELSE gifts[g]
  BY DEF ReversesPack
<1>2. \A g \in DOMAIN gifts : Turn(gifts[g], TakenBack(gifts[g], cause), GivenBack(g))
  <2> TAKE g \in DOMAIN gifts
  <2>1. GivenBack(g) \in BOOLEAN
    BY DEF GivenBack
  <2>2. gifts[g] \in Gift /\ Shape(gifts[g], GivenBack(g))
    BY DEF PathInv, Shapes
  <2> QED BY <2>1, <2>2, TakenBackTurns
<1>3. \A g \in DOMAIN gifts : Turn(gifts[g], gifts'[g], GivenBack(g))
  BY <1>1, <1>2, RowStays
<1> QED BY <1>1, <1>3, RowsTurn

-----------------------------------------------------------------------------
(* Steps that grant a gift letter. *)

\* The gift letters are rows and a new one, k, which its owner holds.
AddsGift(rows, k, budget) ==
    /\ DOMAIN gifts' = DOMAIN rows \cup {k}
    /\ \A g \in DOMAIN rows : gifts'[g] = rows[g]
    /\ gifts'[k] \in Gift /\ gifts'[k].budget = budget /\ Held(k)'
    /\ Shape(gifts'[k], FALSE) /\ gifts'[k].code # "redeemed"

LEMMA GrantedRow ==
    ASSUME NEW rows, NEW k, k \notin DOMAIN rows, NEW a \in Accounts, NEW budget \in Nat,
           NEW order \in Orders \cup {None}, NEW card \in Campaigns \cup {None},
           gifts' = Granted(rows, k, a, budget, order, card)
    PROVE  AddsGift(rows, k, budget)
<1> DEFINE x == [owner |-> a, budget |-> budget, order |-> order, card |-> card,
                 status |-> "available", reversed |-> FALSE, letter |-> "none", code |-> "none"]
<1>1. gifts' = [h \in DOMAIN rows \cup {k} |-> IF h \in DOMAIN rows THEN rows[h] ELSE x]
  BY DEF Granted
<1>2. x \in Gift
  BY DEF Gift
<1>3. /\ x.budget = budget /\ x.status = "available" /\ x.reversed = FALSE
      /\ x.letter = "none" /\ x.code = "none"
  OBVIOUS
<1> HIDE DEF x
<1>4. /\ DOMAIN gifts' = DOMAIN rows \cup {k} /\ gifts'[k] = x
      /\ \A g \in DOMAIN rows : gifts'[g] = rows[g]
  BY <1>1
<1> QED BY <1>2, <1>3, <1>4 DEF AddsGift, Held, Shape

\* What the money of a pack, an operator or a campaign grants.
LEMMA NewGrantMoves ==
    ASSUME PathInv, NEW k \in Grants, k \notin DOMAIN gifts, NEW a \in Accounts, NEW budget \in Nat,
           NEW order \in Orders \cup {None}, NEW card \in Campaigns \cup {None},
           gifts' = Granted(gifts, k, a, budget, order, card)
    PROVE  /\ PathInv' /\ DOMAIN gifts' = DOMAIN gifts \cup {k}
           /\ \A r \in Grants : Moves(r)
<1>1. /\ DOMAIN gifts' = DOMAIN gifts \cup {k} /\ \A g \in DOMAIN gifts : gifts'[g] = gifts[g]
      /\ gifts'[k] \in Gift /\ Held(k)' /\ Shape(gifts'[k], FALSE) /\ gifts'[k].code # "redeemed"
  <2>1. AddsGift(gifts, k, budget)
    BY GrantedRow
  <2> QED BY <2>1 DEF AddsGift
<1>2. \A g : k # ByCode(g) /\ k # ByFailure(g)
  BY Keys
<1>3. \A g \in DOMAIN gifts :
        /\ gifts'[g] \in Gift /\ Shape(gifts'[g], GivenBack(g) \/ k = ByFailure(g))
        /\ gifts'[g].code = "redeemed" <=> gifts[g].code = "redeemed" \/ k = ByCode(g)
  <2> TAKE g \in DOMAIN gifts
  <2>1. gifts[g] \in Gift /\ Shape(gifts[g], GivenBack(g))
    BY DEF PathInv, Shapes
  <2> QED BY <1>1, <1>2, <2>1 DEF Shape
<1>4. /\ PathInv' /\ Root'[k] = k
      /\ \A g \in DOMAIN gifts : Root'[g] = Root[g] /\ (GivenBack(g)' <=> GivenBack(g))
  <2>1. \A g \in DOMAIN gifts : GivenBack(g)' <=> GivenBack(g) \/ k = ByFailure(g)
    BY <1>1, <1>3, PathGrows
  <2>2. PathInv' /\ Root'[k] = k /\ \A g \in DOMAIN gifts : Root'[g] = Root[g]
    BY <1>1, <1>3, PathGrows
  <2> QED BY <1>2, <2>1, <2>2
<1>5. \A g \in DOMAIN gifts : SameGift(g)
  BY <1>1, <1>4 DEF SameGift, Held, Passing, Sent, Compensated
<1> QED BY <1>1, <1>4, <1>5, RootMoves

\* What a letter under way becomes: its code is redeemed, or the letter was not sent.
LEMMA ChildGrantMoves ==
    ASSUME PathInv, NEW p \in DOMAIN gifts, NEW k \in {ByCode(p), ByFailure(p)}, Passing(p),
           NEW back \in BOOLEAN, back <=> k = ByFailure(p),
           NEW y \in Gift, Shape(y, back), y.code = "redeemed" <=> k = ByCode(p),
           y.budget = gifts[p].budget, y.status = "consumed",
           NEW a \in Accounts, NEW budget \in Nat,
           NEW order \in Orders \cup {None}, NEW card \in Campaigns \cup {None},
           gifts' = Granted([gifts EXCEPT ![p] = y], k, a, budget, order, card),
           k = ByCode(p) => gifts[p].budget > 0 /\ budget = gifts[p].budget - 1,
           k = ByFailure(p) => budget = gifts[p].budget
    PROVE  /\ PathInv' /\ DOMAIN gifts' = DOMAIN gifts \cup {k}
           /\ \A r \in Grants : Moves(r)
<1> DEFINE rows == [gifts EXCEPT ![p] = y]
<1>1. DOMAIN rows = DOMAIN gifts /\ rows[p] = y /\ \A g \in DOMAIN gifts \ {p} : rows[g] = gifts[g]
  OBVIOUS
<1>2. Childless(p) /\ gifts[p].code # "redeemed"
  BY OneLiveHolds DEF OneLive, Live, Passing, Childless, PathInv, Shapes
<1>3. k \notin DOMAIN gifts /\ k \notin Grants /\ k[2] = p /\ ~GivenBack(p)
  BY <1>2, Keys DEF Childless, GivenBack
<1> HIDE DEF rows
<1>4. /\ DOMAIN gifts' = DOMAIN gifts \cup {k} /\ gifts'[p] = y
      /\ \A g \in DOMAIN gifts \ {p} : gifts'[g] = gifts[g]
      /\ gifts'[k] \in Gift /\ gifts'[k].budget = budget /\ Held(k)'
      /\ Shape(gifts'[k], FALSE) /\ gifts'[k].code # "redeemed"
  <2>1. gifts' = Granted(rows, k, a, budget, order, card)
    BY DEF rows
  <2>2. k \notin DOMAIN rows
    BY <1>1, <1>3
  <2>0. /\ a \in Accounts /\ budget \in Nat
        /\ order \in Orders \cup {None} /\ card \in Campaigns \cup {None}
    OBVIOUS
  <2>3. AddsGift(rows, k, budget)
    BY ONLY <2>0, <2>1, <2>2, GrantedRow
  <2> QED BY ONLY <1>1, <2>3 DEF AddsGift
<1>5. \A g \in DOMAIN gifts \ {p} : k # ByCode(g) /\ k # ByFailure(g)
  BY Keys
<1>6. \A g \in DOMAIN gifts :
        /\ gifts'[g] \in Gift /\ Shape(gifts'[g], GivenBack(g) \/ k = ByFailure(g))
        /\ gifts'[g].code = "redeemed" <=> gifts[g].code = "redeemed" \/ k = ByCode(g)
  <2> TAKE g \in DOMAIN gifts
  <2>1. gifts[g] \in Gift /\ Shape(gifts[g], GivenBack(g))
    BY DEF PathInv, Shapes
  <2>2. CASE g = p
    BY <1>2, <1>3, <1>4, <2>2 DEF Shape
  <2>3. CASE g # p
    <3>1. gifts'[g] = gifts[g] /\ k # ByFailure(g) /\ k # ByCode(g)
      BY <1>4, <1>5, <2>3
    <3> QED BY ONLY <2>1, <3>1 DEF Shape
  <2> QED BY <2>2, <2>3
<1>7. /\ PathInv' /\ Root'[k] = Root[p]
      /\ \A g \in DOMAIN gifts : /\ Root'[g] = Root[g]
                                 /\ GivenBack(g)' <=> GivenBack(g) \/ k = ByFailure(g)
  BY <1>2, <1>3, <1>4, <1>6, PathGrows
<1>8. \A g \in DOMAIN gifts : /\ Root'[g] = Root[g]
                              /\ g # p => SameGift(g)
                              /\ gifts'[g].budget = gifts[g].budget
  <2> SUFFICES ASSUME NEW g \in DOMAIN gifts
               PROVE  Root'[g] = Root[g] /\ (g # p => SameGift(g)) /\ gifts'[g].budget = gifts[g].budget
    OBVIOUS
  <2>1. Root'[g] = Root[g]
    BY <1>7
  <2>2. gifts'[g].budget = gifts[g].budget
    BY <1>4, <1>5
  <2>3. ASSUME g # p PROVE gifts'[g] = gifts[g] /\ (GivenBack(g)' <=> GivenBack(g))
    BY <1>4, <1>5, <1>7, <2>3
  <2>4. ASSUME g # p PROVE SameGift(g)
    BY <2>2, <2>3, <2>4 DEF SameGift, Held, Passing, Sent, Compensated
  <2> QED BY <2>1, <2>2, <2>4
<1>9. \/ /\ Sent(p)' /\ gifts[p].budget > 0 /\ gifts'[k].budget = gifts[p].budget - 1
      \/ /\ ~Sent(p)' /\ gifts'[k].budget = gifts[p].budget
  <2>1. CASE k = ByCode(p)
    BY <1>3, <1>4, <1>7, <2>1, Keys DEF Sent
  <2>2. CASE k = ByFailure(p)
    BY <1>4, <1>7, <2>2 DEF Sent
  <2> QED BY <2>1, <2>2
<1> QED BY <1>3, <1>4, <1>7, <1>8, <1>9, ChildMoves

LEMMA SendFailsMoves ==
    ASSUME PathInv, NEW g \in DOMAIN gifts, SendFails(g)
    PROVE  /\ PathInv' /\ \A r \in Grants : Moves(r)
           /\ DOMAIN gifts' \subseteq DOMAIN gifts \cup {ByFailure(g)} /\ DOMAIN gifts \subseteq DOMAIN gifts'
<1> DEFINE y == [gifts[g] EXCEPT !.letter = "failed",
                                 !.code = IF gifts[g].code = "issued" THEN "void" ELSE gifts[g].code]
           voided == [gifts EXCEPT ![g] = y]
<1>1. gifts[g] \in Gift /\ Shape(gifts[g], GivenBack(g)) /\ gifts[g].letter = "mailed"
  BY DEF PathInv, Shapes, SendFails
<1>2. voided = [gifts EXCEPT ![g].letter = "failed",
                             ![g].code = IF @ = "issued" THEN "void" ELSE @]
  BY <1>1 DEF Gift
<1>3. /\ y \in Gift /\ y.status = gifts[g].status /\ y.letter = "failed"
      /\ y.code = IF gifts[g].code = "issued" THEN "void" ELSE gifts[g].code
      /\ y.budget = gifts[g].budget /\ y.reversed = gifts[g].reversed
  BY <1>1 DEF Gift
<1> HIDE DEF y
<1>4. ASSUME gifts' = voided, gifts[g].code = "redeemed" \/ Compensated(g)
      PROVE  PathInv' /\ \A r \in Grants : Moves(r)
  <2>1. Shape(y, GivenBack(g))
    BY <1>1, <1>3, <1>4 DEF Shape, Compensated
  <2>2. /\ RowHeld(y) <=> RowHeld(gifts[g])
        /\ RowSent(y, GivenBack(g)) <=> RowSent(gifts[g], GivenBack(g))
        /\ ~RowHeld(y) /\ ~RowPassing(y, GivenBack(g))
    BY <1>1, <1>3 DEF Shape, RowHeld, RowPassing, RowSent
  <2>3. y.code = "redeemed" <=> gifts[g].code = "redeemed"
    BY <1>3
  <2>4. Turn(gifts[g], y, GivenBack(g))
    BY <1>3, <2>1, <2>2, <2>3 DEF Turn, RowLive
  <2> QED BY <1>4, <2>4, OneTurns
<1>5. ASSUME gifts[g].code # "redeemed", ~Compensated(g),
             gifts' = Granted(voided, ByFailure(g), gifts[g].owner, gifts[g].budget,
                              gifts[g].order, gifts[g].card)
      PROVE  /\ PathInv' /\ DOMAIN gifts' = DOMAIN gifts \cup {ByFailure(g)}
             /\ \A r \in Grants : Moves(r)
  <2>1. Passing(g)
    BY <1>1, <1>5 DEF Passing
  <2>2. Shape(y, TRUE) /\ y.status = "consumed"
    BY <1>1, <1>3, <1>5 DEF Shape
  <2>3. /\ gifts[g].owner \in Accounts /\ gifts[g].budget \in Nat
        /\ gifts[g].order \in Orders \cup {None} /\ gifts[g].card \in Campaigns \cup {None}
    BY <1>1 DEF Gift
  <2>4. ByFailure(g) # ByCode(g) /\ y.code # "redeemed"
    BY <1>3, <1>5, Keys
  <2> QED BY <1>3, <1>5, <2>1, <2>2, <2>3, <2>4, ChildGrantMoves
<1>6. CASE gifts' = voided /\ (gifts[g].code = "redeemed" \/ Compensated(g))
  BY <1>4, <1>6
<1>7. CASE /\ gifts[g].code # "redeemed" /\ ~Compensated(g)
           /\ gifts' = Granted(voided, ByFailure(g), gifts[g].owner, gifts[g].budget,
                               gifts[g].order, gifts[g].card)
  BY <1>5, <1>7
<1> QED BY <1>2, <1>6, <1>7 DEF SendFails

LEMMA RedeemCommitsMoves ==
    ASSUME IInv, PathInv, NEW r \in Requests, RedeemCommits(r), gifts' # gifts
    PROVE  /\ PathInv' /\ \A q \in Grants : Moves(q)
           /\ DOMAIN gifts' = DOMAIN gifts \cup {ByCode(call[r].of)}
<1> DEFINE g == call[r].of
           y == [gifts[g] EXCEPT !.code = "redeemed"]
<1>1. g \in DOMAIN gifts /\ call[r].account \in Accounts /\ gifts[g].code = "issued" /\ Redeemed(r)
  BY DEF IInv, CallInv, RedeemCommits
<1>2. gifts[g] \in Gift /\ Shape(gifts[g], GivenBack(g)) /\ gifts[g].budget > 0
  BY <1>1 DEF IInv, RowsInv, RowInv, PathInv, Shapes
<1>3. gifts' = Granted([gifts EXCEPT ![g] = y], ByCode(g), call[r].account,
                       gifts[g].budget - 1, None, None)
  <2>1. [gifts EXCEPT ![g].code = "redeemed"] = [gifts EXCEPT ![g] = y]
    BY <1>2 DEF Gift
  <2> HIDE DEF y
  <2> QED BY <1>1, <2>1 DEF Redeemed
<1>4. /\ y \in Gift /\ y.status = gifts[g].status /\ y.letter = gifts[g].letter
      /\ y.code = "redeemed" /\ y.budget = gifts[g].budget /\ y.reversed = gifts[g].reversed
  BY <1>2 DEF Gift
<1> HIDE DEF y, g
<1>5. Passing(g) /\ ByCode(g) # ByFailure(g) /\ gifts[g].budget - 1 \in Nat
  BY <1>1, <1>2, Keys DEF Passing, Shape, Gift
<1>6. Shape(y, FALSE) /\ y.status = "consumed"
  BY <1>1, <1>2, <1>4, <1>5 DEF Shape
<1>7. /\ PathInv' /\ \A q \in Grants : Moves(q)
      /\ DOMAIN gifts' = DOMAIN gifts \cup {ByCode(g)}
  BY <1>1, <1>2, <1>3, <1>4, <1>5, <1>6, ChildGrantMoves
<1> QED BY <1>7 DEF g

-----------------------------------------------------------------------------
(* Claims: the seed grants are the claims', one for one, and what was      *)
(* claimed of a campaign was counted under its lock.                       *)

ClaimsOf(k) == {c \in claims : c.campaign = k}
SeedGifts == {g \in DOMAIN gifts : Source(g) = "seed"}
Claim(k, a) == [campaign |-> k, account |-> a, mailbox |-> Mailbox[a]]

ClaimInv ==
    /\ \A c \in claims : \E k \in Campaigns, a \in Accounts : c = Claim(k, a)
    /\ IsFiniteSet(claims)
    /\ campaign \in [Campaigns -> [status : DOMAIN Transitions, over : BOOLEAN, count : Nat]]
    /\ \A k \in Campaigns : /\ campaign[k].count = Cardinality(ClaimsOf(k))
                            /\ campaign[k].count <= Cap[k]
    /\ \A c, d \in claims : c # d /\ c.campaign = d.campaign =>
         c.account # d.account /\ (c.mailbox = None \/ c.mailbox # d.mailbox)
    /\ \A k \in Campaigns, a \in Accounts : <<"seed", <<k, a>>>> \in DOMAIN gifts => Claimed(k, a)
    /\ IsFiniteSet(SeedGifts) /\ Cardinality(claims) = Cardinality(SeedGifts)

\* The campaigns' claims and counts are as they were, and no seed gift letter is new.
LEMMA ClaimsStay ==
    ASSUME ClaimInv, claims' = claims,
           \A g : Source(g) = "seed" => (g \in DOMAIN gifts' <=> g \in DOMAIN gifts),
           campaign' \in [Campaigns -> [status : DOMAIN Transitions, over : BOOLEAN, count : Nat]],
           \A k \in Campaigns : campaign'[k].count = campaign[k].count
    PROVE  ClaimInv'
<1>1. SeedGifts' = SeedGifts /\ \A k : ClaimsOf(k)' = ClaimsOf(k)
  BY DEF SeedGifts, ClaimsOf
<1>2. \A k, a : <<"seed", <<k, a>>>> \in DOMAIN gifts' => <<"seed", <<k, a>>>> \in DOMAIN gifts
  BY DEF Source
<1>3. \A k, a : Claimed(k, a)' <=> Claimed(k, a)
  BY DEF Claimed
<1>4. \A k \in Campaigns, a \in Accounts :
        <<"seed", <<k, a>>>> \in DOMAIN gifts' => Claimed(k, a)'
  BY <1>2, <1>3 DEF ClaimInv
<1> QED BY <1>1, <1>4 DEF ClaimInv, Claim

LEMMA ClaimsUntouched ==
    ASSUME ClaimInv, claims' = claims, campaign' = campaign,
           \A g : Source(g) = "seed" => (g \in DOMAIN gifts' <=> g \in DOMAIN gifts)
    PROVE  ClaimInv'
<1>1. campaign' \in [Campaigns -> [status : DOMAIN Transitions, over : BOOLEAN, count : Nat]]
  BY DEF ClaimInv
<1> QED BY <1>1, ClaimsStay

LEMMA NotSeeds ==
    /\ \A o : Source(<<"pack", o>>) # "seed"
    /\ \A i : Source(<<"operator", i>>) # "seed"
    /\ \A g : Source(ByCode(g)) # "seed" /\ Source(ByFailure(g)) # "seed"
BY DEF Source, ByCode, ByFailure

\* redeemPromoCode's transaction: the count, the claim and the gift letter together.
LEMMA ClaimCounted ==
    ASSUME ClaimInv, NEW k \in Campaigns, NEW a \in Accounts, Increments(k), Unique(k, a),
           campaign' = [campaign EXCEPT ![k].count = @ + 1],
           claims' = claims \cup {Claim(k, a)},
           DOMAIN gifts' = DOMAIN gifts \cup {<<"seed", <<k, a>>>>}
    PROVE  ClaimInv'
<1> DEFINE new == Claim(k, a)
           seed == <<"seed", <<k, a>>>>
<1>1. new \notin claims /\ seed \notin DOMAIN gifts
  BY DEF ClaimInv, Unique, Claimed, Claim
<1>2. Source(seed) = "seed"
  BY DEF Source
<1>3. /\ campaign' \in [Campaigns -> [status : DOMAIN Transitions, over : BOOLEAN, count : Nat]]
      /\ campaign'[k].count = campaign[k].count + 1 /\ campaign[k].count \in Nat
      /\ \A j \in Campaigns \ {k} : campaign'[j].count = campaign[j].count
  BY DEF ClaimInv
<1>4. new.campaign = k /\ new.account = a /\ new.mailbox = Mailbox[a]
  BY DEF Claim
<1>5. /\ IsFiniteSet(claims') /\ Cardinality(claims') = Cardinality(claims) + 1
      /\ IsFiniteSet(SeedGifts') /\ Cardinality(SeedGifts') = Cardinality(SeedGifts) + 1
  <2>1. SeedGifts' = SeedGifts \cup {seed} /\ seed \notin SeedGifts
    BY <1>1, <1>2 DEF SeedGifts
  <2> HIDE DEF new, seed
  <2>2. IsFiniteSet(claims') /\ Cardinality(claims') = Cardinality(claims) + 1
    <3>1. claims' = claims \cup {new}
      BY DEF new
    <3> QED BY <1>1, <3>1, FS_AddElement DEF ClaimInv
  <2>3. IsFiniteSet(SeedGifts') /\ Cardinality(SeedGifts') = Cardinality(SeedGifts) + 1
    BY <2>1, FS_AddElement DEF ClaimInv
  <2> QED BY <2>2, <2>3
<1>6. ASSUME NEW j \in Campaigns
      PROVE  campaign'[j].count = Cardinality(ClaimsOf(j)') /\ campaign'[j].count <= Cap[j]
  <2>1. CASE j = k
    <3>1. ClaimsOf(k)' = ClaimsOf(k) \cup {new} /\ new \notin ClaimsOf(k)
      BY <1>1, <1>4 DEF ClaimsOf
    <3>2. IsFiniteSet(ClaimsOf(k))
      BY FS_Subset DEF ClaimInv, ClaimsOf
    <3> HIDE DEF new
    <3>3. Cardinality(ClaimsOf(k)') = Cardinality(ClaimsOf(k)) + 1
      BY <3>1, <3>2, FS_AddElement
    <3>4. campaign[k].count < Cap[k] /\ Cap[k] \in Nat
      BY DEF Increments
    <3> QED BY <1>3, <2>1, <3>3, <3>4 DEF ClaimInv
  <2>2. CASE j # k
    <3>1. ClaimsOf(j)' = ClaimsOf(j)
      BY <1>4, <2>2 DEF ClaimsOf
    <3> QED BY <1>3, <2>2, <3>1 DEF ClaimInv
  <2> QED BY <2>1, <2>2
<1>7. \A c, d \in claims' : c # d /\ c.campaign = d.campaign =>
         c.account # d.account /\ (c.mailbox = None \/ c.mailbox # d.mailbox)
  <2>1. \A c \in claims : c.campaign = k =>
          c.account # a /\ (Mailbox[a] = None \/ c.mailbox # Mailbox[a])
    BY DEF Unique, Claimed, ClaimedBy
  <2>2. \A c \in claims' : c \in claims \/ c = new
    OBVIOUS
  <2> HIDE DEF new
  <2> QED BY <1>4, <2>1, <2>2 DEF ClaimInv
<1>8. \A j \in Campaigns, b \in Accounts :
        <<"seed", <<j, b>>>> \in DOMAIN gifts' => Claimed(j, b)'
  <2> TAKE j \in Campaigns, b \in Accounts
  <2> HAVE <<"seed", <<j, b>>>> \in DOMAIN gifts'
  <2>1. CASE <<"seed", <<j, b>>>> \in DOMAIN gifts
    BY <2>1 DEF ClaimInv, Claimed
  <2>2. CASE j = k /\ b = a
    BY <1>4, <2>2 DEF Claimed
  <2> QED BY <2>1, <2>2
<1>9. \A c \in claims' : \E j \in Campaigns, b \in Accounts : c = Claim(j, b)
  BY DEF ClaimInv
<1>10. Cardinality(claims') = Cardinality(SeedGifts')
  BY <1>5 DEF ClaimInv
<1> QED BY <1>3, <1>5, <1>6, <1>7, <1>8, <1>9, <1>10 DEF ClaimInv, Claim

LEMMA ClaimCommitsMoves ==
    ASSUME IInv, PathInv, ClaimInv, NEW r \in Requests, ClaimCommits(r), gifts' # gifts
    PROVE  PathInv' /\ ClaimInv' /\ \A q \in Grants : Moves(q)
<1> DEFINE k == call[r].of
           a == call[r].account
<1>1. /\ k \in Campaigns /\ a \in Accounts /\ Increments(k) /\ Unique(k, a)
      /\ campaign' = [campaign EXCEPT ![k].count = @ + 1]
      /\ claims' = claims \cup {Claim(k, a)}
      /\ gifts' = Granted(gifts, <<"seed", <<k, a>>>>, a, SeedBudget[k], None, None)
  BY DEF ClaimCommits, IInv, CallInv, Claim
<1> HIDE DEF k, a
<1>2. <<"seed", <<k, a>>>> \in Grants \ DOMAIN gifts /\ SeedBudget[k] \in Nat
  BY <1>1 DEF ClaimInv, Unique, Grants
<1>3. /\ PathInv' /\ DOMAIN gifts' = DOMAIN gifts \cup {<<"seed", <<k, a>>>>}
      /\ \A q \in Grants : Moves(q)
  BY <1>1, <1>2, NewGrantMoves
<1>4. ClaimInv'
  BY <1>1, <1>3, ClaimCounted
<1> QED BY <1>3, <1>4

LEMMA CampaignKeepsClaims ==
    ASSUME ClaimInv, NEW k \in Campaigns,
           (\E status \in DOMAIN Transitions : MovesCampaign(k, status))
             \/ DeletesCampaign(k) \/ CampaignEnds(k)
    PROVE  ClaimInv'
<1>1. /\ campaign' \in [Campaigns -> [status : DOMAIN Transitions, over : BOOLEAN, count : Nat]]
      /\ \A j \in Campaigns : campaign'[j].count = campaign[j].count
  <2>1. campaign \in [Campaigns -> [status : DOMAIN Transitions, over : BOOLEAN, count : Nat]]
        /\ "deleted" \in DOMAIN Transitions
    BY DEF ClaimInv, Transitions
  <2>2. CASE \E status \in DOMAIN Transitions : campaign' = [campaign EXCEPT ![k].status = status]
    BY ONLY <2>1, <2>2
  <2>3. CASE campaign' = [campaign EXCEPT ![k].over = TRUE]
    BY ONLY <2>1, <2>3
  <2> QED BY <2>1, <2>2, <2>3 DEF MovesCampaign, DeletesCampaign, CampaignEnds
<1>2. gifts' = gifts /\ claims' = claims
  BY DEF MovesCampaign, DeletesCampaign, CampaignEnds
<1> QED BY <1>1, <1>2, ClaimsStay

-----------------------------------------------------------------------------
(* Every step keeps the chains and the claims. *)

LEMMA GiftsUntouched ==
    ASSUME PathInv, gifts' = gifts PROVE PathInv' /\ \A r \in Grants : Moves(r)
<1>1. \A g \in DOMAIN gifts : Turn(gifts[g], gifts'[g], GivenBack(g))
  BY RowStays
<1> QED BY <1>1, RowsTurn

LEMMA GrantSteps ==
    ASSUME PathInv, ClaimInv,
           \/ \E o \in Orders : BuysPack(o)
           \/ \E i \in Invites : OperatorGrantsGift(i[1], i[2])
    PROVE  PathInv' /\ ClaimInv' /\ \A r \in Grants : Moves(r)
<1>1. CASE \E o \in Orders : BuysPack(o)
  <2>1. PICK o \in Orders : BuysPack(o)
    BY <1>1
  <2>2. <<"pack", o>> \in Grants \ DOMAIN gifts /\ Buyer[o] \in Accounts /\ PackBudget \in Nat
    BY <2>1 DEF BuysPack, Bought, Grants
  <2>3. gifts' = Granted(gifts, <<"pack", o>>, Buyer[o], PackBudget, o, None)
        /\ claims' = claims /\ campaign' = campaign
    BY <2>1 DEF BuysPack
  <2>4. /\ PathInv' /\ DOMAIN gifts' = DOMAIN gifts \cup {<<"pack", o>>}
        /\ \A r \in Grants : Moves(r)
    BY <2>2, <2>3, NewGrantMoves
  <2>5. ClaimInv'
    BY <2>3, <2>4, NotSeeds, ClaimsUntouched
  <2> QED BY <2>4, <2>5
<1>2. CASE \E i \in Invites : OperatorGrantsGift(i[1], i[2])
  <2>1. PICK i \in Invites : OperatorGrantsGift(i[1], i[2])
    BY <1>2
  <2>2. i[1] \in Accounts /\ i[2] \in Campaigns \cup {None} /\ i = <<i[1], i[2]>>
        /\ OperatorBudget \in Nat
    OBVIOUS
  <2> DEFINE key == <<"operator", <<i[1], i[2]>>>>
  <2>3. key \in Grants \ DOMAIN gifts
    BY <2>1, <2>2 DEF OperatorGrantsGift, Grants
  <2>4. gifts' = Granted(gifts, key, i[1], OperatorBudget, None, i[2])
        /\ claims' = claims /\ campaign' = campaign
    BY <2>1 DEF OperatorGrantsGift
  <2>5. Source(key) # "seed"
    BY NotSeeds
  <2> HIDE DEF key
  <2>6. /\ PathInv' /\ DOMAIN gifts' = DOMAIN gifts \cup {key}
        /\ \A r \in Grants : Moves(r)
    BY <2>2, <2>3, <2>4, NewGrantMoves
  <2>7. ClaimInv'
    BY <2>4, <2>5, <2>6, ClaimsUntouched
  <2> QED BY <2>6, <2>7
<1> QED BY <1>1, <1>2

LEMMA GiftSteps ==
    ASSUME PathInv, ClaimInv, NEW g \in DOMAIN gifts,
           \/ \E heldPast \in BOOLEAN : SendsGift(g, heldPast)
           \/ SendFails(g) \/ Resends(g) \/ CodeEnds(g) \/ GiftLapses(g)
           \/ \E r \in Requests, a \in Accounts : RedeemReads(r, a, g)
    PROVE  PathInv' /\ ClaimInv' /\ \A r \in Grants : Moves(r)
<1>1. PathInv' /\ \A r \in Grants : Moves(r)
  <2>1. CASE \E r \in Requests, a \in Accounts : RedeemReads(r, a, g)
    BY <2>1, GiftsUntouched DEF RedeemReads
  <2> QED BY <2>1, SendsGiftMoves, SendFailsMoves, ResendsMoves, CodeEndsMoves, GiftLapsesMoves
<1>2. claims' = claims /\ campaign' = campaign
  BY DEF SendsGift, SendFails, Resends, CodeEnds, GiftLapses, RedeemReads
<1>3. /\ DOMAIN gifts' \subseteq DOMAIN gifts \cup {ByFailure(g)}
      /\ DOMAIN gifts \subseteq DOMAIN gifts'
  <2>1. CASE SendFails(g)
    BY <2>1, SendFailsMoves
  <2>2. CASE ~SendFails(g)
    BY <2>2 DEF SendsGift, Resends, CodeEnds, GiftLapses, RedeemReads
  <2> QED BY <2>1, <2>2
<1>4. ClaimInv'
  BY <1>2, <1>3, NotSeeds, ClaimsUntouched
<1> QED BY <1>1, <1>4

LEMMA ReversesPackKeeps ==
    ASSUME PathInv, ClaimInv, NEW o \in Orders, NEW cause \in {"refunded", "disputed"},
           ReversesPack(o, cause)
    PROVE  PathInv' /\ ClaimInv' /\ \A r \in Grants : Moves(r)
<1>1. DOMAIN gifts' = DOMAIN gifts /\ claims' = claims /\ campaign' = campaign
  BY DEF ReversesPack
<1>2. ClaimInv'
  BY <1>1, ClaimsUntouched
<1> QED BY <1>2, ReversesPackMoves

LEMMA RequestSteps ==
    ASSUME IInv, PathInv, ClaimInv, NEW r \in Requests,
           \/ RedeemCommits(r) \/ ClaimCommits(r) \/ RequestDies(r)
           \/ \E a \in Accounts, k \in Campaigns : ClaimReads(r, a, k)
    PROVE  PathInv' /\ ClaimInv' /\ \A q \in Grants : Moves(q)
<1>1. CASE gifts' = gifts
  <2>1. claims' = claims /\ campaign' = campaign
    <3>1. CASE ClaimCommits(r)
      <4>1. gifts' # gifts \/ (claims' = claims /\ campaign' = campaign)
        <5>1. ASSUME Increments(call[r].of), Unique(call[r].of, call[r].account),
                     gifts' = Granted(gifts, <<"seed", <<call[r].of, call[r].account>>>>,
                                      call[r].account, SeedBudget[call[r].of], None, None)
              PROVE  gifts' # gifts
          <6> DEFINE seed == <<"seed", <<call[r].of, call[r].account>>>>
          <6>1. call[r].of \in Campaigns /\ call[r].account \in Accounts
            BY <3>1 DEF ClaimCommits, IInv, CallInv
          <6>2. seed \notin DOMAIN gifts
            BY <5>1, <6>1 DEF ClaimInv, Unique
          <6>3. seed \in DOMAIN gifts'
            BY <5>1 DEF Granted
          <6> QED BY <6>2, <6>3
        <5> QED BY <3>1, <5>1 DEF ClaimCommits
      <4> QED BY <1>1, <4>1
    <3> QED BY <3>1 DEF RedeemCommits, RequestDies, ClaimReads
  <2> QED BY <1>1, <2>1, GiftsUntouched, ClaimsUntouched
<1>2. CASE gifts' # gifts
  <2>1. RedeemCommits(r) \/ ClaimCommits(r)
    BY <1>2 DEF RequestDies, ClaimReads
  <2>2. CASE ClaimCommits(r)
    BY <1>2, <2>2, ClaimCommitsMoves
  <2>3. CASE RedeemCommits(r)
    <3>1. claims' = claims /\ campaign' = campaign
      BY <2>3 DEF RedeemCommits
    <3>2. /\ PathInv' /\ \A q \in Grants : Moves(q)
          /\ DOMAIN gifts' = DOMAIN gifts \cup {ByCode(call[r].of)}
      BY <1>2, <2>3, RedeemCommitsMoves
    <3>3. ClaimInv'
      BY <3>1, <3>2, NotSeeds, ClaimsUntouched
    <3> QED BY <3>2, <3>3
  <2> QED BY <2>1, <2>2, <2>3
<1> QED BY <1>1, <1>2

LEMMA ChainStep ==
    ASSUME IInv, PathInv, ClaimInv, [Next]_vars
    PROVE  PathInv' /\ ClaimInv' /\ \A r \in Grants : Moves(r)
<1>1. ASSUME NEW k \in Campaigns,
             (\E status \in DOMAIN Transitions : MovesCampaign(k, status))
               \/ DeletesCampaign(k) \/ CampaignEnds(k)
      PROVE  PathInv' /\ ClaimInv' /\ \A r \in Grants : Moves(r)
  <2>1. gifts' = gifts
    BY <1>1 DEF MovesCampaign, DeletesCampaign, CampaignEnds
  <2> QED BY <1>1, <2>1, CampaignKeepsClaims, GiftsUntouched
<1>2. CASE UNCHANGED vars
  BY <1>2, GiftsUntouched, ClaimsUntouched DEF vars
<1>3. CASE Next
  BY <1>1, <1>3, GrantSteps, ReversesPackKeeps, GiftSteps, RequestSteps DEF Next
<1> QED BY <1>2, <1>3

LEMMA ClaimInit == Init => ClaimInv
<1> SUFFICES ASSUME Init PROVE ClaimInv
  OBVIOUS
<1>1. DOMAIN gifts = {} /\ claims = {}
  BY DEF Init
<1>2. SeedGifts = {} /\ \A k : ClaimsOf(k) = {}
  BY <1>1 DEF SeedGifts, ClaimsOf
<1>3. \A k \in Campaigns : campaign[k].count = 0 /\ Cap[k] \in Nat
  BY DEF Init
<1>4. campaign \in [Campaigns -> [status : DOMAIN Transitions, over : BOOLEAN, count : Nat]]
  BY DEF Init, Transitions
<1>5. IsFiniteSet({}) /\ Cardinality({}) = 0
  BY FS_EmptySet
<1>6. ASSUME NEW k \in Campaigns
      PROVE  /\ campaign[k].count = Cardinality(ClaimsOf(k))
             /\ campaign[k].count <= Cap[k]
  <2>1. campaign[k].count = 0 /\ Cap[k] \in Nat
    BY <1>3
  <2>2. ClaimsOf(k) = {}
    BY ONLY <1>2
  <2>3. campaign[k].count = Cardinality(ClaimsOf(k))
    BY ONLY <2>1, <2>2, <1>5
  <2>4. campaign[k].count <= Cap[k]
    BY ONLY <2>1
  <2> QED BY ONLY <2>3, <2>4
<1>7. IsFiniteSet(claims) /\ IsFiniteSet(SeedGifts) /\ Cardinality(claims) = Cardinality(SeedGifts)
  BY <1>1, <1>2, <1>5
<1> QED BY <1>1, <1>4, <1>6, <1>7 DEF ClaimInv

GiftInv == IInv /\ PathInv /\ ClaimInv

LEMMA GiftInvariance == Spec => []GiftInv
<1>1. Init => GiftInv
  BY InitInv, PathInit, ClaimInit DEF GiftInv
<1>2. GiftInv /\ [Next]_vars => GiftInv'
  BY NextInv, ChainStep DEF GiftInv
<1> QED BY <1>1, <1>2, PTL DEF Spec

\* giftLetterService: each grant starts a path, whatever is redeemed, refused, cancelled,
\* voided or reversed meanwhile: every step is one of GiftChain's, or leaves the chain.
THEOREM GrantsStartPaths == Spec => ChainIsAPath
<1>1. Init => Path!Init
  BY DEF Init, Path!Init, ChainOf
<1>2. GiftInv /\ GiftInv' /\ [Next]_vars => [Path!Next]_[r \in Grants |-> ChainOf(r)]
  <2> SUFFICES ASSUME GiftInv, GiftInv', [Next]_vars
               PROVE  Path!Next
    OBVIOUS
  <2>1. \A r \in Grants : Moves(r)
    BY ChainStep DEF GiftInv
  <2>2. [r \in Grants |-> ChainOf(r)]' \in [Grants -> Path!Chain]
    <3>1. ChainsTyped'
      BY ChainsAreTyped, PTL
    <3> QED BY <3>1 DEF ChainsTyped, GiftInv
  <2> QED BY <2>1, <2>2 DEF Moves, Path!Next, Path!Steps
<1> QED BY <1>1, <1>2, GiftInvariance, PTL DEF Spec, ChainIsAPath, Path!Spec

-----------------------------------------------------------------------------
(* What a path can cost. *)

\* What a chain has mailed and its end may yet mail.
Bounded(c) ==
    /\ c.at = "none" => c.letters = 0
    /\ c.at = "held" => c.letters + c.left <= c.budget
    /\ c.at = "mailed" => c.letters + c.left <= c.budget + 1
    /\ c.letters <= c.budget + 1

\* One step of one chain keeps its bound.
LEMMA StepBounded ==
    ASSUME NEW c \in Path!Chain, NEW d \in Path!Chain, Bounded(c), Path!Step(c, d)
    PROVE  Bounded(d)
<1>1. CASE Path!Grant(c, d)
  BY <1>1 DEF Path!Grant, Bounded, Path!Chain
<1>2. CASE Path!Mail(c, d)
  BY <1>2 DEF Path!Mail, Bounded, Path!Chain
<1>3. CASE Path!Redeem(c, d)
  BY <1>3 DEF Path!Redeem, Bounded, Path!Chain
<1>4. CASE Path!GiveBack(c, d)
  BY <1>4 DEF Path!GiveBack, Bounded, Path!Chain
<1>5. CASE Path!End(c, d)
  BY <1>5 DEF Path!End, Bounded, Path!Chain
<1> QED BY <1>1, <1>2, <1>3, <1>4, <1>5 DEF Path!Step

Chains == [r \in Grants |-> ChainOf(r)]
ChainsBounded == Chains \in [Grants -> Path!Chain] /\ \A r \in Grants : Bounded(Chains[r])

\* GiftChain: however the letters of a chain are mailed, fail and are passed on, it sends
\* no more of them than its grant's budget and one.
THEOREM ChainCosts == Path!Spec => []Path!CostBound
<1>1. Path!Init => ChainsBounded
  <2> SUFFICES ASSUME Path!Init PROVE ChainsBounded
    OBVIOUS
  <2>1. Chains = [r \in Grants |-> [at |-> "none", left |-> 0, budget |-> 0, letters |-> 0]]
    BY DEF Path!Init, Chains
  <2> QED BY <2>1 DEF ChainsBounded, Path!Chain, Bounded
<1>2. ChainsBounded /\ [Path!Next]_Chains => ChainsBounded'
  <2> SUFFICES ASSUME ChainsBounded, [Path!Next]_Chains PROVE ChainsBounded'
    OBVIOUS
  <2>1. CASE Chains' = Chains
    BY <2>1 DEF ChainsBounded
  <2>2. CASE Path!Next /\ Chains' # Chains
    <3>1. /\ Chains' \in [Grants -> Path!Chain]
          /\ \A r \in Grants : Chains'[r] = Chains[r] \/ Path!Step(Chains[r], Chains'[r])
      BY <2>2 DEF Path!Next, Path!Steps, Chains
    <3>2. \A r \in Grants : Bounded(Chains'[r])
      BY <3>1, StepBounded DEF ChainsBounded
    <3> QED BY <3>1, <3>2 DEF ChainsBounded
  <2> QED BY <2>1, <2>2
<1>3. ChainsBounded => Path!CostBound
  BY DEF ChainsBounded, Path!CostBound, Chains, Bounded
<1> QED BY <1>1, <1>2, <1>3, PTL DEF Path!Spec, Chains

\* promoService and giftLetterService: what is given away is bounded, by the grants and by the
\* campaigns: each grant mails at most its budget and one letters, and each campaign is claimed
\* at most as often as its cap, once by an account and a mailbox.
THEOREM GiftsAreBounded == Spec => []GiftsBounded
<1>1. Spec => []Path!CostBound
  BY GrantsStartPaths, ChainCosts, PTL DEF ChainIsAPath
<1>2. GiftInv => TypeOK
  <2> SUFFICES ASSUME GiftInv PROVE TypeOK
    OBVIOUS
  <2>1. ASSUME NEW g \in DOMAIN gifts
        PROVE  /\ gifts[g] \in Gift
               /\ g \in Grants \/ (Source(g) \in {"chain", "send_failed"} /\ g[2] \in DOMAIN gifts)
               /\ (gifts[g].letter = "none") = (gifts[g].status # "consumed")
               /\ gifts[g].letter = "none" => gifts[g].code = "none"
    <3>1. gifts[g] \in Gift /\ Shape(gifts[g], GivenBack(g))
      BY DEF GiftInv, PathInv, Shapes
    <3>2. \A h : Source(ByCode(h)) = "chain" /\ Source(ByFailure(h)) = "send_failed"
      BY DEF Source, ByCode, ByFailure
    <3>3. g \in Grants \/ (Source(g) \in {"chain", "send_failed"} /\ g[2] \in DOMAIN gifts)
      BY <3>2 DEF GiftInv, PathInv, Parents
    <3> QED BY <3>1, <3>3 DEF Shape
  <2>2. campaign \in [Campaigns -> [status : DOMAIN Transitions, over : BOOLEAN, count : Nat]]
    BY DEF GiftInv, ClaimInv
  <2>3. reversed \in [Orders -> SUBSET {"refunded", "disputed"}] /\ DOMAIN call = Requests
    BY DEF GiftInv, IInv, ReversedInv, CallInv
  <2> QED BY <2>1, <2>2, <2>3 DEF TypeOK
<1>3. GiftInv /\ Path!CostBound => FreeLettersBounded
  <2> SUFFICES ASSUME GiftInv, Path!CostBound, NEW r \in Grants \cap DOMAIN gifts
               PROVE  Cardinality({g \in Family(r) : gifts[g].letter = "mailed"})
                        <= gifts[r].budget + 1
    BY DEF FreeLettersBounded
  <2> DEFINE mailed == {g \in Family(r) : gifts[g].letter = "mailed"}
             sent == {g \in Family(r) : Sent(g)}
  <2>1. IsFiniteSet(sent)
    <3>1. sent \subseteq DOMAIN gifts
      BY DEF Family
    <3> QED BY <3>1, FS_Subset DEF GiftInv, PathInv
  <2>2. mailed \subseteq sent
    <3> SUFFICES ASSUME NEW g \in DOMAIN gifts, gifts[g].letter = "mailed" PROVE Sent(g)
      BY DEF Family
    <3>1. gifts[g] \in Gift /\ Shape(gifts[g], GivenBack(g))
      BY DEF GiftInv, PathInv, Shapes
    <3> QED BY <3>1 DEF Shape, Sent
  <2>3. Cardinality(mailed) <= Cardinality(sent) /\ Cardinality(mailed) \in Nat
        /\ Cardinality(sent) \in Nat
    <3> HIDE DEF mailed, sent
    <3> QED BY <2>1, <2>2, FS_Subset, FS_CardinalityType
  <2>4. ChainOf(r).letters = Cardinality(sent) /\ ChainOf(r).budget = gifts[r].budget
    BY DEF ChainOf
  <2>5. ChainOf(r).letters <= ChainOf(r).budget + 1
    BY DEF Path!CostBound
  <2>6. gifts[r].budget \in Nat
    BY DEF GiftInv, PathInv, Shapes, Gift
  <2> HIDE DEF mailed, sent
  <2>7. Cardinality(mailed) <= gifts[r].budget + 1
    BY <2>3, <2>4, <2>5, <2>6
  <2> QED BY <2>7 DEF mailed
<1>4. GiftInv => ClaimsBounded
  BY DEF GiftInv, ClaimInv, ClaimsBounded, ClaimsOf, SeedGifts
<1> QED BY <1>1, <1>2, <1>3, <1>4, GiftInvariance, PTL DEF GiftsBounded

=============================================================================
