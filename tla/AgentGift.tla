------------------------------ MODULE AgentGift ------------------------------
(***************************************************************************)
(* A direct gift between two agents (pkg/agentgift) and the reading of its *)
(* outcome from finalized state (pkg/toschain/agent_gift.go).              *)
(*                                                                         *)
(* The sender asks for an address, the recipient answers, the sender's     *)
(* owner authorizes one signed external message (the "BOC"), and the       *)
(* recipient broadcasts it.  Both then conclude from the finalized chain   *)
(* whether the gift was paid.  The message names the Agent Account's       *)
(* controller epoch and sequence number, so a cancellation, another        *)
(* payment or a new controller invalidates it; it is valid up to and       *)
(* including its last second.                                              *)
(*                                                                         *)
(* The account contract, the network and the two hosts that call the       *)
(* package are external.  Digests are the records they hash, signatures    *)
(* are by construction those of the account's controller, and the network, *)
(* the asset and the account's code and deployment are the same for all.   *)
(***************************************************************************)
EXTENDS Integers, Sequences

CONSTANTS Wallets,        \* addresses the recipient may answer with
          Amounts,        \* amounts asked for and signed
          AskedUntil,     \* the validity asked for
          Deadlines,      \* the times answers and payments are limited to
          MaxAction,      \* MaxAgentAccountActionAtomic
          MaxCoins,       \* the largest 64-bit amount
          MaxSequence,    \* the largest 32-bit sequence number
          MaxPerTx,       \* the account's limit for one payment
          DailyLimit,     \* and for one day, at first
          DayLength,      \* seconds of a day
          FeeReserve,     \* what has to stay for fees
          Margin,         \* MinimumInclusionMargin
          TaskTimeout,    \* the account's longest validity of a message
          MaxHistory,     \* maxGiftHistoryTransactions
          GiftEnd,        \* bound on the time
          MaxOther,       \* bound on the other transactions of the two accounts
          NotYet

VARIABLES sender,      \* SenderState
          recipient,   \* RecipientState, or NotYet before a request arrives
          giftRequest, \* GiftAddressRequestV1 and when it was made
          giftResponse, \* GiftAddressResponseV1
          boc,         \* the signed payment
          pool,        \* messages that were broadcast
          final,       \* the finalized chain: account, both histories, clock
          seen         \* what each party's last observation supports

giftVars == <<sender, recipient, giftRequest, giftResponse, boc, pool, final, seen>>

Parties == {"sender", "recipient"}
-----------------------------------------------------------------------------
\* Which lifecycle steps of each side are legal.
SenderTransitions ==
  {<<"draft", "recipient-resolved">>, <<"recipient-resolved", "address-requested">>,
   <<"address-requested", "address-received">>, <<"address-received", "owner-authorized">>,
   <<"owner-authorized", "boc-signed">>, <<"boc-signed", "offer-delivered">>,
   <<"boc-signed", "finality-unknown">>, <<"finality-unknown", "offer-delivered">>}
  \cup ({"offer-delivered", "finality-unknown"}
         \X {"finalized-paid", "expired-unpaid", "invalidated-unpaid", "finality-unknown"})

ValidateSenderTransition(from, to) == from = to \/ <<from, to>> \in SenderTransitions

RecipientTransitions ==
  {<<"address-request-observed", "address-response-sent">>,
   <<"address-response-sent", "signed-offer-observed">>,
   <<"signed-offer-observed", "verified">>, <<"verified", "broadcast-submitted">>,
   <<"verified", "finality-unknown">>, <<"finality-unknown", "verified">>,
   <<"finality-unknown", "broadcast-submitted">>}
  \cup ({"broadcast-submitted", "finality-unknown"}
         \X {"finalized-paid", "expired-unpaid", "invalidated-unpaid", "finality-unknown"})

ValidateRecipientTransition(from, to) == from = to \/ <<from, to>> \in RecipientTransitions

Unpaid == {"expired-unpaid", "invalidated-unpaid"}
-----------------------------------------------------------------------------
(* The documents.                                                          *)

ParseActionAmount(amount) == amount \in 1..MaxAction

ValidateAddressRequest(q) == ParseActionAmount(q.amount) /\ q.until # 0

ValidateAddressResponse(r) == ParseActionAmount(r.amount) /\ r.notAfter # 0

\* A response is for the whole request and does not outlive it.
BindResponse(q, r) ==
  /\ ValidateAddressRequest(q) /\ ValidateAddressResponse(r)
  /\ r.request = q /\ r.amount = q.amount
  /\ r.notAfter =< q.until
-----------------------------------------------------------------------------
(* What the finalized state says of the sender's Agent Account.            *)

DayOf(t) == t \div DayLength

\* decodeAgentAccountData: what was spent on an earlier day no longer counts.
DailyRemaining(c) ==
  LET spent == IF DayOf(c.time) # c.account.day THEN 0 ELSE c.account.spent
  IN  IF spent < c.account.daily THEN c.account.daily - spent ELSE 0

PolicyAllows(amount, c) == amount =< MaxPerTx /\ amount =< DailyRemaining(c)

\* What the parser of a message still refuses of one that has its form.
ParseNativeSend(b) == b.destination \in Wallets /\ b.amount \in 1..MaxCoins

VerifyNativeSendAuthority(b, c, latest) ==
  /\ ParseNativeSend(b)
  /\ b.epoch = c.account.epoch /\ b.seqno = c.account.seqno
  /\ b.validUntil =< latest /\ b.validUntil > c.time
  /\ b.validUntil - c.time >= Margin
  /\ TaskTimeout >= b.validUntil - c.time
  /\ PolicyAllows(b.amount, c)
  /\ FeeReserve =< MaxCoins - b.amount
  /\ c.account.balance >= b.amount + FeeReserve

VerifyNativeSend(b, q, r, c) ==
  /\ BindResponse(q, r)
  /\ VerifyNativeSendAuthority(b, c, r.notAfter)
  /\ b.validUntil =< q.until
  /\ b.amount = q.amount /\ b.destination = r.destination

\* The message that cancels a gift says nothing else.
ParseCancelSeqno(b) == [epoch |-> b.epoch, seqno |-> b.seqno, validUntil |-> b.validUntil]

\* Cancelling uses up the sequence number that the payment was signed for.
VerifyCancelSeqno(k, c) ==
  /\ k.epoch = c.account.epoch /\ k.seqno = c.account.seqno
  /\ k.validUntil > c.time
  /\ k.validUntil - c.time =< TaskTimeout
-----------------------------------------------------------------------------
(* What the finalized state says of the gift.                              *)

\* The bounded history of an account, from its latest transaction back.
HistoryWindow(log) == {i \in DOMAIN log : i > Len(log) - MaxHistory}

\* A plausible slip: what is not in the window is not there.
AbsenceAlways(log, since) == TRUE

\* Nothing can be missing before the window; both searches compute it.
AbsenceKnown(log, since) ==
  LET oldest == CHOOSE i \in HistoryWindow(log) : \A j \in HistoryWindow(log) : i =< j
  IN  Len(log) < MaxHistory \/ oldest = 1 \/ log[oldest].at < since

\* The exact external message in the sender account's history: a transaction
\* that was aborted did not execute it.
MatchGiftExecution(log, since) ==
  LET hits == {i \in HistoryWindow(log) : log[i].msg = "gift"}
  IN  IF hits = {}
      THEN [executed |-> FALSE, known |-> AbsenceKnown(log, since), exact |-> FALSE, at |-> 0]
      ELSE LET t == log[CHOOSE i \in hits : \A j \in hits : j =< i]
           IN  [executed |-> ~t.aborted, known |-> TRUE,
                exact |-> ~t.aborted /\ t.exact, at |-> t.at]

\* The exact output in the destination's history.
MatchGiftCredit(log, since) ==
  LET hits == {i \in HistoryWindow(log) : log[i].msg = "gift"}
  IN  [credited |-> hits # {}, known |-> hits # {} \/ AbsenceKnown(log, since)]

\* A destination without any transaction has no history to read.
ResolveGiftFails(b, c) ==
  MatchGiftExecution(c.src, giftRequest.at).exact /\ c.dst[b.destination] = <<>>

ResolveGift(b, c) ==
  LET execution == MatchGiftExecution(c.src, giftRequest.at)
      credit    == MatchGiftCredit(c.dst[b.destination], execution.at)
      read      == execution.exact /\ ~ResolveGiftFails(b, c)
  IN  [available   |-> TRUE,
       executed    |-> execution.executed,
       executionKnown |-> execution.executed \/ execution.known,
       credited    |-> read /\ credit.credited,
       creditKnown |-> IF execution.exact THEN read /\ credit.known ELSE execution.executed,
       account     |-> c.account, time |-> c.time, allowed |-> PolicyAllows(b.amount, c)]

NotAvailable == [available |-> FALSE]

Expired(b, v) == v.time > b.validUntil

\* The answer an observation supports; the order of the checks matters.
ResolveFinalizedGift(b, v) ==
  CASE ~v.available -> "finality-unknown"
    [] v.available /\ v.executed ->
         IF v.credited THEN "finalized-paid"
         ELSE IF ~v.creditKnown THEN "pending" ELSE "invalidated-unpaid"
    [] OTHER ->
         IF ~v.executionKnown THEN "finality-unknown"
         ELSE IF v.account.epoch > b.epoch \/ v.account.seqno > b.seqno THEN "invalidated-unpaid"
         ELSE IF v.account.epoch < b.epoch \/ v.account.seqno < b.seqno THEN "finality-unknown"
         ELSE IF Expired(b, v) THEN "expired-unpaid"
         ELSE IF ~v.allowed THEN "currently-unexecutable"
         ELSE IF \/ FeeReserve > MaxCoins - b.amount
                 \/ v.account.balance < b.amount + FeeReserve THEN "insufficient-funds"
         ELSE "currently-executable"
-----------------------------------------------------------------------------
(* The exchange.                                                           *)

GiftInit ==
  /\ sender = "draft" /\ recipient = NotYet
  /\ giftRequest = NotYet /\ giftResponse = NotYet /\ boc = NotYet /\ pool = {}
  /\ final \in [account : [epoch : {0}, seqno : {0}, day : {0}, spent : {DailyLimit - MaxPerTx},
                          daily : {DailyLimit}, balance : {FeeReserve + MaxPerTx}],
               src : {<<[msg |-> "other", aborted |-> FALSE, exact |-> FALSE, at |-> 0]>>},
               dst : [Wallets -> {<<>>}],
               flying : {FALSE}, other : {0}, time : {1}]
  /\ seen = [p \in Parties |-> NotYet]

\* The recipient is resolved and asked for an address.
RequestAddress ==
  \E amount \in Amounts, until \in AskedUntil :
    LET q == [amount |-> amount, until |-> until, at |-> final.time]
    IN  /\ sender = "draft" /\ ValidateAddressRequest(q)
        /\ sender' = "address-requested" /\ giftRequest' = q
        /\ UNCHANGED <<recipient, giftResponse, boc, pool, final, seen>>

AnswerAddress ==
  \E destination \in Wallets, notAfter \in Deadlines :
    LET r == [request |-> giftRequest, amount |-> giftRequest.amount,
              destination |-> destination, notAfter |-> notAfter]
    IN  /\ recipient = NotYet /\ giftRequest # NotYet
        /\ recipient' = "address-response-sent" /\ giftResponse' = r
        /\ UNCHANGED <<sender, giftRequest, boc, pool, final, seen>>

ReceiveAddress ==
  /\ sender = "address-requested" /\ giftResponse # NotYet
  /\ BindResponse(giftRequest, giftResponse)
  /\ sender' = "address-received"
  /\ UNCHANGED <<recipient, giftRequest, giftResponse, boc, pool, final, seen>>

\* The owner authorizes and the controller signs one message for the account
\* as it is finalized now.  Whether it is the agreed one is for the recipient
\* to verify.
SignGift ==
  \E validUntil \in Deadlines, amount \in Amounts, destination \in Wallets :
    LET b == [epoch |-> final.account.epoch, seqno |-> final.account.seqno, validUntil |-> validUntil,
              destination |-> destination, amount |-> amount]
    IN  /\ sender = "address-received" /\ b.seqno # MaxSequence
        /\ sender' = "boc-signed" /\ boc' = b
        /\ UNCHANGED <<recipient, giftRequest, giftResponse, pool, final, seen>>

\* The offer is sent; it may be lost, and the sender may not learn that it
\* arrived.
DeliverOffer ==
  /\ sender = "boc-signed"
  /\ sender' \in {"offer-delivered", "finality-unknown"}
  /\ \/ recipient' = "signed-offer-observed"
     \/ sender' = "finality-unknown" /\ UNCHANGED recipient
  /\ UNCHANGED <<giftRequest, giftResponse, boc, pool, final, seen>>

VerifyOffer ==
  /\ recipient = "signed-offer-observed"
  /\ VerifyNativeSend(boc, giftRequest, giftResponse, final)
  /\ recipient' = "verified"
  /\ UNCHANGED <<sender, giftRequest, giftResponse, boc, pool, final, seen>>

Broadcast ==
  /\ recipient = "verified"
  /\ recipient' = "broadcast-submitted" /\ pool' = pool \cup {"gift"}
  /\ UNCHANGED <<sender, giftRequest, giftResponse, boc, final, seen>>

\* The sender's owner cancels the sequence number of a signed gift.
CancelGift ==
  /\ boc # NotYet /\ "cancel" \notin pool
  /\ VerifyCancelSeqno(ParseCancelSeqno(boc), final)
  /\ pool' = pool \cup {"cancel"}
  /\ UNCHANGED <<sender, recipient, giftRequest, giftResponse, boc, final, seen>>

GiftCredited == \E i \in DOMAIN final.dst[boc.destination] : final.dst[boc.destination][i].msg = "gift"

\* A party that has sent or verified the offer reads the outcome at the
\* finalized checkpoint, or fails to.
ObserveGift(p) ==
  /\ IF p = "sender" THEN sender \in {"offer-delivered", "finality-unknown"}
     ELSE recipient \in {"verified", "broadcast-submitted", "finality-unknown"}
  /\ seen = [q \in Parties |-> NotYet]
  /\ \E v \in {NotAvailable} \cup (IF ResolveGiftFails(boc, final) THEN {} ELSE {ResolveGift(boc, final)}) :
       seen' = [seen EXCEPT ![p] = [answer |-> ResolveFinalizedGift(boc, v), credited |-> GiftCredited]]
  /\ UNCHANGED <<sender, recipient, giftRequest, giftResponse, boc, pool, final>>

\* It concludes from what it read, which may be old by now.
ConcludeSender ==
  /\ seen["sender"] # NotYet
  /\ LET answer == seen["sender"].answer
         to == IF answer \in Unpaid \cup {"finalized-paid", "finality-unknown"} THEN answer ELSE "offer-delivered"
     IN  /\ ValidateSenderTransition(sender, to)
         /\ sender' = to
  /\ seen' = [seen EXCEPT !["sender"] = NotYet]
  /\ UNCHANGED <<recipient, giftRequest, giftResponse, boc, pool, final>>

ConcludeRecipient ==
  /\ seen["recipient"] # NotYet
  /\ LET answer == seen["recipient"].answer
         to == IF answer \in Unpaid \cup {"finalized-paid", "finality-unknown"} THEN answer
               ELSE IF "gift" \in pool THEN "broadcast-submitted" ELSE "verified"
     IN  /\ ValidateRecipientTransition(recipient, to)
         /\ recipient' = to
  /\ seen' = [seen EXCEPT !["recipient"] = NotYet]
  /\ UNCHANGED <<sender, giftRequest, giftResponse, boc, pool, final>>
-----------------------------------------------------------------------------
(* The chain, as far as the code relies on it.                             *)

\* The account accepts a message for its epoch and its sequence number that
\* has not expired, and moves on to the next number.
Accepts(m) ==
  /\ m.epoch = final.account.epoch /\ m.seqno = final.account.seqno
  /\ final.time =< m.validUntil

Logged(msg, aborted, exact) ==
  Append(final.src, [msg |-> msg, aborted |-> aborted, exact |-> exact, at |-> final.time])

\* A payment that the balance does not cover uses up the number and sends
\* nothing, and so does an aborted transaction.
ExecuteGift ==
  /\ "gift" \in pool /\ Accepts(boc) /\ PolicyAllows(boc.amount, final)
  /\ \E aborted \in BOOLEAN :
       LET paid == ~aborted /\ final.account.balance >= boc.amount
           spent == IF DayOf(final.time) = final.account.day THEN final.account.spent ELSE 0
       IN  final' = [final EXCEPT
             !.account = [@ EXCEPT !.seqno = @ + 1, !.day = DayOf(final.time),
                                   !.spent = IF paid THEN spent + boc.amount ELSE spent,
                                   !.balance = IF paid THEN @ - boc.amount ELSE @],
             !.src = Logged("gift", aborted, paid), !.flying = paid]
  /\ UNCHANGED <<sender, recipient, giftRequest, giftResponse, boc, pool, seen>>

ExecuteCancel ==
  /\ "cancel" \in pool /\ Accepts(boc)
  /\ final' = [final EXCEPT !.account.seqno = @ + 1, !.src = Logged("cancel", FALSE, FALSE)]
  /\ UNCHANGED <<sender, recipient, giftRequest, giftResponse, boc, pool, seen>>

\* The transfer arrives in a later transaction of the destination.
Credit ==
  /\ final.flying
  /\ final' = [final EXCEPT !.flying = FALSE,
                          !.dst[boc.destination] = Append(@, [msg |-> "gift", at |-> final.time])]
  /\ UNCHANGED <<sender, recipient, giftRequest, giftResponse, boc, pool, seen>>

\* Other transactions of the two accounts: a payment that spends the sender's
\* balance, a lower limit or a new controller set by its owner, and busy times
\* that fill a whole window.
OtherPayment ==
  /\ boc # NotYet /\ final.other < MaxOther
  /\ \/ final' = [final EXCEPT !.other = @ + 1,
                              !.account = [@ EXCEPT !.seqno = @ + 1, !.balance = 0],
                              !.src = Logged("other", FALSE, FALSE)]
     \/ final' = [final EXCEPT !.other = @ + 1, !.account.daily = MaxPerTx,
                              !.src = Logged("other", FALSE, FALSE)]
     \/ final' = [final EXCEPT !.other = @ + 1, !.account.epoch = @ + 1,
                              !.src = Logged("other", FALSE, FALSE)]
     \/ final' = [final EXCEPT !.other = @ + 1, !.src = @ \o [i \in 1..MaxHistory |->
           [msg |-> "other", aborted |-> FALSE, exact |-> FALSE, at |-> final.time]]]
  /\ UNCHANGED <<sender, recipient, giftRequest, giftResponse, boc, pool, seen>>

OtherCredits ==
  /\ boc # NotYet /\ final.other < MaxOther
  /\ final' = [final EXCEPT !.other = @ + 1, !.dst[boc.destination] =
                  @ \o [i \in 1..MaxHistory |-> [msg |-> "other", at |-> final.time]]]
  /\ UNCHANGED <<sender, recipient, giftRequest, giftResponse, boc, pool, seen>>

GiftTick ==
  /\ boc # NotYet /\ final.time < GiftEnd
  /\ final' = [final EXCEPT !.time = @ + 1]
  /\ UNCHANGED <<sender, recipient, giftRequest, giftResponse, boc, pool, seen>>

GiftNext ==
  \/ RequestAddress \/ AnswerAddress \/ ReceiveAddress \/ SignGift \/ DeliverOffer
  \/ VerifyOffer \/ Broadcast \/ CancelGift
  \/ \E p \in Parties : ObserveGift(p)
  \/ ConcludeSender \/ ConcludeRecipient
  \/ ExecuteGift \/ ExecuteCancel \/ Credit \/ OtherPayment \/ OtherCredits
  \/ GiftTick
-----------------------------------------------------------------------------
Executed == \E i \in DOMAIN final.src : final.src[i].msg = "gift" /\ ~final.src[i].aborted

ConcludedUnpaid == sender \in Unpaid \/ recipient \in Unpaid

\* What a party concludes about a gift stands (ResolveFinalizedGift over what
\* ResolveGift read).  A party that holds the gift for paid has an exact,
\* agreed amount at the agreed address; no reading that shows the credit
\* supports "unpaid", however long the account histories; and once either
\* party has concluded "unpaid", the signed message never executes.
GiftOutcomeStands ==
  /\ [](/\ "finalized-paid" \in {sender, recipient} => GiftCredited
        /\ recipient = "finalized-paid" =>
             boc.amount = giftRequest.amount /\ boc.destination = giftResponse.destination
        /\ \A p \in Parties :
             seen[p] # NotYet /\ seen[p].credited => seen[p].answer \notin Unpaid)
  /\ [][ConcludedUnpaid => (Executed' => Executed)]_giftVars
=============================================================================
