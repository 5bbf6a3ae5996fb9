-------------------------- MODULE PredictionMarket --------------------------
(***************************************************************************)
(* The collateral ledger and the order matching of a prediction market     *)
(* (pkg/predictionmarket/model.go, order.go). Accounts deposit collateral,  *)
(* split it into complete sets of YES and NO lots, merge sets back, trade  *)
(* lots through signed orders, and claim after the market is finalized.    *)
(* An operation works on a copy that replaces the market only when every   *)
(* check passes, so an operation that fails is no step. Amounts are        *)
(* unsigned words: a sum or product above MaxU64 is refused.               *)
(***************************************************************************)
EXTENDS Integers, FiniteSetsExt, TLC

CONSTANTS Owners,
          OrderCells,     \* the signed-order cells that reach the market
          SchemaVersion,
          TradingKeys,    \* public keys of the trading profile
          LotPayout, PriceScale, MaxU64,
          MarketMinimum,  \* smallest partial fill of the market
          TradeClose,
          DepositAmounts,       \* amounts a deposit may have
          Quantities,     \* lots an operation may ask for
          MaxDeposits, MaxNow

VARIABLES
  market,     \* ReferenceModel
  filled,     \* lots of each order already filled, kept by the caller
  deposits,   \* number and sum of the accepted deposits
  marketTime

marketVars == <<market, filled, deposits, marketTime>>

------------------------------------------------------------------------------
(***************************************************************************)
(* The cell of an order and of a signed order. A cell keeps in rest the    *)
(* data a decoder has not consumed. A hash is the cell it is taken of.     *)
(***************************************************************************)
ValidateOrder(order) ==
  /\ order.outcome \in {"yes", "no"}
  /\ order.quantity # 0 /\ order.minFill # 0 /\ order.minFill <= order.quantity
  /\ order.price # 0 /\ order.price < PriceScale
  /\ order.validUntil # 0 /\ order.validAfter < order.validUntil

BuildPredictionOrderCell(order) ==
  [magic |-> "order", version |-> SchemaVersion, rest |-> 0,
   terms |-> [action |-> order.action, outcome |-> order.outcome, role |-> order.role,
              quantity |-> order.quantity, minFill |-> order.minFill, partial |-> order.partial,
              price |-> order.price, validAfter |-> order.validAfter,
              validUntil |-> order.validUntil],
   market |-> [address |-> order.market, rest |-> 0],
   owner |-> [address |-> order.owner, present |-> order.counterparty # "anyone",
              counterparty |-> order.counterparty, rest |-> 0]]

DecodeMarketBinding(binding) == binding.rest = 0
DecodeOwnerBinding(binding) ==
  /\ binding.rest = 0
  /\ binding.present = (binding.counterparty # "anyone")

OrderOf(cell) ==
  cell.terms @@ [market |-> cell.market.address, owner |-> cell.owner.address,
                 counterparty |-> cell.owner.counterparty]

\* A decoded order is valid, and building it again gives the cell.
DecodePredictionOrderV1(cell) ==
  /\ cell.magic = "order" /\ cell.version = SchemaVersion /\ cell.rest = 0
  /\ DecodeMarketBinding(cell.market) /\ DecodeOwnerBinding(cell.owner)
  /\ ValidateOrder(OrderOf(cell))
  /\ BuildPredictionOrderCell(OrderOf(cell)) = cell

\* The digest is the hash of an authorization cell in a domain of its own.
BuildOrderAuthorizationCell(cell) ==
  [magic |-> "order-authorization", version |-> SchemaVersion,
   market |-> OrderOf(cell).market, order |-> cell]

BuildSignedPredictionOrderCell(cell, key, signature) ==
  [magic |-> "signed-order", version |-> SchemaVersion, rest |-> 0,
   key |-> key, order |-> cell, signature |-> signature]

SignPredictionOrder(order, key) ==
  LET cell == BuildPredictionOrderCell(order) IN
  BuildSignedPredictionOrderCell(cell, key,
    [by |-> key, over |-> BuildOrderAuthorizationCell(cell), rest |-> 0])

DecodeAndVerifySignedPredictionOrder(signed) ==
  /\ signed.magic = "signed-order" /\ signed.version = SchemaVersion /\ signed.rest = 0
  /\ signed.key \in TradingKeys
  /\ signed.signature.rest = 0
  /\ DecodePredictionOrderV1(signed.order)
  /\ signed.signature.by = signed.key
  /\ signed.signature.over = BuildOrderAuthorizationCell(signed.order)
  /\ BuildSignedPredictionOrderCell(signed.order, signed.key, signed.signature) = signed

\* The orders that can be filled.
Orders == {OrderOf(c.order) : c \in {c \in OrderCells : DecodeAndVerifySignedPredictionOrder(c)}}

------------------------------------------------------------------------------
FinalOutcomes == {"yes", "no", "invalid"}
NoBalance == [free |-> 0, yes |-> 0, no |-> 0]

\* NewReferenceModel with an empty account map.
MarketInit ==
  /\ LotPayout # 0 /\ LotPayout % PriceScale = 0
  /\ market = [accounts |-> << >>, sets |-> 0, locked |-> 0,
              final |-> "none", backing |-> 0, liability |-> 0, claimed |-> 0]
  /\ filled = [o \in Orders |-> 0]
  /\ deposits = [count |-> 0, sum |-> 0]
  /\ marketTime = 0

------------------------------------------------------------------------------
Fits64(n) == n <= MaxU64

AccountBalance(m, owner) == IF owner \in DOMAIN m.accounts THEN m.accounts[owner] ELSE NoBalance
WithAccount(m, owner, a) == [m EXCEPT !.accounts = (owner :> a) @@ @]
SumOver(m, field) == MapThenSumSet(LAMBDA owner : m.accounts[owner][field], DOMAIN m.accounts)

CheckInvariants(m) ==
  IF m.final # "none"
  THEN m.liability + m.claimed = m.backing /\ m.locked = 0
  ELSE /\ SumOver(m, "yes") = m.sets /\ SumOver(m, "no") = m.sets
       /\ Fits64(m.sets) /\ Fits64(m.locked) /\ m.sets * LotPayout = m.locked

TotalBacking(m) == SumOver(m, "free") + IF m.final = "none" THEN m.locked ELSE m.liability

\* The copy replaces the model, after the last check.
CommitModel(m) == CheckInvariants(m) /\ market' = m

------------------------------------------------------------------------------
Deposit(owner, amount) ==
  LET a == AccountBalance(market, owner) IN
  /\ deposits.count < MaxDeposits
  /\ amount # 0 /\ market.final = "none"
  /\ Fits64(a.free + amount)
  /\ CommitModel(WithAccount(market, owner, [a EXCEPT !.free = @ + amount]))
  /\ deposits' = [count |-> deposits.count + 1, sum |-> deposits.sum + amount]
  /\ UNCHANGED <<filled, marketTime>>

\* Lots move in (d = 1) or out (d = -1) of complete sets, the collateral the
\* other way.
MoveSets(m, d, quantity) ==
  [m EXCEPT !.sets = @ + d * quantity, !.locked = @ + d * quantity * LotPayout]

Split(owner, quantity) ==
  LET a == AccountBalance(market, owner)
      debit == quantity * LotPayout IN
  /\ market.final = "none" /\ quantity # 0
  /\ Fits64(debit) /\ a.free >= debit
  /\ Fits64(a.yes + quantity) /\ Fits64(a.no + quantity)
  /\ Fits64(market.sets + quantity) /\ Fits64(market.locked + debit)
  /\ CommitModel(MoveSets(WithAccount(market, owner,
       [free |-> a.free - debit, yes |-> a.yes + quantity, no |-> a.no + quantity]), 1, quantity))
  /\ UNCHANGED <<filled, deposits, marketTime>>

Merge(owner, quantity) ==
  LET a == AccountBalance(market, owner)
      credit == quantity * LotPayout IN
  /\ market.final = "none" /\ quantity # 0
  /\ Fits64(credit) /\ Fits64(a.free + credit)
  /\ a.yes >= quantity /\ a.no >= quantity
  /\ market.sets >= quantity /\ market.locked >= credit
  /\ CommitModel(MoveSets(WithAccount(market, owner,
       [free |-> a.free + credit, yes |-> a.yes - quantity, no |-> a.no - quantity]), -1, quantity))
  /\ UNCHANGED <<filled, deposits, marketTime>>

------------------------------------------------------------------------------
(***************************************************************************)
(* Orders. An order names its market domain, its owner, what it buys or    *)
(* sells, its limit and the interval in which it may be filled.            *)
(***************************************************************************)
EffectiveMinimum(order) ==
  IF order.minFill > MarketMinimum THEN order.minFill ELSE MarketMinimum

LeaveDust(order, quantity) ==
  LET remaining == order.quantity - filled[order] IN
  /\ ValidateOrder(order)
  /\ quantity # 0 /\ quantity <= remaining
  /\ order.validAfter <= marketTime /\ marketTime < order.validUntil /\ order.validUntil <= TradeClose
  /\ \/ quantity = remaining
     \/ order.partial /\ quantity >= EffectiveMinimum(order)

ValidateOrderFill(order, quantity) ==
  LET remaining == order.quantity - filled[order]
      minimum == EffectiveMinimum(order) IN
  /\ ValidateOrder(order)
  /\ quantity # 0 /\ quantity <= remaining
  /\ order.validAfter <= marketTime /\ marketTime < order.validUntil /\ order.validUntil <= TradeClose
  /\ \/ quantity = remaining
     \/ order.partial /\ quantity >= minimum /\ remaining - quantity >= minimum

\* The YES price at which a match with this maker executes.
YesPrice(maker) == IF maker.outcome = "no" THEN PriceScale - maker.price ELSE maker.price

OrderAcceptsPrice(order, yesPrice) ==
  LET price == IF order.outcome = "no" THEN PriceScale - yesPrice ELSE yesPrice IN
  IF order.action = "buy" THEN price <= order.price ELSE price >= order.price

CounterpartyOK(order, other) == order.counterparty \in {"anyone", other.owner}

\* MatchAmounts of a match at this price.
MatchValue(outcome, yesPrice, quantity) ==
  quantity * (LotPayout \div PriceScale) * (IF outcome = "no" THEN PriceScale - yesPrice ELSE yesPrice)

\* An order's side of a match: its owner pays or is paid, and gets or gives lots.
MatchSide(order, yesPrice, quantity) ==
  LET d == IF order.action = "buy" THEN 1 ELSE -1
      a == AccountBalance(market, order.owner) IN
  [a EXCEPT !.free = @ - d * MatchValue(order.outcome, yesPrice, quantity),
            ![order.outcome] = @ + d * quantity]

InRange64(a) == \A field \in {"free", "yes", "no"} : a[field] >= 0 /\ Fits64(a[field])

\* Both sides of a match: lots for collateral at the execution price.
Sided(maker, taker, yesPrice, quantity) ==
  WithAccount(WithAccount(market, maker.owner, MatchSide(maker, yesPrice, quantity)),
              taker.owner, MatchSide(taker, yesPrice, quantity))

ApplyMint(maker, taker, yesPrice, quantity) ==
  MoveSets(Sided(maker, taker, yesPrice, quantity), 1, quantity)

ApplyTransfer(maker, taker, yesPrice, quantity) == Sided(maker, taker, yesPrice, quantity)

ApplyMergeMatch(maker, taker, yesPrice, quantity) ==
  MoveSets(Sided(maker, taker, yesPrice, quantity), -1, quantity)

MatchKind(maker, taker) ==
  CASE maker.action = "buy" /\ taker.action = "buy" /\ maker.outcome # taker.outcome -> "mint"
    [] maker.action # taker.action /\ maker.outcome = taker.outcome -> "transfer"
    [] maker.action = "sell" /\ taker.action = "sell" /\ maker.outcome # taker.outcome -> "merge"
    [] OTHER -> "none"

ApplyMatch(maker, taker, yesPrice, quantity) ==
  CASE MatchKind(maker, taker) = "mint" -> ApplyMint(maker, taker, yesPrice, quantity)
    [] MatchKind(maker, taker) = "merge" -> ApplyMergeMatch(maker, taker, yesPrice, quantity)
    [] OTHER -> ApplyTransfer(maker, taker, yesPrice, quantity)

\* The caller validates the fill of both orders, matches them, and counts
\* the lots as filled.
MatchOrders(maker, taker, quantity) ==
  LET yesPrice == YesPrice(maker)
      next == ApplyMatch(maker, taker, yesPrice, quantity) IN
  /\ ValidateOrderFill(maker, quantity) /\ ValidateOrderFill(taker, quantity)
  /\ market.final = "none" /\ maker.owner # taker.owner
  /\ maker.role = "maker" /\ taker.role = "taker"
  /\ maker.market = taker.market
  /\ CounterpartyOK(maker, taker) /\ CounterpartyOK(taker, maker)
  /\ OrderAcceptsPrice(taker, yesPrice)
  /\ Fits64(quantity * LotPayout) /\ Fits64(TotalBacking(market))
  /\ MatchKind(maker, taker) # "none"
  /\ InRange64(MatchSide(maker, yesPrice, quantity)) /\ InRange64(MatchSide(taker, yesPrice, quantity))
  /\ next.sets \in 0 .. MaxU64 /\ next.locked \in 0 .. MaxU64
  /\ TotalBacking(next) = TotalBacking(market)
  /\ CommitModel(next)
  /\ filled' = [filled EXCEPT ![maker] = @ + quantity, ![taker] = @ + quantity]
  /\ UNCHANGED <<deposits, marketTime>>

------------------------------------------------------------------------------
Finalize(outcome) ==
  /\ market.final = "none" /\ CheckInvariants(market)
  /\ outcome = "invalid" => LotPayout % 2 = 0
  /\ CommitModel([market EXCEPT !.final = outcome, !.backing = market.locked,
                          !.liability = market.locked, !.locked = 0])
  /\ UNCHANGED <<filled, deposits, marketTime>>

Payout(m, owner) ==
  LET a == AccountBalance(m, owner) IN
  CASE m.final = "yes" -> a.yes * LotPayout
    [] m.final = "no" -> a.no * LotPayout
    [] OTHER -> (a.yes + a.no) * (LotPayout \div 2)

ClaimedKeepingLots(m, owner) ==
  LET payout == Payout(m, owner) IN
  [WithAccount(m, owner, [m.accounts[owner] EXCEPT !.free = @ + payout])
     EXCEPT !.liability = @ - payout, !.claimed = @ + payout]

Claimed(m, owner) ==
  LET payout == Payout(m, owner) IN
  [WithAccount(m, owner, [free |-> m.accounts[owner].free + payout, yes |-> 0, no |-> 0])
     EXCEPT !.liability = @ - payout, !.claimed = @ + payout]

\* The checks of ClaimPayout, CheckInvariants of the result included.
CanClaim(m, owner) ==
  LET payout == Payout(m, owner) IN
  /\ m.final # "none" /\ owner \in DOMAIN m.accounts
  /\ Fits64(m.accounts[owner].yes + m.accounts[owner].no) /\ Fits64(payout)
  /\ Fits64(m.accounts[owner].free + payout) /\ Fits64(m.claimed + payout)
  /\ m.liability >= payout
  /\ CheckInvariants(Claimed(m, owner))

ClaimPayout(owner) ==
  /\ CanClaim(market, owner)
  /\ market' = Claimed(market, owner)
  /\ UNCHANGED <<filled, deposits, marketTime>>

MarketTick ==
  /\ marketTime < MaxNow /\ marketTime' = marketTime + 1
  /\ UNCHANGED <<market, filled, deposits>>

MarketNext ==
  \/ \E owner \in Owners, amount \in DepositAmounts : Deposit(owner, amount)
  \/ \E owner \in Owners, quantity \in Quantities : Split(owner, quantity)
  \/ \E owner \in Owners, quantity \in Quantities : Merge(owner, quantity)
  \/ \E maker, taker \in Orders, quantity \in Quantities : MatchOrders(maker, taker, quantity)
  \/ \E outcome \in FinalOutcomes : Finalize(outcome)
  \/ \E owner \in Owners : ClaimPayout(owner)
  \/ MarketTick

------------------------------------------------------------------------------
(***************************************************************************)
(* Properties                                                              *)
(***************************************************************************)
\* No operation creates or destroys collateral, and after Finalize what the
\* remaining positions are owed is exactly the liability that is left, so
\* each owner who is owed something can claim it in any order ("Claim order
\* cannot affect aggregate payouts or solvency"). A claim may only be
\* refused when more was deposited than a 64-bit balance can hold.
Solvent ==
  /\ TotalBacking(market) = deposits.sum
  /\ market.final # "none" =>
       /\ MapThenSumSet(LAMBDA owner : Payout(market, owner), DOMAIN market.accounts) = market.liability
       /\ Fits64(deposits.sum) => \A owner \in DOMAIN market.accounts : CanClaim(market, owner)

\* A fill gives an order's owner exactly the lots of the fill, for no more
\* (no less, when selling) than the order's limit, and leaves the order
\* fully filled or with at least its effective minimum to fill; an order
\* that forbids partial fills is filled at once (ValidateOrderFill and Match).
\* Every filled order was signed as it is.
OrderHonoured ==
  [][\A order \in Orders :
       LET lots == filled'[order] - filled[order]
           d == IF order.action = "buy" THEN 1 ELSE -1
           before == AccountBalance(market, order.owner)
           after == AccountBalance(market', order.owner)
           limit == d * lots * (LotPayout \div PriceScale) * order.price
           left == order.quantity - filled'[order] IN
       lots # 0 =>
         /\ \E c \in OrderCells : c.signature.over =
              BuildOrderAuthorizationCell(BuildPredictionOrderCell(order))
         /\ after[order.outcome] - before[order.outcome] = d * lots
         /\ before.free - after.free <= limit
         /\ \/ left = 0
            \/ order.partial /\ left >= EffectiveMinimum(order)]_marketVars
=============================================================================
