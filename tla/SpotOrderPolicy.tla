--------------------------- MODULE SpotOrderPolicy ---------------------------
(* What the program decides about one spot order, twice and apart: the      *)
(* guard's checks of the proposal and of its Coinbase Preview               *)
(* (src/src/execution-policy.js), and the pinned Delta policy with the      *)
(* evidence it is evaluated on (src/src/mandate).  Decimals are integers of *)
(* one common scale, as parseDecimal and toScale bring two of them to one   *)
(* scale; a sum or a quotient of more than 18 digits before the point, which*)
(* the code cannot parse again, is left out.  How a size is written is a    *)
(* field of its own: of two decimals one may be '10' and the other '10.00'. *)
(* A digest is the value it is taken of; a solution is the action record it *)
(* encodes.                                                                 *)
EXTENDS Integers

CONSTANT Unit  \* the scale: the integer that stands for the decimal 1; 10^18 in the code
ASSUME UnitAssumption == Unit \in Nat \ {0}

Bps == 10000
MaxPreviewBboDriftBps == 50
MaxImpliedPriceDriftBps == 5

CeilDiv(a, b) == (a + b - 1) \div b

(* A bound is rounded to the increment, and always against the order: down  *)
(* for a purchase, up for a sale.                                           *)
FaultPriceBoundFromBps(ref, bps, inc, side) ==
    IF side = "BUY" THEN CeilDiv((ref * (Bps + bps)) \div Bps, inc) * inc
    ELSE CeilDiv(CeilDiv(ref * (Bps - bps), Bps), inc) * inc

PriceBoundFromBps(ref, bps, inc, side) ==
    IF side = "BUY" THEN (((ref * (Bps + bps)) \div Bps) \div inc) * inc
    ELSE CeilDiv(CeilDiv(ref * (Bps - bps), Bps), inc) * inc

IsSlippageWithinBps(fill, ref, bps, side) ==
    /\ fill > 0 /\ ref > 0
    /\ IF side = "BUY" THEN fill * Bps <= ref * (Bps + bps)
                       ELSE fill * Bps >= ref * (Bps - bps)

IsWithinRelativeBps(a, b, bps) ==
    /\ a > 0 /\ b > 0
    /\ (IF a >= b THEN a - b ELSE b - a) * Bps <= (IF a >= b THEN a ELSE b) * bps

IsWithinTolerance(a, b, tolerance) == a - b <= tolerance /\ b - a <= tolerance

(* divideDecimals: cut off at the last digit of the scale.                  *)
DivideDecimals(a, b) == (a * Unit) \div b

IsIncrementAligned(value, increment) == increment > 0 /\ value % increment = 0

Failing(checks) == {check \in DOMAIN checks : ~checks[check]}

PriceReference(side, book) == IF side = "BUY" THEN book.ask ELSE book.bid

SizeWithin(operator, value, authorized) ==
    IF operator = "EXACT" THEN value = authorized ELSE value <= authorized

NoCondition == [on |-> FALSE, value |-> 0]

(* The side fixes reference and operator of the absolute price condition.   *)
ConditionMet(condition, side, book) ==
    condition.on => IF side = "BUY" THEN book.ask <= condition.value
                                    ELSE book.bid >= condition.value

ValidatePolicy(p) ==
    /\ p.side \in {"BUY", "SELL"} /\ p.operator \in {"EXACT", "MAX"}
    /\ p.size > 0 /\ p.bps \in Nat /\ p.bps < Bps /\ p.commission >= 0 /\ p.settlement >= 0
    /\ p.side = "BUY" => p.settlement >= p.size
    /\ p.condition.on => p.condition.value > 0

(* ------------------- evidence the guard collects ------------------------ *)

NormalizeMarket(market) ==
    /\ market.online /\ ~market.disabled
    /\ market.bid > 0 /\ market.bid < market.ask
    /\ market.priceInc > 0 /\ market.quoteInc > 0 /\ market.baseInc > 0
    /\ market.min > 0 /\ market.min <= market.max

(* The authorized action; what it may take from the account is the cap on   *)
(* the debit for a purchase, the size for a sale.                           *)
CreateCanonicalSpotAction(p) ==
    [policy |-> p, fundingAsset |-> IF p.side = "BUY" THEN "quote" ELSE "base",
     required |-> IF p.side = "BUY" THEN p.settlement ELSE p.size]

FundingPasses(p, funding) ==
    LET action == CreateCanonicalSpotAction(p) IN
    /\ funding.complete /\ funding.asset = action.fundingAsset
    /\ funding.available >= action.required

(* proposeSpotOrder throws otherwise, priceBoundFromBps where no increment  *)
(* fits under the bound of a purchase.                                      *)
CanPropose(p, market) ==
    /\ p.product = market.product
    /\ IsIncrementAligned(p.size, IF p.side = "BUY" THEN market.quoteInc ELSE market.baseInc)
    /\ market.min <= p.size /\ p.size <= market.max
    /\ PriceBoundFromBps(PriceReference(p.side, market), p.bps, market.priceInc, p.side) > 0

ProposeSpotOrder(p, market) ==
    [product |-> p.product, side |-> p.side, size |-> p.size, text |-> p.text,
     limit |-> PriceBoundFromBps(PriceReference(p.side, market), p.bps, market.priceInc, p.side)]

(* --------------------------- the guard's checks ------------------------- *)

ProposalChecks(p, action, market) ==
    LET bound == PriceBoundFromBps(PriceReference(p.side, market), p.bps, market.priceInc, p.side)
    IN [PRICE_BOUND_UNAVAILABLE |-> bound > 0,
        MARKET_PRICE_CONDITION_NOT_MET |-> bound > 0 => ConditionMet(p.condition, p.side, market),
        PRODUCT_MISMATCH |-> action.product = p.product,
        SIDE_MISMATCH |-> action.side = p.side,
        SIZE_MISMATCH |-> action.size > 0 /\ SizeWithin(p.operator, action.size, p.size),
        INVALID_LIMIT_PRICE |-> action.limit > 0,
        LIMIT_PRICE_OUTSIDE_AUTHORIZED_BOUND |->
            action.limit > 0 /\ bound > 0 =>
              IF p.side = "BUY" THEN action.limit <= bound ELSE action.limit >= bound,
        INCREMENT_MISMATCH |->
            /\ IsIncrementAligned(action.size, IF p.side = "BUY" THEN market.quoteInc
                                                                 ELSE market.baseInc)
            /\ IsIncrementAligned(action.limit, market.priceInc)]

EvaluateExecutionProposal(p, action, market) == Failing(ProposalChecks(p, action, market))

(* The cautious reading of a Preview: the larger of two debits, the smaller *)
(* of two proceeds.  Proceeds below the commission cannot be subtracted.    *)
Settles(side, size, preview) ==
    side = "BUY" \/ (IF preview.total <= preview.quote THEN preview.total
                                                       ELSE preview.quote) >= preview.commission
DerivePreviewSettlement(side, size, preview) ==
    IF side = "BUY"
    THEN IF preview.total >= size + preview.commission THEN preview.total
                                                       ELSE size + preview.commission
    ELSE (IF preview.total <= preview.quote THEN preview.total ELSE preview.quote)
            - preview.commission

SettlementWithin(side, value, authorized) ==
    IF side = "BUY" THEN value <= authorized ELSE value >= authorized

PreviewUnverifiable ==
    {"PREVIEW_ERRORS", "MISSING_PREVIEW_ID", "INVALID_PREVIEW_DECIMAL", "PREVIEW_BBO_INVALID",
     "PREVIEW_BBO_DRIFT", "PREVIEW_SIZE_PRICE_INCONSISTENT", "PREVIEW_ORDER_TOTAL_INCONSISTENT",
     "SETTLEMENT_ECONOMICS_INVALID"}

PreviewChecks(p, action, market, preview) ==
    LET size == IF p.side = "BUY" THEN preview.quote ELSE preview.base
        decimals == {preview.total, preview.quote, preview.base, preview.fill,
                     preview.bid, preview.ask}
        book == preview.bid > 0 /\ preview.ask > 0 /\ preview.bid < preview.ask
    IN [PREVIEW_ERRORS |-> preview.errs = {},
        MISSING_PREVIEW_ID |-> preview.id # "",
        INVALID_PREVIEW_DECIMAL |-> preview.commission >= 0 /\ \A d \in decimals : d > 0,
        PREVIEW_SIZE_MISMATCH |-> size > 0 => size = action.size,
        PREVIEW_BBO_INVALID |-> book,
        PREVIEW_BBO_DRIFT |->
            book => /\ IsWithinRelativeBps(preview.bid, market.bid, MaxPreviewBboDriftBps)
                    /\ IsWithinRelativeBps(preview.ask, market.ask, MaxPreviewBboDriftBps),
        PREVIEW_MARKET_CONDITION_NOT_MET |-> book => ConditionMet(p.condition, p.side, preview),
        PREVIEW_SIZE_PRICE_INCONSISTENT |->
            preview.quote > 0 /\ preview.base > 0 /\ preview.fill > 0 =>
              IsWithinRelativeBps(DivideDecimals(preview.quote, preview.base), preview.fill,
                                  MaxImpliedPriceDriftBps),
        PREVIEW_ORDER_TOTAL_INCONSISTENT |->
            \/ IsWithinTolerance(preview.total, preview.quote, market.quoteInc)
            \/ IsWithinTolerance(preview.total, preview.quote + preview.commission,
                                 market.quoteInc),
        SETTLEMENT_ECONOMICS_INVALID |-> Settles(p.side, action.size, preview),
        SETTLEMENT_NOT_MET |->
            Settles(p.side, action.size, preview) =>
              SettlementWithin(p.side, DerivePreviewSettlement(p.side, action.size, preview),
                               p.settlement),
        COMMISSION_CAP_EXCEEDED |-> preview.commission > 0 => preview.commission <= p.commission,
        LIMIT_PRICE_VIOLATION |->
            preview.fill > 0 => IF p.side = "BUY" THEN preview.fill <= action.limit
                                                  ELSE preview.fill >= action.limit,
        SLIPPAGE_CAP_EXCEEDED |->
            preview.fill > 0 => IsSlippageWithinBps(preview.fill, PriceReference(p.side, market),
                                                    p.bps, p.side)]

PreviewFailures(p, action, market, preview) ==
    Failing(PreviewChecks(p, action, market, preview))

EvaluateExecutionPreview(p, action, market, preview) ==
    LET failures == PreviewFailures(p, action, market, preview) IN
    CASE failures \cap PreviewUnverifiable # {} -> "REVIEW"
      [] failures # {} /\ failures \cap PreviewUnverifiable = {} -> "BLOCK"
      [] failures = {} -> IF preview.warning # {} THEN "REVIEW" ELSE "PASS"
==============================================================================
