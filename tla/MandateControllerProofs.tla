----------------------- MODULE MandateControllerProofs -----------------------
(* An order that fails no constraint of the mandate is within what the       *)
(* human authorized, in exact fractions: however the bounds are rounded, no  *)
(* rounding is in favour of the order.  And whatever the services answer,    *)
(* about whichever intent, a run executes at most the one candidate that its *)
(* own intent proves to be within the confirmed policy, and proposes again   *)
(* only after its own was refused.  No run is endless.                       *)
EXTENDS MandateController, TLAPS

(* --------------------------- the policy's bounds -------------------------- *)

(* A quotient is cut off below, and CeilDiv above.                          *)
LEMMA DivBound ==
    ASSUME NEW a \in Int, NEW b \in Int, b > 0
    PROVE  a \div b \in Int /\ (a \div b) * b <= a /\ a < (a \div b) * b + b
  BY SMT

LEMMA CeilDivBound ==
    ASSUME NEW a \in Int, NEW b \in Int, b > 0
    PROVE  CeilDiv(a, b) \in Int /\ a <= CeilDiv(a, b) * b
<1>1. a + b - 1 \in Int  OBVIOUS
<1>2. /\ (a + b - 1) \div b \in Int
      /\ a + b - 1 < ((a + b - 1) \div b) * b + b
  BY <1>1, DivBound
<1> QED BY <1>1, <1>2 DEF CeilDiv

(* priceBoundFromBps: the bound of a purchase is not above the exact one,   *)
(* and that of a sale not below it.                                         *)
LEMMA BoundIsStrict ==
    ASSUME NEW ref \in Int, NEW bps \in Int, 0 <= bps, bps < Bps, NEW inc \in Int, inc > 0, NEW side
    PROVE  /\ PriceBoundFromBps(ref, bps, inc, side) \in Int
           /\ side = "BUY" => PriceBoundFromBps(ref, bps, inc, side) * Bps <= ref * (Bps + bps)
           /\ side # "BUY" => PriceBoundFromBps(ref, bps, inc, side) * Bps >= ref * (Bps - bps)
<1> DEFINE bound == PriceBoundFromBps(ref, bps, inc, side)
<1>1. /\ Bps \in Int /\ Bps > 0 /\ ref * (Bps + bps) \in Int /\ ref * (Bps - bps) \in Int
  BY DEF Bps
<1>2. CASE side = "BUY"
  <2> DEFINE exact == ref * (Bps + bps)
             cut == exact \div Bps
  <2>1. cut \in Int /\ cut * Bps <= exact
    BY <1>1, DivBound
  <2>2. (cut \div inc) * inc \in Int /\ (cut \div inc) * inc <= cut
    BY <2>1, DivBound
  <2>3. ((cut \div inc) * inc) * Bps <= cut * Bps
    BY <2>1, <2>2 DEF Bps
  <2>4. bound = (cut \div inc) * inc
    BY <1>2 DEF PriceBoundFromBps
  <2> HIDE DEF bound, exact, cut
  <2>5. bound * Bps <= exact
    BY <1>1, <2>1, <2>2, <2>3, <2>4 DEF exact, Bps
  <2> QED BY <1>2, <2>2, <2>4, <2>5 DEF exact, bound
<1>3. CASE side # "BUY"
  <2> DEFINE exact == ref * (Bps - bps)
             cut == CeilDiv(exact, Bps)
  <2>1. cut \in Int /\ exact <= cut * Bps
    BY <1>1, CeilDivBound
  <2>2. CeilDiv(cut, inc) * inc \in Int /\ cut <= CeilDiv(cut, inc) * inc
    BY <2>1, CeilDivBound
  <2>3. cut * Bps <= (CeilDiv(cut, inc) * inc) * Bps
    BY <2>1, <2>2 DEF Bps
  <2>4. bound = CeilDiv(cut, inc) * inc
    BY <1>3 DEF PriceBoundFromBps
  <2> HIDE DEF bound, exact, cut
  <2>5. exact <= bound * Bps
    BY <1>1, <2>1, <2>2, <2>3, <2>4 DEF exact, Bps
  <2> QED BY <1>3, <2>2, <2>4, <2>5 DEF exact, bound
<1> QED BY <1>2, <1>3

(* slippageBps: a slippage in whole basis points within the cap is within   *)
(* it exactly.                                                              *)
LEMMA SlippageIsStrict ==
    ASSUME NEW fill \in Int, NEW ref \in Int, ref > 0, NEW bps \in Int, 0 <= bps, bps < Bps, NEW side,
           SlippageBps(fill, ref, side) <= bps
    PROVE  /\ side = "BUY" => fill * Bps <= ref * (Bps + bps)
           /\ side # "BUY" => fill * Bps >= ref * (Bps - bps)
<1> DEFINE adverse == IF side = "BUY" THEN fill - ref ELSE ref - fill
<1>1. adverse \in Int  OBVIOUS
<1> DEFINE scaled == adverse * Bps
           margin == bps * ref
           quotient == CeilDiv(scaled, ref)
<1>2. scaled \in Int
  BY <1>1 DEF Bps
<1>3. margin \in Int /\ 0 <= margin
  OBVIOUS
<1>4. quotient \in Int /\ scaled <= quotient * ref
  <2> HIDE DEF scaled
  <2> QED BY <1>2, CeilDivBound
<1>5. scaled <= margin
  <2>1. CASE adverse <= 0
    <3>1. scaled <= 0
      BY <2>1, <1>1 DEF Bps
    <3> HIDE DEF scaled, margin
    <3> QED BY <3>1, <1>2, <1>3
  <2>2. CASE ~(adverse <= 0)
    <3>1. SlippageBps(fill, ref, side) = quotient
      BY <2>2 DEF SlippageBps
    <3> HIDE DEF quotient
    <3>2. quotient * ref \in Int /\ quotient * ref <= bps * ref
      BY <3>1, <1>4
    <3> DEFINE product == quotient * ref
    <3>3. product \in Int /\ scaled <= product /\ product <= margin
      BY <3>2, <1>4
    <3> HIDE DEF scaled, margin, product
    <3> QED BY <3>3, <1>2, <1>3
  <2> QED BY <2>1, <2>2
<1> QED BY <1>5 DEF Bps
(* The other way round: a slippage within the cap is within it in whole     *)
(* basis points too, because the cap is whole.                              *)
LEMMA CeilDivLeast ==
    ASSUME NEW a \in Int, NEW b \in Int, b > 0, NEW c \in Int, a <= c * b
    PROVE  CeilDiv(a, b) <= c
<1>1. PICK q \in Int : q = CeilDiv(a, b) /\ q * b <= a + b - 1
  <2>1. a + b - 1 \in Int  OBVIOUS
  <2> QED BY <2>1, DivBound DEF CeilDiv
<1>2. SUFFICES ASSUME q >= c + 1 PROVE FALSE
  BY <1>1
<1>3. PICK d \in Int : d = q - (c + 1)
  OBVIOUS
<1>4. d >= 0 /\ q = d + (c + 1)
  BY <1>2, <1>3
<1>5. d * b >= 0
  BY <1>4
<1>6. q * b = d * b + c * b + b
  BY <1>4
<1>7. d * b \in Int /\ c * b \in Int
  OBVIOUS
<1> QED BY <1>1, <1>5, <1>6, <1>7

LEMMA SlippageIsRounded ==
    ASSUME NEW fill \in Int, NEW ref \in Int, ref > 0, NEW bps \in Int, 0 <= bps, bps < Bps, NEW side,
           IsSlippageWithinBps(fill, ref, bps, side)
    PROVE  SlippageBps(fill, ref, side) <= bps
<1> DEFINE adverse == IF side = "BUY" THEN fill - ref ELSE ref - fill
<1>1. adverse \in Int  OBVIOUS
<1>2. adverse * Bps \in Int /\ bps * ref \in Int
  BY <1>1 DEF Bps
<1>3. adverse * Bps <= bps * ref
  BY DEF IsSlippageWithinBps, Bps
<1> HIDE DEF adverse
<1>4. CeilDiv(adverse * Bps, ref) <= bps
  BY <1>2, <1>3, CeilDivLeast
<1> QED BY <1>4 DEF SlippageBps, adverse

LEMMA MultipleIsAligned ==
    ASSUME NEW n \in Int, NEW inc \in Int, inc > 0
    PROVE  IsIncrementAligned(n * inc, inc)
<1>1. PICK m \in Int : m = n * inc
  OBVIOUS
<1>2. PICK q \in Int : q = m \div inc /\ q * inc <= m /\ m < q * inc + inc
  BY DivBound
<1>3. PICK d \in Int : d = n - q
  OBVIOUS
<1>4. n = d + q
  BY <1>3
<1>5. m = d * inc + q * inc /\ d * inc \in Int /\ q * inc \in Int
  BY <1>1, <1>4
<1>6. 0 <= d * inc /\ d * inc < inc
  BY <1>2, <1>5
<1>7. d = 0
  <2>1. ASSUME d >= 1 PROVE d * inc >= inc
    <3> PICK e \in Nat : e = d - 1
      BY <2>1
    <3>1. d = e + 1 /\ e * inc >= 0
      OBVIOUS
    <3>2. d * inc = e * inc + inc
      BY <3>1
    <3> QED BY <3>1, <3>2
  <2>2. ASSUME d <= -1 PROVE d * inc < 0
    BY <2>2
  <2> QED BY <1>6, <2>1, <2>2
<1>8. m = q * inc
  BY <1>5, <1>7
<1>9. m % inc = m - q * inc
  BY <1>2
<1> QED BY <1>1, <1>8, <1>9 DEF IsIncrementAligned

(* proposer.js and execution-policy.js: to the order that the proposer makes*)
(* of a policy the guard has nothing to object but the market's own price.  *)
LEMMA ProposedIsWithinBound ==
    ASSUME NEW p, ValidatePolicy(p), PolicyNumbers(p), NEW market,
           market.bid \in Int, market.ask \in Int, market.priceInc \in Int,
           NormalizeMarket(market), CanPropose(p, market)
    PROVE  EvaluateExecutionProposal(p, ProposeSpotOrder(p, market), market)
             \subseteq {"MARKET_PRICE_CONDITION_NOT_MET"}
<1> DEFINE ref == PriceReference(p.side, market)
           bound == PriceBoundFromBps(ref, p.bps, market.priceInc, p.side)
           action == ProposeSpotOrder(p, market)
<1>1. /\ action.product = p.product /\ action.side = p.side /\ action.size = p.size
      /\ action.limit = bound
  BY DEF ProposeSpotOrder
<1>2. bound > 0 /\ p.product = market.product /\ p.size > 0 /\ p.size \in Int
  BY DEF CanPropose, ValidatePolicy, PolicyNumbers
<1>3. bound \in Int /\ IsIncrementAligned(bound, market.priceInc)
  <2>1. ref \in Int /\ market.priceInc > 0
    BY DEF PriceReference, NormalizeMarket
  <2>2. p.bps \in Int
    BY DEF ValidatePolicy
  <2> DEFINE cut == (ref * (Bps + p.bps)) \div Bps
             up == CeilDiv(ref * (Bps - p.bps), Bps)
  <2>3. ref * (Bps + p.bps) \in Int /\ ref * (Bps - p.bps) \in Int
    BY <2>1, <2>2 DEF Bps
  <2>4. cut \in Int /\ up \in Int
    BY <2>3, DivBound, CeilDivBound DEF Bps
  <2>5. bound = IF p.side = "BUY" THEN (cut \div market.priceInc) * market.priceInc
                                  ELSE CeilDiv(up, market.priceInc) * market.priceInc
    BY DEF PriceBoundFromBps
  <2> HIDE DEF cut, up, ref
  <2>6. cut \div market.priceInc \in Int /\ CeilDiv(up, market.priceInc) \in Int
    BY <2>1, <2>4, DivBound, CeilDivBound
  <2>7. PICK n \in Int : bound = n * market.priceInc
    BY <2>5, <2>6
  <2> HIDE DEF bound
  <2>8. IsIncrementAligned(n * market.priceInc, market.priceInc)
    BY <2>1, MultipleIsAligned
  <2> QED BY <2>1, <2>7, <2>8
<1>4. IsIncrementAligned(p.size, IF p.side = "BUY" THEN market.quoteInc ELSE market.baseInc)
  BY DEF CanPropose
<1>5. SizeWithin(p.operator, p.size, p.size)
  BY <1>2 DEF SizeWithin
<1> DEFINE checks == ProposalChecks(p, action, market)
<1> HIDE DEF action
<1>6. DOMAIN checks = {"PRICE_BOUND_UNAVAILABLE", "MARKET_PRICE_CONDITION_NOT_MET", "PRODUCT_MISMATCH",
                       "SIDE_MISMATCH", "SIZE_MISMATCH", "INVALID_LIMIT_PRICE",
                       "LIMIT_PRICE_OUTSIDE_AUTHORIZED_BOUND", "INCREMENT_MISMATCH"}
  BY DEF ProposalChecks
<1>7. /\ checks["PRICE_BOUND_UNAVAILABLE"] = (bound > 0)
      /\ checks["PRODUCT_MISMATCH"] = (action.product = p.product)
      /\ checks["SIDE_MISMATCH"] = (action.side = p.side)
      /\ checks["SIZE_MISMATCH"] = (action.size > 0 /\ SizeWithin(p.operator, action.size, p.size))
      /\ checks["INVALID_LIMIT_PRICE"] = (action.limit > 0)
  BY DEF ProposalChecks
<1>8. checks["LIMIT_PRICE_OUTSIDE_AUTHORIZED_BOUND"] =
        (action.limit > 0 /\ bound > 0 =>
           IF p.side = "BUY" THEN action.limit <= bound ELSE action.limit >= bound)
  BY DEF ProposalChecks
<1>9. checks["INCREMENT_MISMATCH"] =
        (/\ IsIncrementAligned(action.size, IF p.side = "BUY" THEN market.quoteInc
                                                              ELSE market.baseInc)
         /\ IsIncrementAligned(action.limit, market.priceInc))
  BY DEF ProposalChecks
<1> HIDE DEF bound, checks, ref
<1>10. checks["LIMIT_PRICE_OUTSIDE_AUTHORIZED_BOUND"]
  <2>1. IF p.side = "BUY" THEN action.limit <= bound ELSE action.limit >= bound
    BY <1>1, <1>3
  <2> QED BY Zenon, <1>8, <2>1
<1>11. checks["INCREMENT_MISMATCH"]
  BY <1>1, <1>3, <1>4, <1>9
<1>12. /\ checks["PRICE_BOUND_UNAVAILABLE"] /\ checks["PRODUCT_MISMATCH"] /\ checks["SIDE_MISMATCH"]
       /\ checks["SIZE_MISMATCH"] /\ checks["INVALID_LIMIT_PRICE"]
  BY <1>1, <1>2, <1>5, <1>7
<1>13. Failing(checks) \subseteq {"MARKET_PRICE_CONDITION_NOT_MET"}
  BY <1>6, <1>10, <1>11, <1>12 DEF Failing
<1> QED BY <1>13 DEF EvaluateExecutionProposal, checks, action

(* Together: a limit within the rounded bound, and a slippage within the     *)
(* rounded cap, are within the margin itself.                               *)
LEMMA MarginIsStrict ==
    ASSUME NEW ref \in Int, ref > 0, NEW bps \in Int, 0 <= bps, bps < Bps, NEW inc \in Int, inc > 0, NEW side,
           NEW limit \in Int, NEW fill \in Int,
           side = "BUY" => limit <= PriceBoundFromBps(ref, bps, inc, side),
           side # "BUY" => limit >= PriceBoundFromBps(ref, bps, inc, side),
           SlippageBps(fill, ref, side) <= bps
    PROVE  /\ side = "BUY" => /\ limit * Bps <= ref * (Bps + bps)
                              /\ fill * Bps <= ref * (Bps + bps)
           /\ side # "BUY" => /\ limit * Bps >= ref * (Bps - bps)
                              /\ fill * Bps >= ref * (Bps - bps)
<1> DEFINE bound == PriceBoundFromBps(ref, bps, inc, side)
           above == ref * (Bps + bps)
           below == ref * (Bps - bps)
<1>1. above \in Int /\ below \in Int
  BY DEF Bps
<1>2. /\ bound \in Int
      /\ side = "BUY" => bound * Bps <= above
      /\ side # "BUY" => bound * Bps >= below
  BY BoundIsStrict
<1>3. /\ side = "BUY" => fill * Bps <= above
      /\ side # "BUY" => fill * Bps >= below
  BY SlippageIsStrict
<1>4. /\ side = "BUY" => limit <= bound
      /\ side # "BUY" => limit >= bound
  OBVIOUS
<1>5. /\ side = "BUY" => limit * Bps <= above
      /\ side # "BUY" => limit * Bps >= below
  <2> HIDE DEF bound, above, below
  <2> QED BY <1>1, <1>2, <1>4 DEF Bps
<1> QED BY <1>3, <1>5

(* The constraints of the policy.                                           *)
Constraints ==
    {"product_id", "side", "size_operator", "size", "funding_asset", "action_descriptor",
     "limit_price", "slippage", "commission", "settlement", "market_condition",
     "funding_sufficient", "credential", "expiry", "preview_request", "preview_id",
     "market_status", "market_flags"}

(* What the constraints say of a record, in the record's own terms.         *)
LEMMA NoneFails ==
    ASSUME NEW p, NEW record, NEW credential, NEW expiry, NEW at,
           PolicyFailures(BuildPolicyBundle(p, credential, expiry), record, at) = {}
    PROVE  LET order == record.payload
               debited == DerivePreviewSettlement(order.side, order.size, record.preview)
           IN /\ order.product = p.product /\ order.side = p.side
              /\ record.descriptor = CreateCanonicalSpotAction(p)
              /\ SizeWithin(p.operator, order.size, p.size)
              /\ IF order.side = "BUY" THEN order.limit <= AuthorizedLimit(record)
                                       ELSE order.limit >= AuthorizedLimit(record)
              /\ SlippageBps(record.preview.fill, PriceReference(order.side, record.market),
                             order.side) <= p.bps
              /\ record.preview.commission <= p.commission
              /\ SettlementWithin(p.side, debited, p.settlement)
              /\ ConditionMet(record.descriptor.policy.condition, record.descriptor.policy.side,
                              record.market)
              /\ ConditionMet(record.descriptor.policy.condition, record.descriptor.policy.side,
                              record.preview)
              /\ record.funding.available >= record.funding.required
<1> DEFINE params == BuildPolicyBundle(p, credential, expiry)
           evidence == ExtractEvidence(record, at)
           checks == PolicyChecks(params, evidence)
<1>1. \A check \in DOMAIN checks : checks[check]
  BY DEF PolicyFailures, EvaluateSimulatedCoinbasePolicy, Failing
<1>2. {"product_id", "side", "size", "action_descriptor", "limit_price", "slippage", "commission",
       "settlement", "market_condition", "funding_sufficient"} \subseteq DOMAIN checks
  BY DEF PolicyChecks
<1>3. /\ checks["product_id"] => evidence.product = params.product
      /\ checks["side"] => evidence.side = params.side
      /\ checks["action_descriptor"] => evidence.descriptor = params.descriptor
  BY DEF PolicyChecks
<1>4. /\ checks["size"] => SizeWithin(params.operator, evidence.size, params.size)
      /\ checks["slippage"] => evidence.slippage <= params.bps
      /\ checks["commission"] => evidence.commission <= params.commission
      /\ checks["settlement"] =>
           SettlementWithin(params.side, evidence.settlement, params.settlement)
  BY DEF PolicyChecks
<1>5. /\ checks["limit_price"] = evidence.limitWithin
      /\ checks["funding_sufficient"] = evidence.funded
      /\ checks["market_condition"] => evidence.conditionMet
  BY DEF PolicyChecks
<1>6. /\ params.product = p.product /\ params.side = p.side
      /\ params.descriptor = CreateCanonicalSpotAction(p)
      /\ params.operator = p.operator /\ params.size = p.size /\ params.bps = p.bps
      /\ params.commission = p.commission /\ params.settlement = p.settlement
  BY DEF BuildPolicyBundle
<1>7. /\ evidence.product = record.payload.product /\ evidence.side = record.payload.side
      /\ evidence.descriptor = record.descriptor /\ evidence.size = record.payload.size
      /\ evidence.commission = record.preview.commission
      /\ evidence.slippage = SlippageBps(record.preview.fill,
                               PriceReference(record.payload.side, record.market),
                               record.payload.side)
      /\ evidence.settlement = DerivePreviewSettlement(record.payload.side, record.payload.size,
                                                       record.preview)
  BY DEF ExtractEvidence
<1>8. evidence.limitWithin => IF record.payload.side = "BUY"
                              THEN record.payload.limit <= AuthorizedLimit(record)
                              ELSE record.payload.limit >= AuthorizedLimit(record)
  BY DEF ExtractEvidence
<1>9. evidence.funded => record.funding.available >= record.funding.required
  BY DEF ExtractEvidence
<1>10. evidence.conditionMet =>
         /\ ConditionMet(record.descriptor.policy.condition, record.descriptor.policy.side,
                         record.market)
         /\ ConditionMet(record.descriptor.policy.condition, record.descriptor.policy.side,
                         record.preview)
  BY DEF ExtractEvidence
<1> HIDE DEF params, evidence, checks
<1> QED BY <1>1, <1>2, <1>3, <1>4, <1>5, <1>6, <1>7, <1>8, <1>9, <1>10

(* What it takes to pass the guard, check by check.                         *)
LEMMA NoneObjected ==
    ASSUME NEW p, NEW action, NEW market, EvaluateExecutionProposal(p, action, market) = {}
    PROVE  LET bound == PriceBoundFromBps(PriceReference(p.side, market), p.bps, market.priceInc, p.side)
           IN /\ bound > 0 /\ ConditionMet(p.condition, p.side, market)
              /\ action.product = p.product /\ action.side = p.side
              /\ action.size > 0 /\ SizeWithin(p.operator, action.size, p.size)
              /\ action.limit > 0
              /\ IF p.side = "BUY" THEN action.limit <= bound ELSE action.limit >= bound
<1> DEFINE bound == PriceBoundFromBps(PriceReference(p.side, market), p.bps, market.priceInc, p.side)
           checks == ProposalChecks(p, action, market)
<1>1. \A check \in DOMAIN checks : checks[check]
  BY DEF EvaluateExecutionProposal, Failing
<1>2. {"PRICE_BOUND_UNAVAILABLE", "MARKET_PRICE_CONDITION_NOT_MET", "PRODUCT_MISMATCH",
       "SIDE_MISMATCH", "SIZE_MISMATCH", "INVALID_LIMIT_PRICE",
       "LIMIT_PRICE_OUTSIDE_AUTHORIZED_BOUND"} \subseteq DOMAIN checks
  BY DEF ProposalChecks
<1>3. /\ checks["PRICE_BOUND_UNAVAILABLE"] => bound > 0
      /\ checks["MARKET_PRICE_CONDITION_NOT_MET"] /\ bound > 0 => ConditionMet(p.condition, p.side, market)
      /\ checks["PRODUCT_MISMATCH"] => action.product = p.product
      /\ checks["SIDE_MISMATCH"] => action.side = p.side
      /\ checks["SIZE_MISMATCH"] => action.size > 0 /\ SizeWithin(p.operator, action.size, p.size)
      /\ checks["INVALID_LIMIT_PRICE"] => action.limit > 0
  BY DEF ProposalChecks
<1>4. checks["LIMIT_PRICE_OUTSIDE_AUTHORIZED_BOUND"] /\ action.limit > 0 /\ bound > 0 =>
        IF p.side = "BUY" THEN action.limit <= bound ELSE action.limit >= bound
  BY DEF ProposalChecks
<1> HIDE DEF checks
<1>5. /\ checks["PRICE_BOUND_UNAVAILABLE"] /\ checks["MARKET_PRICE_CONDITION_NOT_MET"]
      /\ checks["PRODUCT_MISMATCH"] /\ checks["SIDE_MISMATCH"] /\ checks["SIZE_MISMATCH"]
      /\ checks["INVALID_LIMIT_PRICE"] /\ checks["LIMIT_PRICE_OUTSIDE_AUTHORIZED_BOUND"]
  BY <1>1, <1>2
<1> HIDE DEF bound
<1> QED BY <1>3, <1>4, <1>5 DEF bound

LEMMA NonePreviewed ==
    ASSUME NEW p, NEW action, NEW market, NEW preview,
           EvaluateExecutionPreview(p, action, market, preview) = "PASS"
    PROVE  /\ preview.errs = {} /\ preview.warning = {} /\ preview.id # ""
           /\ preview.commission >= 0
           /\ \A d \in {preview.total, preview.quote, preview.base, preview.fill,
                        preview.bid, preview.ask} : d > 0
           /\ action.size = IF p.side = "BUY" THEN preview.quote ELSE preview.base
           /\ ConditionMet(p.condition, p.side, preview)
           /\ Settles(p.side, action.size, preview)
           /\ SettlementWithin(p.side, DerivePreviewSettlement(p.side, action.size, preview),
                               p.settlement)
           /\ preview.commission > 0 => preview.commission <= p.commission
           /\ IsSlippageWithinBps(preview.fill, PriceReference(p.side, market), p.bps, p.side)
<1> DEFINE checks == PreviewChecks(p, action, market, preview)
           failures == PreviewFailures(p, action, market, preview)
           settlement == DerivePreviewSettlement(p.side, action.size, preview)
<1>1. failures = {} /\ preview.warning = {}
  BY DEF EvaluateExecutionPreview
<1>2. \A check \in DOMAIN checks : checks[check]
  BY <1>1 DEF PreviewFailures, Failing
<1>3. {"PREVIEW_ERRORS", "MISSING_PREVIEW_ID", "INVALID_PREVIEW_DECIMAL", "PREVIEW_SIZE_MISMATCH",
       "PREVIEW_BBO_INVALID", "PREVIEW_MARKET_CONDITION_NOT_MET", "SETTLEMENT_ECONOMICS_INVALID",
       "SETTLEMENT_NOT_MET", "COMMISSION_CAP_EXCEEDED", "SLIPPAGE_CAP_EXCEEDED"} \subseteq DOMAIN checks
  BY DEF PreviewChecks
<1>4. /\ checks["PREVIEW_ERRORS"] => preview.errs = {}
      /\ checks["MISSING_PREVIEW_ID"] => preview.id # ""
      /\ checks["INVALID_PREVIEW_DECIMAL"] =>
           /\ preview.commission >= 0
           /\ \A d \in {preview.total, preview.quote, preview.base, preview.fill,
                        preview.bid, preview.ask} : d > 0
      /\ checks["PREVIEW_BBO_INVALID"] /\ checks["PREVIEW_MARKET_CONDITION_NOT_MET"] =>
           ConditionMet(p.condition, p.side, preview)
  BY DEF PreviewChecks
<1>5. /\ checks["PREVIEW_SIZE_MISMATCH"] =>
           LET size == IF p.side = "BUY" THEN preview.quote ELSE preview.base
           IN size > 0 => size = action.size
      /\ checks["COMMISSION_CAP_EXCEEDED"] => (preview.commission > 0 => preview.commission <= p.commission)
  BY DEF PreviewChecks
<1>6. /\ checks["SETTLEMENT_ECONOMICS_INVALID"] => Settles(p.side, action.size, preview)
      /\ checks["SETTLEMENT_NOT_MET"] =>
           (Settles(p.side, action.size, preview) => SettlementWithin(p.side, settlement, p.settlement))
      /\ checks["SLIPPAGE_CAP_EXCEEDED"] => (preview.fill > 0 =>
           IsSlippageWithinBps(preview.fill, PriceReference(p.side, market), p.bps, p.side))
  BY DEF PreviewChecks
<1> HIDE DEF checks
<1>7. /\ checks["PREVIEW_ERRORS"] /\ checks["MISSING_PREVIEW_ID"] /\ checks["INVALID_PREVIEW_DECIMAL"]
      /\ checks["PREVIEW_SIZE_MISMATCH"] /\ checks["PREVIEW_BBO_INVALID"]
      /\ checks["PREVIEW_MARKET_CONDITION_NOT_MET"] /\ checks["SETTLEMENT_ECONOMICS_INVALID"]
      /\ checks["SETTLEMENT_NOT_MET"] /\ checks["COMMISSION_CAP_EXCEEDED"]
      /\ checks["SLIPPAGE_CAP_EXCEEDED"]
  BY <1>2, <1>3
<1> HIDE DEF settlement, failures
<1>8. action.size = IF p.side = "BUY" THEN preview.quote ELSE preview.base
  BY <1>4, <1>5, <1>7
<1> QED BY <1>1, <1>4, <1>5, <1>6, <1>7, <1>8 DEF settlement

(* coinbase-solution.js, coinbase-evidence.js: of the record of an order    *)
(* the guard has passed, evidence can be taken just if the Preview writes   *)
(* the size the way the order does.  Then the evidence fails no constraint  *)
(* as long as the authorization lasts (evaluateSimulatedCoinbasePolicy).    *)
THEOREM GuardedPasses ==
    ASSUME NEW p, ValidatePolicy(p), PolicyNumbers(p),
           NEW record, RecordNumbers(record), NEW credential, GuardPasses(p, record),
           record = BuildActionRecord(p, record.request, record.market, record.preview,
                                      record.funding, credential),
           NEW expiry \in Int, NEW at \in Int, at <= expiry
    PROVE  /\ Extractable(record) <=> record.preview.text = record.payload.text
           /\ Extractable(record) =>
                PolicyFailures(BuildPolicyBundle(p, credential, expiry), record, at) = {}
<1> DEFINE action == record.request
           order == record.payload
           market == record.market
           preview == record.preview
           ref == PriceReference(p.side, market)
           bound == PriceBoundFromBps(ref, p.bps, market.priceInc, p.side)
           settlement == DerivePreviewSettlement(p.side, order.size, preview)
           params == BuildPolicyBundle(p, credential, expiry)
           evidence == ExtractEvidence(record, at)
           checks == PolicyChecks(params, evidence)
<1>1. /\ order.product = action.product /\ order.side = action.side /\ order.size = action.size
      /\ order.text = action.text /\ order.limit = action.limit /\ order.preview = preview.id
      /\ record.descriptor = CreateCanonicalSpotAction(p) /\ record.credential = credential
      /\ record.funding.required = CreateCanonicalSpotAction(p).required
  BY DEF BuildActionRecord
<1>2. record.descriptor.policy = p
  BY <1>1 DEF CreateCanonicalSpotAction
<1>3. /\ NormalizeMarket(market) /\ FundingPasses(p, record.funding) /\ CanPropose(p, market)
      /\ EvaluateExecutionProposal(p, action, market) = {}
      /\ EvaluateExecutionPreview(p, action, market, preview) = "PASS"
  BY DEF GuardPasses
<1>4. /\ bound > 0 /\ ConditionMet(p.condition, p.side, market)
      /\ order.product = p.product /\ order.side = p.side
      /\ order.size > 0 /\ SizeWithin(p.operator, order.size, p.size)
      /\ order.limit > 0
      /\ IF p.side = "BUY" THEN order.limit <= bound ELSE order.limit >= bound
  BY <1>1, <1>3, NoneObjected
<1>5. /\ preview.errs = {} /\ preview.warning = {} /\ preview.id # ""
      /\ preview.commission >= 0
      /\ \A d \in {preview.total, preview.quote, preview.base, preview.fill,
                   preview.bid, preview.ask} : d > 0
      /\ order.size = IF p.side = "BUY" THEN preview.quote ELSE preview.base
      /\ ConditionMet(p.condition, p.side, preview)
      /\ Settles(p.side, order.size, preview)
      /\ SettlementWithin(p.side, settlement, p.settlement)
      /\ preview.commission > 0 => preview.commission <= p.commission
      /\ IsSlippageWithinBps(preview.fill, ref, p.bps, p.side)
  <2>1. order.size = action.size
    BY <1>1
  <2> DEFINE n == action.size
  <2>2. /\ preview.errs = {} /\ preview.warning = {} /\ preview.id # ""
        /\ preview.commission >= 0
        /\ \A d \in {preview.total, preview.quote, preview.base, preview.fill,
                     preview.bid, preview.ask} : d > 0
        /\ n = IF p.side = "BUY" THEN preview.quote ELSE preview.base
        /\ ConditionMet(p.condition, p.side, preview)
        /\ Settles(p.side, n, preview)
        /\ SettlementWithin(p.side, DerivePreviewSettlement(p.side, n, preview), p.settlement)
        /\ preview.commission > 0 => preview.commission <= p.commission
        /\ IsSlippageWithinBps(preview.fill, ref, p.bps, p.side)
    <3> HIDE DEF preview, market
    <3>1. EvaluateExecutionPreview(p, action, market, preview) = "PASS"
      BY <1>3
    <3> HIDE DEF action
    <3> QED BY <3>1, NonePreviewed
  <2> QED BY <2>1, <2>2
<1>6. /\ \A d \in {market.bid, market.ask, market.priceInc, market.quoteInc, market.baseInc,
                   market.min, market.max} : d > 0
      /\ market.online /\ ~market.disabled /\ market.product = p.product
  BY <1>3 DEF NormalizeMarket, CanPropose, RecordNumbers
<1>7. preview.commission <= p.commission
  <2>1. p.commission \in Int /\ p.commission >= 0
    BY DEF ValidatePolicy, PolicyNumbers
  <2>2. preview.commission \in Int
    BY DEF RecordNumbers
  <2>3. preview.commission >= 0 /\ (preview.commission > 0 => preview.commission <= p.commission)
    BY <1>5
  <2> QED BY <2>1, <2>2, <2>3
<1>8. SlippageBps(preview.fill, ref, p.side) <= p.bps
  <2>1. ref \in Int /\ ref > 0 /\ preview.fill \in Int
    BY <1>6 DEF PriceReference, RecordNumbers
  <2>2. p.bps \in Int /\ 0 <= p.bps /\ p.bps < Bps
    BY DEF ValidatePolicy
  <2> HIDE DEF ref
  <2> QED BY <1>5, <2>1, <2>2, SlippageIsRounded
<1>9. AuthorizedLimit(record) = bound
  BY <1>2, <1>4 DEF AuthorizedLimit
<1>10. /\ record.funding.complete /\ record.funding.asset = CreateCanonicalSpotAction(p).fundingAsset
       /\ record.funding.available >= record.funding.required
  BY <1>1, <1>3 DEF FundingPasses
<1>11. p.side \in {"BUY", "SELL"}
  BY DEF ValidatePolicy
<1> HIDE DEF ref, bound, settlement, params, evidence, checks
<1>12. ParsesAsSolution(record) <=> order.text = preview.text
  BY <1>1, <1>4, <1>5, <1>6, <1>10, <1>11 DEF ParsesAsSolution
<1>13. Extractable(record) <=> order.text = preview.text
  BY <1>4, <1>5, <1>9, <1>12 DEF Extractable
<1>14. DOMAIN checks = Constraints
  BY DEF checks, PolicyChecks, Constraints
<1>15. /\ params.product = p.product /\ params.side = p.side /\ params.operator = p.operator
       /\ params.size = p.size /\ params.bps = p.bps /\ params.commission = p.commission
       /\ params.settlement = p.settlement /\ params.condition = p.condition
       /\ params.fundingAsset = CreateCanonicalSpotAction(p).fundingAsset
       /\ params.descriptor = CreateCanonicalSpotAction(p)
       /\ params.credential = credential /\ params.expires = expiry
  BY DEF params, BuildPolicyBundle
<1>16. /\ evidence.product = order.product /\ evidence.side = order.side
       /\ evidence.operator = p.operator /\ evidence.size = order.size
       /\ evidence.fundingAsset = record.funding.asset /\ evidence.descriptor = record.descriptor
       /\ evidence.commission = preview.commission /\ evidence.condition = p.condition
       /\ evidence.credential = record.credential /\ evidence.at = at
  BY <1>2 DEF evidence, ExtractEvidence
<1>17. /\ evidence.sizeWithin = SizeWithin(p.operator, order.size, p.size)
       /\ evidence.funded = (record.funding.available >= record.funding.required)
       /\ evidence.commissionWithin = (preview.commission <= p.commission)
       /\ evidence.preview = (order.preview = preview.id)
       /\ evidence.online = market.online /\ evidence.disabled = market.disabled
  BY <1>2 DEF evidence, ExtractEvidence
<1>18. /\ evidence.slippage = SlippageBps(preview.fill, ref, p.side)
       /\ evidence.slippageWithin = (SlippageBps(preview.fill, ref, p.side) <= p.bps)
       /\ evidence.settlement = settlement
  BY <1>2, <1>4 DEF evidence, ExtractEvidence, ref, settlement
<1>19. evidence.limitWithin
  BY <1>4, <1>9 DEF evidence, ExtractEvidence
<1>20. evidence.settlementWithin
  <2>1. evidence.settlementWithin =
          (/\ order.side = p.side /\ SettlementWithin(order.side, evidence.settlement, p.settlement))
    BY <1>2 DEF evidence, ExtractEvidence
  <2> QED BY <1>4, <1>5, <1>18, <2>1
<1>21. evidence.conditionMet
  BY <1>2, <1>4, <1>5 DEF evidence, ExtractEvidence
<1>22. evidence.requested
  BY <1>1 DEF evidence, ExtractEvidence
<1>23. /\ checks["product_id"] = (evidence.product = params.product)
       /\ checks["side"] = (evidence.side = params.side)
       /\ checks["size_operator"] = (evidence.operator = params.operator)
       /\ checks["size"] = (evidence.sizeWithin /\ SizeWithin(params.operator, evidence.size, params.size))
       /\ checks["funding_asset"] = (evidence.fundingAsset = params.fundingAsset)
       /\ checks["action_descriptor"] = (evidence.descriptor = params.descriptor)
       /\ checks["limit_price"] = evidence.limitWithin
       /\ checks["slippage"] = (evidence.slippageWithin /\ evidence.slippage <= params.bps)
       /\ checks["commission"] = (evidence.commissionWithin /\ evidence.commission <= params.commission)
  BY DEF checks, PolicyChecks
<1>24. /\ checks["settlement"] =
            (/\ evidence.side = params.side /\ evidence.settlementWithin
             /\ SettlementWithin(params.side, evidence.settlement, params.settlement))
       /\ checks["market_condition"] = (evidence.condition = params.condition /\ evidence.conditionMet)
       /\ checks["funding_sufficient"] = evidence.funded
       /\ checks["credential"] = (evidence.credential = params.credential)
       /\ checks["expiry"] = (evidence.at <= params.expires)
       /\ checks["preview_request"] = evidence.requested /\ checks["preview_id"] = evidence.preview
       /\ checks["market_status"] = evidence.online /\ checks["market_flags"] = ~evidence.disabled
  BY DEF checks, PolicyChecks
<1>25. /\ checks["product_id"] /\ checks["side"] /\ checks["size_operator"] /\ checks["size"]
       /\ checks["funding_asset"] /\ checks["action_descriptor"] /\ checks["limit_price"]
  BY <1>1, <1>4, <1>10, <1>15, <1>16, <1>17, <1>19, <1>23
<1>26. checks["slippage"] /\ checks["commission"]
  BY <1>7, <1>8, <1>15, <1>16, <1>17, <1>18, <1>23
<1>27. checks["settlement"] /\ checks["market_condition"] /\ checks["funding_sufficient"]
  BY <1>4, <1>5, <1>10, <1>15, <1>16, <1>17, <1>18, <1>20, <1>21, <1>24
<1>28. /\ checks["credential"] /\ checks["expiry"] /\ checks["preview_request"] /\ checks["preview_id"]
       /\ checks["market_status"] /\ checks["market_flags"]
  BY <1>1, <1>6, <1>15, <1>16, <1>17, <1>22, <1>24
<1>29. Failing(checks) = {}
  BY <1>14, <1>25, <1>26, <1>27, <1>28 DEF Failing, Constraints
<1> QED BY <1>13, <1>29 DEF PolicyFailures, EvaluateSimulatedCoinbasePolicy, params, evidence, checks

(* EvaluateSimulatedCoinbasePolicy: an order without constraint failure is  *)
(* one the human authorized, whatever its numbers.  What the evidence says  *)
(* is required of the account is what the action requires.                  *)
THEOREM PassedIsWithin ==
    ASSUME NEW p, ValidatePolicy(p), PolicyNumbers(p),
           NEW record, RecordNumbers(record), Extractable(record),
           record.funding.required = record.descriptor.required,
           NEW credential, NEW expiry, NEW at,
           PolicyFailures(BuildPolicyBundle(p, credential, expiry), record, at) = {}
    PROVE  ExactlyWithin(p, record)
<1> DEFINE order == record.payload
           preview == record.preview
           ref == PriceReference(p.side, record.market)
           debited == DerivePreviewSettlement(p.side, order.size, preview)
<1>1. /\ order.product = p.product /\ order.side = p.side
      /\ record.descriptor = CreateCanonicalSpotAction(p)
      /\ SizeWithin(p.operator, order.size, p.size)
      /\ IF p.side = "BUY" THEN order.limit <= AuthorizedLimit(record)
                           ELSE order.limit >= AuthorizedLimit(record)
      /\ SlippageBps(preview.fill, ref, p.side) <= p.bps
      /\ preview.commission <= p.commission
      /\ SettlementWithin(p.side, debited, p.settlement)
      /\ record.funding.available >= record.funding.required
  BY NoneFails
<1>2. record.descriptor.policy = p /\ record.funding.required = CreateCanonicalSpotAction(p).required
  BY <1>1 DEF CreateCanonicalSpotAction
<1>3. \A book \in {record.market, preview} : ConditionMet(p.condition, p.side, book)
  BY <1>2, NoneFails
<1>4. ref \in Int /\ ref > 0 /\ p.bps \in Int /\ 0 <= p.bps /\ p.bps < Bps
      /\ record.market.priceInc > 0
  <2>1. \A d \in {record.market.bid, record.market.ask, record.market.priceInc,
                 record.market.quoteInc, record.market.baseInc,
                 record.market.min, record.market.max} : d > 0
    BY DEF Extractable, ParsesAsSolution
  <2>2. record.market.bid > 0 /\ record.market.ask > 0 /\ record.market.priceInc > 0
    BY <2>1
  <2>3. p.bps \in Int /\ 0 <= p.bps /\ p.bps < Bps
    BY DEF ValidatePolicy
  <2>4. record.market.bid \in Int /\ record.market.ask \in Int
    BY DEF RecordNumbers
  <2> QED BY <2>2, <2>3, <2>4 DEF PriceReference
<1>5. AuthorizedLimit(record) = PriceBoundFromBps(ref, p.bps, record.market.priceInc, p.side)
  BY <1>1, <1>2 DEF AuthorizedLimit
<1>6. /\ order.limit \in Int /\ preview.fill \in Int /\ record.market.priceInc \in Int
  BY DEF RecordNumbers
<1>7. /\ p.side = "BUY" =>
           order.limit <= PriceBoundFromBps(ref, p.bps, record.market.priceInc, p.side)
      /\ p.side # "BUY" =>
           order.limit >= PriceBoundFromBps(ref, p.bps, record.market.priceInc, p.side)
  BY <1>1, <1>5, Zenon
<1>8. /\ p.side = "BUY" => /\ order.limit * Bps <= ref * (Bps + p.bps)
                            /\ preview.fill * Bps <= ref * (Bps + p.bps)
      /\ p.side # "BUY" => /\ order.limit * Bps >= ref * (Bps - p.bps)
                            /\ preview.fill * Bps >= ref * (Bps - p.bps)
  BY <1>1, <1>4, <1>6, <1>7, MarginIsStrict
<1>9. CASE p.side = "BUY"
  <2>1. \A price \in {order.limit, preview.fill} : price * Bps <= ref * (Bps + p.bps)
    BY <1>8, <1>9, Zenon
  <2>2. debited <= p.settlement /\ p.settlement <= record.funding.available
    BY <1>1, <1>2, <1>9 DEF SettlementWithin, CreateCanonicalSpotAction
  <2>3. \A debit \in {preview.total, order.size + preview.commission} :
          debit \in Int /\ debit <= debited
    BY <1>9 DEF DerivePreviewSettlement, RecordNumbers
  <2>4. debited \in Int
    BY <1>9 DEF DerivePreviewSettlement, RecordNumbers
  <2>5. \A debit \in {preview.total, order.size + preview.commission} :
          debit <= p.settlement /\ debit <= record.funding.available
    BY <2>2, <2>3, <2>4 DEF PolicyNumbers, RecordNumbers
  <2> QED BY <1>1, <1>3, <1>9, <2>1, <2>5 DEF ExactlyWithin
<1>10. CASE p.side # "BUY"
  <2>1. \A price \in {order.limit, preview.fill} : price * Bps >= ref * (Bps - p.bps)
    BY <1>8, <1>10, Zenon
  <2>2. debited \in Int /\ debited >= p.settlement
    BY <1>1, <1>10 DEF SettlementWithin, DerivePreviewSettlement, RecordNumbers
  <2>3. \A gross \in {preview.total, preview.quote} : gross - preview.commission >= p.settlement
    BY <1>10, <2>2 DEF DerivePreviewSettlement, RecordNumbers, PolicyNumbers
  <2>4. order.size <= p.size /\ p.size <= record.funding.available
    BY <1>1, <1>2, <1>10 DEF SizeWithin, CreateCanonicalSpotAction, RecordNumbers, PolicyNumbers
  <2>5. order.size <= record.funding.available
    BY <2>4 DEF RecordNumbers, PolicyNumbers
  <2> QED BY <1>1, <1>3, <1>10, <2>1, <2>3, <2>5 DEF ExactlyWithin
<1> QED BY <1>9, <1>10

(* ---------------------------- the controller ------------------------------ *)

Working == {"propose", "authorize", "submit", "reading", "sleeping", "dispose"}
Registered == {"submit", "reading", "sleeping", "dispose"}

Results == [decision : {"NONE", "PASS", "BLOCK", "REVIEW"}, failures : SUBSET Constraints,
            verified : BOOLEAN]
Made == [result : Results, candidate : Proposable, disposition : {"EXECUTE", "RETRY", "STOP"}]

TypeInv ==
    /\ mandate \in Mandates /\ max \in AttemptLimits
    /\ adapter \in {"simulation-only", "production-delta-mandate"}
    /\ pc \in Working \cup {"execute"} \cup Over
    /\ result \in Results
    /\ attempts \in Seq(Made)
    /\ executed \in Seq(Proposable)
    /\ pc \in {"authorize", "submit", "reading", "sleeping", "dispose", "execute"} =>
          candidate \in Proposable

LimitInv ==
    /\ Len(attempts) <= max
    /\ pc \in Working => Len(attempts) < max

(* The intents of this run are the registered ones: the services know each   *)
(* under the confirmed policy, call a success only what failed no constraint*)
(* of it, and prove only a success.                                         *)
Own == 1..Len(attempts) \cup (IF pc \in Registered THEN {Attempt} ELSE {})

IntentInv(intent) ==
    /\ DOMAIN intent = {"params", "solution", "status", "failures", "verdict", "proved"}
    /\ intent.params = Params
    /\ intent.failures \in SUBSET Constraints
    /\ intent.proved \in BOOLEAN
    /\ intent.status = "success" =>
          /\ Extractable(intent.solution)
          /\ \E time : PolicyFailures(Params, intent.solution, time) = {}
    /\ intent.verdict = "success" => intent.status = "success"
    /\ intent.proved => intent.verdict = "success"

OwnInv == \A n \in Own : n \in DOMAIN intents /\ IntentInv(intents[n])

Refused(n, record) ==
    intents[n].solution = record /\ intents[n].status = "failure" /\ intents[n].failures # {}

Cleared(n, record) ==
    intents[n].solution = record /\ intents[n].status = "success" /\ intents[n].proved

(* Nothing was proposed for an intent before the run proposes.              *)
SubmitInv == pc = "submit" => intents[Attempt].status = "open"

(* What a run concludes, it concludes of the intent of its own attempt.     *)
ResultInv ==
    pc = "dispose" =>
      /\ result.decision = "BLOCK" /\ result.failures # {} => Refused(Attempt, candidate)
      /\ result.verified => Cleared(Attempt, candidate)

AttemptsInv ==
    \A n \in 1..Len(attempts) :
       (n < Len(attempts) \/ pc \in Working) =>
         attempts[n].disposition = "RETRY" /\ Refused(n, attempts[n].candidate)

ExecutedInv ==
    /\ pc = "execute" => /\ Len(attempts) > 0 /\ attempts[Len(attempts)].candidate = candidate
                         /\ Cleared(Len(attempts), candidate)
    /\ executed = <<>> \/
         /\ pc \in {"EXECUTED", "THROWN"} /\ Len(attempts) > 0
         /\ executed = <<attempts[Len(attempts)].candidate>>
         /\ Cleared(Len(attempts), attempts[Len(attempts)].candidate)

IInv == TypeInv /\ LimitInv /\ OwnInv /\ SubmitInv /\ ResultInv /\ AttemptsInv /\ ExecutedInv

(* ------------------------------ first facts ----------------------------- *)

LEMMA Limits == ASSUME TypeInv PROVE max \in 1..10 /\ Len(attempts) \in Nat
  BY LimitsAssumption DEF TypeInv

(* What is proposed at an attempt within the limit is proposable.           *)
LEMMA CandidateProposable ==
    ASSUME TypeInv, LimitInv, pc = "propose", NEW record \in Candidates(mandate, adapter, Attempt)
    PROVE  record \in Proposable
<1>1. Attempt \in 1..10
  BY Limits DEF LimitInv, Attempt, Working
<1>2. mandate \in Mandates /\ adapter \in {"simulation-only", "production-delta-mandate"}
  BY DEF TypeInv
<1> QED BY <1>1, <1>2 DEF Proposable

(* What the policy finds are constraints of it.                             *)
LEMMA FailuresAreNames ==
    ASSUME NEW params, NEW record, NEW time
    PROVE  PolicyFailures(params, record, time) \in SUBSET Constraints
<1>1. \A evidence : DOMAIN PolicyChecks(params, evidence) = Constraints
  BY DEF PolicyChecks, Constraints
<1> QED BY <1>1 DEF PolicyFailures, EvaluateSimulatedCoinbasePolicy, Failing

(* A step that leaves the run where it is, and adds nothing to what the      *)
(* services know of its intents, keeps what is known of them.               *)
LEMMA OwnKept ==
    ASSUME OwnInv, Own' \subseteq Own, UNCHANGED <<mandate, intents>>
    PROVE  OwnInv'
<1>1. Params' = Params
  BY DEF Params
<1>2. ASSUME NEW n \in Own' PROVE n \in DOMAIN intents' /\ IntentInv(intents[n])'
  <2>1. n \in DOMAIN intents /\ IntentInv(intents[n])
    BY DEF OwnInv
  <2> QED BY <1>1, <2>1 DEF IntentInv
<1> QED BY <1>2 DEF OwnInv

(* ------------------------- the answers of services ---------------------- *)

LEMMA AnswerOf ==
    ASSUME NEW id, NEW status
    PROVE  /\ Answer(id, status).intent = id /\ Answer(id, status).status = status
           /\ Answer(id, status).params = intents[id].params
           /\ Answer(id, status).solution = intents[id].solution
           /\ Answer(id, status).failures = intents[id].failures
  BY DEF Answer

(* A terminal status was asked of the intent as it is.                      *)
LEMMA TerminalAnswer ==
    ASSUME NEW answer \in StatusAnswers, answer.status = "failure"
    PROVE  \E id \in About : answer = Answer(id, intents[id].status)
<1>1. \A id : /\ Answer(id, "open").status = "open"
              /\ Answer(id, "processing").status = "processing"
  BY AnswerOf
<1> QED BY <1>1 DEF StatusAnswers

LEMMA ProofAnswer ==
    ASSUME NEW answer \in ProofAnswers, answer.status = "proof"
    PROVE  \E id \in About : /\ answer = Answer(id, IF intents[id].proved THEN "proof" ELSE "none")
                             /\ intents[id].proved
<1>1. \A id : /\ Answer(id, "none").status = "none"
              /\ Answer(id, IF intents[id].proved THEN "proof" ELSE "none").status
                   = IF intents[id].proved THEN "proof" ELSE "none"
  BY AnswerOf
<1> QED BY <1>1 DEF ProofAnswers

(* ------------------------- steps of one kind ---------------------------- *)

LEMMA InitInv == Init => IInv
<1> SUFFICES ASSUME Init PROVE IInv  OBVIOUS
<1>1. TypeInv
  BY DEF Init, TypeInv, Results, NoResult, Working, Made
<1>2. max \in Nat /\ max > 0
  BY LimitsAssumption DEF Init
<1>3. attempts = <<>> /\ executed = <<>> /\ pc = "propose" /\ Len(attempts) = 0
  BY DEF Init
<1>4. LimitInv
  BY <1>2, <1>3 DEF LimitInv
<1>5. Own = {}
  BY <1>3 DEF Own, Registered
<1> QED BY <1>1, <1>3, <1>4, <1>5 DEF IInv, OwnInv, SubmitInv, ResultInv, AttemptsInv,
                                               ExecutedInv

(* A run that throws keeps its attempts; nothing was executed.              *)
LEMMA ThrowKeeps ==
    ASSUME IInv, Throw, pc \in Working, UNCHANGED <<mandate, adapter, max, intents>>
    PROVE  IInv'
<1>1. Len(attempts)' = Len(attempts) /\ pc' = "THROWN" /\ executed = <<>> /\ executed' = <<>>
  BY DEF Throw, IInv, ExecutedInv, Working
<1>2. TypeInv'
  BY <1>1 DEF Throw, IInv, TypeInv, Over
<1>3. LimitInv'
  BY <1>1 DEF Throw, IInv, LimitInv, Working
<1>4. OwnInv'
  <2>1. Own' \subseteq Own
    BY <1>1 DEF Own, Registered
  <2> QED BY <2>1, OwnKept DEF IInv
<1>5. AttemptsInv'
  BY <1>1 DEF Throw, IInv, AttemptsInv, Refused, Working
<1>6. SubmitInv' /\ ResultInv' /\ ExecutedInv'
  BY <1>1 DEF SubmitInv, ResultInv, ExecutedInv
<1> QED BY <1>2, <1>3, <1>4, <1>5, <1>6 DEF IInv

(* A step within a poll, or from one poll to the next.                      *)
LEMMA PollKeeps ==
    ASSUME IInv, pc \in Registered, pc' \in {"reading", "sleeping"},
           UNCHANGED <<mandate, adapter, max, candidate, intents, result, attempts, executed>>
    PROVE  IInv'
<1>1. pc \in Working /\ pc' \in Working /\ executed = <<>> /\ pc' \in Registered
  BY DEF Working, Registered, IInv, ExecutedInv
<1>2. TypeInv'
  BY <1>1 DEF IInv, TypeInv, Registered
<1>3. LimitInv'
  BY <1>1 DEF IInv, LimitInv
<1>4. OwnInv'
  <2>1. Own' \subseteq Own
    BY <1>1 DEF Own, Attempt
  <2> QED BY <2>1, OwnKept DEF IInv
<1>5. AttemptsInv'
  BY <1>1 DEF IInv, AttemptsInv, Refused
<1>6. SubmitInv' /\ ResultInv' /\ ExecutedInv'
  BY <1>1 DEF SubmitInv, ResultInv, ExecutedInv
<1> QED BY <1>2, <1>3, <1>4, <1>5, <1>6 DEF IInv

(* A poll that ends in a result about the intent of this attempt.           *)
LEMMA ConcludeKeeps ==
    ASSUME IInv, pc = "reading", UNCHANGED <<mandate, adapter, max, intents>>,
           NEW decision \in {"PASS", "BLOCK", "REVIEW"}, NEW failures \in SUBSET Constraints,
           NEW verified \in BOOLEAN, Conclude(decision, failures, verified),
           decision = "BLOCK" /\ failures # {} => Refused(Attempt, candidate),
           verified => Cleared(Attempt, candidate)
    PROVE  IInv'
<1>1. /\ pc \in Working /\ pc' = "dispose" /\ pc' \in Working /\ executed = <<>>
      /\ pc \in Registered /\ pc' \in Registered
      /\ result' = [decision |-> decision, failures |-> failures, verified |-> verified]
      /\ UNCHANGED <<candidate, attempts, executed>>
  BY DEF Conclude, Working, Registered, IInv, ExecutedInv
<1>2. TypeInv'
  BY <1>1 DEF IInv, TypeInv, Results
<1>3. LimitInv'
  BY <1>1 DEF IInv, LimitInv
<1>4. OwnInv'
  <2>1. Own' \subseteq Own
    BY <1>1 DEF Own, Attempt
  <2> QED BY <2>1, OwnKept DEF IInv
<1>5. AttemptsInv'
  BY <1>1 DEF IInv, AttemptsInv, Refused
<1>6. ResultInv'
  BY <1>1 DEF ResultInv, Refused, Cleared, Attempt
<1>7. SubmitInv' /\ ExecutedInv'
  BY <1>1 DEF SubmitInv, ExecutedInv
<1> QED BY <1>2, <1>3, <1>4, <1>5, <1>6, <1>7 DEF IInv

(* What a service adds to an intent of this run leaves refusals and passes  *)
(* as they are.                                                             *)
LEMMA ServicesKeep ==
    ASSUME IInv, NEW id \in DOMAIN intents, NEW intent, Services(id, intent),
           id \in Own => /\ IntentInv(intent) /\ intents[id].status # "open"
                         /\ intent.solution = intents[id].solution
                         /\ intents[id].status \in {"success", "failure"} =>
                              /\ intent.status = intents[id].status
                              /\ intent.failures = intents[id].failures
                         /\ intents[id].proved => intent.proved
    PROVE  IInv'
<1>1. /\ UNCHANGED <<mandate, adapter, max, pc, candidate, result, attempts, executed>>
      /\ intents' = [intents EXCEPT ![id] = intent]
  BY DEF Services
<1>2. Own' = Own /\ Attempt' = Attempt /\ Params' = Params
  BY <1>1 DEF Own, Attempt, Params
<1>3. \A n \in Own : n \in DOMAIN intents /\ IntentInv(intents[n])
  BY DEF IInv, OwnInv
<1>4. \A n \in Own : /\ n \in DOMAIN intents'
                     /\ intents'[n] = IF n = id THEN intent ELSE intents[n]
  BY <1>1, <1>3
<1>5. OwnInv'
  <2> SUFFICES ASSUME NEW n \in Own PROVE n \in DOMAIN intents' /\ IntentInv(intents[n])'
    BY <1>2 DEF OwnInv
  <2>1. IntentInv(intents'[n])
    BY <1>3, <1>4
  <2> QED BY <1>2, <1>4, <2>1 DEF IntentInv
<1>6. \A n \in Own : \A record : /\ Refused(n, record) => Refused(n, record)'
                                 /\ Cleared(n, record) => Cleared(n, record)'
  BY <1>4 DEF Refused, Cleared
<1>7. 1..Len(attempts) \subseteq Own /\ (pc \in {"submit", "dispose"} => Attempt \in Own)
  BY DEF Own, Registered
<1>8. TypeInv' /\ LimitInv'
  BY <1>1 DEF IInv, TypeInv, LimitInv
<1>9. ResultInv'
  BY <1>1, <1>2, <1>6, <1>7 DEF IInv, ResultInv
<1>10. AttemptsInv'
  BY <1>1, <1>6, <1>7 DEF IInv, AttemptsInv
<1>11. ExecutedInv'
  <2>1. Len(attempts) > 0 => Len(attempts) \in Own
    BY <1>7, Limits DEF IInv
  <2> QED BY <1>1, <1>6, <2>1 DEF IInv, ExecutedInv
<1>12. SubmitInv'
  BY <1>1, <1>2, <1>4, <1>7 DEF IInv, SubmitInv
<1> QED BY <1>5, <1>8, <1>9, <1>10, <1>11, <1>12 DEF IInv

(* --------------------------- the actions' steps ------------------------- *)

LEMMA ProposeKeeps == IInv /\ Propose => IInv'
<1> SUFFICES ASSUME IInv, Propose PROVE IInv'  OBVIOUS
<1>1. /\ pc = "propose" /\ pc' = "authorize" /\ executed = <<>>
      /\ result' = NoResult /\ candidate' \in Candidates(mandate, adapter, Attempt)
      /\ UNCHANGED <<mandate, adapter, max, intents, attempts, executed>>
  BY DEF Propose, IInv, ExecutedInv
<1>2. candidate' \in Proposable
  BY <1>1, CandidateProposable DEF IInv
<1>3. TypeInv'
  BY <1>1, <1>2 DEF IInv, TypeInv, Results, NoResult, Working
<1>4. OwnInv'
  <2>1. Own' \subseteq Own
    BY <1>1 DEF Own, Registered
  <2> QED BY <1>1, <2>1, OwnKept DEF IInv
<1>5. LimitInv' /\ AttemptsInv'
  BY <1>1 DEF IInv, LimitInv, AttemptsInv, Refused, Working
<1>6. SubmitInv' /\ ResultInv' /\ ExecutedInv'
  BY <1>1 DEF SubmitInv, ResultInv, ExecutedInv
<1> QED BY <1>3, <1>4, <1>5, <1>6 DEF IInv

LEMMA AuthorizeIntentKeeps == IInv /\ AuthorizeIntent => IInv'
<1> SUFFICES ASSUME IInv, AuthorizeIntent PROVE IInv'  OBVIOUS
<1> DEFINE opened == [params |-> Params, solution |-> NoSolution, status |-> "open",
                      failures |-> {}, verdict |-> "none", proved |-> FALSE]
<1>1. /\ pc = "authorize" /\ pc' = "submit" /\ executed = <<>>
      /\ intents' = [i \in DOMAIN intents \cup {Attempt} |->
                       IF i # Attempt THEN intents[i] ELSE opened]
      /\ UNCHANGED <<mandate, adapter, max, candidate, result, attempts, executed>>
  BY DEF AuthorizeIntent, IInv, ExecutedInv
<1> HIDE DEF opened
<1>2. Attempt' = Attempt /\ Params' = Params
  BY <1>1 DEF Attempt, Params
<1>3. \A n \in 1..Len(attempts) : n # Attempt /\ n \in Own
  BY Limits DEF IInv, Attempt, Own
<1>4. Own' = 1..Len(attempts) \cup {Attempt}
  BY <1>1, <1>2 DEF Own, Registered
<1>5. \A n \in 1..Len(attempts) : /\ n \in DOMAIN intents /\ n \in DOMAIN intents'
                                  /\ intents'[n] = intents[n]
  BY <1>1, <1>3 DEF IInv, OwnInv
<1>6. OwnInv'
  <2>1. IntentInv(opened)
    BY DEF opened, IntentInv
  <2>2. Attempt \in DOMAIN intents' /\ intents'[Attempt] = opened
    BY <1>1
  <2>3. ASSUME NEW n \in Own' PROVE n \in DOMAIN intents' /\ IntentInv(intents'[n])
    BY <1>3, <1>4, <1>5, <2>1, <2>2 DEF IInv, OwnInv
  <2>4. ASSUME NEW n \in Own' PROVE IntentInv(intents[n])'
    BY <1>2, <2>3 DEF IntentInv
  <2> QED BY <2>3, <2>4 DEF OwnInv
<1>7. TypeInv' /\ LimitInv'
  BY <1>1 DEF IInv, TypeInv, LimitInv, Working
<1>8. AttemptsInv'
  BY ZenonT(30), <1>1, <1>5 DEF IInv, AttemptsInv, Refused, Working
<1>9. ResultInv' /\ ExecutedInv'
  BY <1>1 DEF ResultInv, ExecutedInv
<1>10. SubmitInv'
  BY <1>1, <1>2 DEF SubmitInv, opened
<1> QED BY <1>6, <1>7, <1>8, <1>9, <1>10 DEF IInv

(* The simulated adapter decides the proposal at once, by the policy.       *)
LEMMA SimulateSound ==
    ASSUME NEW intent, IntentInv(intent), NEW record
    PROVE  IntentInv(Simulate(intent, record))
<1> DEFINE failures == PolicyFailures(intent.params, record, now)
           status == IF failures = {} THEN "success" ELSE "failure"
           decided == [intent EXCEPT !.solution = record, !.status = status,
                         !.failures = failures, !.verdict = status, !.proved = (failures = {})]
<1>1. CASE ~Extractable(record)
  BY <1>1 DEF Simulate
<1>2. CASE Extractable(record)
  <2>1. Simulate(intent, record) = decided
    BY <1>2 DEF Simulate
  <2>2. failures \in SUBSET Constraints
    BY FailuresAreNames
  <2>3. intent.params = Params
    BY DEF IntentInv
  <2>4. failures = {} => \E time : PolicyFailures(Params, record, time) = {}
    BY <2>3
  <2>5. status = "success" <=> failures = {}
    OBVIOUS
  <2> DEFINE none == (failures = {})
  <2> HIDE DEF failures, status, none
  <2>6. /\ DOMAIN decided = {"params", "solution", "status", "failures", "verdict", "proved"}
        /\ decided.params = Params /\ decided.solution = record /\ decided.status = status
    BY <2>3 DEF IntentInv
  <2>7. decided.failures = failures /\ decided.verdict = status /\ decided.proved = none
    BY DEF IntentInv, none
  <2> HIDE DEF decided
  <2>8. decided.proved \in BOOLEAN /\ (decided.proved => failures = {})
    BY <2>7 DEF none
  <2>9. IntentInv(decided)
    BY <1>2, <2>2, <2>4, <2>5, <2>6, <2>7, <2>8 DEF IntentInv
  <2> QED BY <2>1, <2>9
<1> QED BY <1>1, <1>2

LEMMA SubmitProposalKeeps == IInv /\ SubmitProposal => IInv'
<1> SUFFICES ASSUME IInv, SubmitProposal PROVE IInv'  OBVIOUS
<1> DEFINE old == intents[Attempt]
           new == IF Simulated THEN Simulate(old, candidate)
                  ELSE [old EXCEPT !.solution = candidate, !.status = "processing"]
<1>1. /\ pc = "submit" /\ pc' = "reading" /\ executed = <<>>
      /\ intents' = [intents EXCEPT ![Attempt] = new]
      /\ UNCHANGED <<mandate, adapter, max, candidate, result, attempts, executed>>
  BY DEF SubmitProposal, BeginPoll, IInv, ExecutedInv
<1>2. Attempt' = Attempt /\ Params' = Params
  BY <1>1 DEF Attempt, Params
<1>3. /\ Own' = Own /\ Own = 1..Len(attempts) \cup {Attempt}
      /\ \A n \in 1..Len(attempts) : n # Attempt
  BY <1>1, <1>2, Limits DEF IInv, Own, Registered, Attempt
<1>4. IntentInv(old) /\ old.status = "open"
  BY <1>1, <1>3 DEF IInv, OwnInv, SubmitInv
<1>5. IntentInv(new)
  <2>1. CASE Simulated
    BY <1>4, <2>1, SimulateSound
  <2>2. CASE ~Simulated
    BY <1>4, <2>2 DEF IntentInv
  <2> QED BY <2>1, <2>2
<1> HIDE DEF old, new
<1>6. \A n \in Own : n \in DOMAIN intents' /\ intents'[n] = IF n = Attempt THEN new ELSE intents[n]
  BY <1>1 DEF IInv, OwnInv
<1>7. OwnInv'
  <2> SUFFICES ASSUME NEW n \in Own PROVE n \in DOMAIN intents' /\ IntentInv(intents[n])'
    BY <1>3 DEF OwnInv
  <2>1. IntentInv(intents'[n])
    BY <1>5, <1>6 DEF IInv, OwnInv
  <2> QED BY <1>2, <1>6, <2>1 DEF IntentInv
<1>8. TypeInv' /\ LimitInv'
  BY <1>1 DEF IInv, TypeInv, LimitInv, Working
<1>9. AttemptsInv'
  BY <1>1, <1>3, <1>6 DEF IInv, AttemptsInv, Refused, Working
<1>10. SubmitInv' /\ ResultInv' /\ ExecutedInv'
  BY <1>1 DEF SubmitInv, ResultInv, ExecutedInv
<1> QED BY <1>7, <1>8, <1>9, <1>10 DEF IInv

(* ------------------------- the services' steps -------------------------- *)

LEMMA DecideKeeps == ASSUME IInv, NEW id \in DOMAIN intents, Decide(id) PROVE IInv'
<1> DEFINE old == intents[id]
           failures == IF Extractable(old.solution) THEN PolicyFailures(old.params, old.solution, now)
                       ELSE {}
           decided == [old EXCEPT !.status = IF failures = {} THEN "success" ELSE "failure",
                                  !.failures = failures]
<1>1. old.status = "processing"
  BY DEF Decide
<1>2. \/ Extractable(old.solution) /\ Services(id, decided)
      \/ Services(id, [old EXCEPT !.status = "review"])
      \/ Services(id, [old EXCEPT !.status = "expired"])
  BY DEF Decide
<1>3. id \in Own => IntentInv(old) /\ ~old.proved
  BY <1>1 DEF IInv, OwnInv, IntentInv
<1> HIDE DEF old
<1>4. ASSUME id \in Own, NEW status \in {"review", "expired"}
      PROVE  LET new == [old EXCEPT !.status = status]
             IN IntentInv(new) /\ new.solution = old.solution
  BY <1>1, <1>3, <1>4 DEF IntentInv
<1>5. ASSUME id \in Own, Extractable(old.solution)
      PROVE  IntentInv(decided) /\ decided.solution = old.solution
  <2>1. failures \in SUBSET Constraints
    BY FailuresAreNames
  <2>2. failures = {} => \E time : PolicyFailures(Params, old.solution, time) = {}
    BY <1>3, <1>5 DEF IntentInv
  <2> HIDE DEF failures
  <2> QED BY <1>1, <1>3, <1>5, <2>1, <2>2 DEF IntentInv
<1>6. CASE Extractable(old.solution) /\ Services(id, decided)
  <2> HIDE DEF decided
  <2> QED BY <1>1, <1>3, <1>5, <1>6, ServicesKeep DEF old
<1>7. CASE Services(id, [old EXCEPT !.status = "review"])
  BY <1>1, <1>3, <1>4, <1>7, ServicesKeep DEF old
<1>8. CASE Services(id, [old EXCEPT !.status = "expired"])
  BY <1>1, <1>3, <1>4, <1>8, ServicesKeep DEF old
<1> QED BY <1>2, <1>6, <1>7, <1>8

LEMMA VerifyKeeps == ASSUME IInv, NEW id \in DOMAIN intents, Verify(id) PROVE IInv'
<1> DEFINE old == intents[id]
<1>1. /\ old.verdict = "none" /\ old.status \in Terminal
      /\ \E verdict \in {"success", "failure"} :
            /\ verdict = "success" => old.status = "success"
            /\ Services(id, [old EXCEPT !.verdict = verdict])
  BY DEF Verify, Terminal
<1>2. PICK verdict \in {"success", "failure"} :
            /\ verdict = "success" => old.status = "success"
            /\ Services(id, [old EXCEPT !.verdict = verdict])
  BY <1>1
<1> DEFINE new == [old EXCEPT !.verdict = verdict]
<1>3. old.status # "open"
  BY <1>1 DEF Terminal
<1>4. id \in Own => IntentInv(old)
  BY DEF IInv, OwnInv
<1> HIDE DEF old
<1>5. ASSUME id \in Own
      PROVE  /\ IntentInv(new) /\ new.solution = old.solution /\ new.status = old.status
             /\ new.failures = old.failures /\ new.proved = old.proved
  BY <1>1, <1>2, <1>4, <1>5 DEF IntentInv
<1> HIDE DEF new
<1> QED BY <1>2, <1>3, <1>5, ServicesKeep DEF old, new

LEMMA ProveKeeps == ASSUME IInv, NEW id \in DOMAIN intents, Prove(id) PROVE IInv'
<1> DEFINE old == intents[id]
           new == [old EXCEPT !.proved = TRUE]
<1>1. old.verdict = "success" /\ Services(id, new)
  BY DEF Prove
<1>2. id \in Own => IntentInv(old)
  BY DEF IInv, OwnInv
<1> HIDE DEF old
<1>3. ASSUME id \in Own
      PROVE  /\ IntentInv(new) /\ new.solution = old.solution /\ new.status = old.status
             /\ new.failures = old.failures /\ new.proved /\ old.status # "open"
  BY <1>1, <1>2, <1>3 DEF IntentInv
<1> HIDE DEF new
<1> QED BY <1>1, <1>3, ServicesKeep DEF old

(* ------------------------------ the polls ------------------------------- *)

LEMMA NotYetKeeps ==
    ASSUME IInv, pc = "reading", UNCHANGED <<mandate, adapter, max, intents>>, NotYet
    PROVE  IInv'
<1>1. CASE Throw
  BY <1>1, ThrowKeeps DEF Working
<1>2. CASE ~Throw
  <2>1. pc' = "sleeping" /\ UNCHANGED <<candidate, result, attempts, executed>>
    BY <1>2 DEF NotYet
  <2> QED BY <2>1, PollKeeps DEF Registered
<1> QED BY <1>1, <1>2

LEMMA ReadStatusKeeps == IInv /\ ReadStatus => IInv'
<1> SUFFICES ASSUME IInv, ReadStatus PROVE IInv'  OBVIOUS
<1>1. pc = "reading" /\ UNCHANGED <<mandate, adapter, max, intents>>
  BY DEF ReadStatus, Reads
<1>2. PICK answer \in StatusAnswers :
          \/ Throw
          \/ NotYet
          \/ BeginPoll("verification") /\ UNCHANGED <<candidate, result, attempts, executed>>
          \/ /\ StatusBound(answer) /\ answer.status = "failure"
             /\ Conclude("BLOCK", answer.failures, FALSE)
          \/ Conclude("BLOCK", {}, FALSE)
          \/ Conclude("REVIEW", {}, FALSE)
  BY DEF ReadStatus
<1>3. CASE Throw
  BY <1>1, <1>3, ThrowKeeps DEF Working
<1>4. CASE NotYet
  BY <1>1, <1>4, NotYetKeeps
<1>5. CASE BeginPoll("verification") /\ UNCHANGED <<candidate, result, attempts, executed>>
  BY <1>1, <1>5, PollKeeps DEF BeginPoll, Registered
<1>6. CASE /\ StatusBound(answer) /\ answer.status = "failure"
           /\ Conclude("BLOCK", answer.failures, FALSE)
  <2>1. PICK id \in About : answer = Answer(id, intents[id].status)
    BY <1>6, TerminalAnswer
  <2>2. id = Attempt /\ intents[id].solution = candidate
    BY <1>6, <2>1, AnswerOf DEF StatusBound, Terminal
  <2>3. intents[Attempt].status = "failure" /\ answer.failures = intents[Attempt].failures
    BY <1>6, <2>1, <2>2, AnswerOf
  <2>4. Attempt \in Own
    BY <1>1 DEF Own, Registered
  <2>5. answer.failures \in SUBSET Constraints
    BY <2>3, <2>4 DEF IInv, OwnInv, IntentInv
  <2>6. answer.failures # {} => Refused(Attempt, candidate)
    BY <2>2, <2>3 DEF Refused
  <2> QED BY <1>1, <1>6, <2>5, <2>6, ConcludeKeeps
<1>7. CASE Conclude("BLOCK", {}, FALSE)
  BY <1>1, <1>7, ConcludeKeeps
<1>8. CASE Conclude("REVIEW", {}, FALSE)
  BY <1>1, <1>8, ConcludeKeeps
<1> QED BY <1>2, <1>3, <1>4, <1>5, <1>6, <1>7, <1>8

LEMMA ReadVerificationKeeps == IInv /\ ReadVerification => IInv'
<1> SUFFICES ASSUME IInv, ReadVerification PROVE IInv'  OBVIOUS
<1>1. pc = "reading" /\ UNCHANGED <<mandate, adapter, max, intents>>
  BY DEF ReadVerification, Reads
<1>2. \/ Throw
      \/ NotYet
      \/ BeginPoll("proof") /\ UNCHANGED <<candidate, result, attempts, executed>>
  BY DEF ReadVerification
<1>3. CASE Throw
  BY <1>1, <1>3, ThrowKeeps DEF Working
<1>4. CASE NotYet
  BY <1>1, <1>4, NotYetKeeps
<1>5. CASE BeginPoll("proof") /\ UNCHANGED <<candidate, result, attempts, executed>>
  BY <1>1, <1>5, PollKeeps DEF BeginPoll, Registered
<1> QED BY <1>2, <1>3, <1>4, <1>5

(* A verified proof is of the intent of this attempt, and of the candidate. *)
LEMMA ReadProofKeeps == IInv /\ ReadProof => IInv'
<1> SUFFICES ASSUME IInv, ReadProof PROVE IInv'  OBVIOUS
<1>1. pc = "reading" /\ UNCHANGED <<mandate, adapter, max, intents>>
  BY DEF ReadProof, Reads
<1>2. PICK answer \in ProofAnswers :
          \/ Throw
          \/ NotYet
          \/ /\ answer.status = "proof" /\ IntentBound(answer) /\ answer.solution = candidate
             /\ Conclude("PASS", {}, TRUE)
  BY DEF ReadProof
<1>3. CASE Throw
  BY <1>1, <1>3, ThrowKeeps DEF Working
<1>4. CASE NotYet
  BY <1>1, <1>4, NotYetKeeps
<1>5. CASE /\ answer.status = "proof" /\ IntentBound(answer) /\ answer.solution = candidate
           /\ Conclude("PASS", {}, TRUE)
  <2>1. PICK id \in About : /\ answer = Answer(id, IF intents[id].proved THEN "proof" ELSE "none")
                            /\ intents[id].proved
    BY <1>5, ProofAnswer
  <2>2. id = Attempt /\ intents[id].solution = candidate
    BY <1>5, <2>1, AnswerOf DEF IntentBound
  <2>3. Attempt \in Own
    BY <1>1 DEF Own, Registered
  <2>4. Cleared(Attempt, candidate)
    BY <2>1, <2>2, <2>3 DEF Cleared, IInv, OwnInv, IntentInv
  <2> QED BY <1>1, <1>5, <2>4, ConcludeKeeps
<1> QED BY <1>2, <1>3, <1>4, <1>5

(* ------------------------------- the loop ------------------------------- *)

(* One proposes again after a refusal, executes after a proof, or stops.    *)
LEMMA DisposeKeeps == IInv /\ Dispose => IInv'
<1> SUFFICES ASSUME IInv, Dispose PROVE IInv'  OBVIOUS
<1> DEFINE disposition == MandateDisposition(result, Attempt, max)
           made == [result |-> result, candidate |-> candidate, disposition |-> disposition]
<1>1. /\ pc = "dispose" /\ attempts' = Append(attempts, made)
      /\ pc' = CASE disposition = "EXECUTE" -> "execute"
                 [] disposition = "RETRY" -> "propose"
                 [] disposition = "STOP" -> "STOPPED"
      /\ executed = <<>>
      /\ UNCHANGED <<mandate, adapter, max, candidate, intents, result, executed>>
  BY DEF Dispose, IInv, ExecutedInv
<1>2. /\ disposition \in {"EXECUTE", "RETRY", "STOP"}
      /\ disposition = "EXECUTE" => result.decision = "PASS" /\ result.verified
      /\ disposition = "RETRY" => /\ result.decision = "BLOCK" /\ result.failures # {}
                                  /\ Attempt < max
  BY DEF MandateDisposition
<1> HIDE DEF disposition
<1>3. made \in Made /\ made.candidate = candidate /\ made.disposition = disposition
  BY <1>1, <1>2 DEF IInv, TypeInv, Made
<1> HIDE DEF made
<1>4. /\ attempts \in Seq(Made) /\ attempts' \in Seq(Made) /\ Len(attempts) \in Nat
      /\ Len(attempts') = Attempt /\ attempts'[Attempt] = made
      /\ \A n \in 1..Len(attempts) : attempts'[n] = attempts[n] /\ n < Attempt
  BY <1>1, <1>3 DEF IInv, TypeInv, Attempt
<1>5. Own = 1..Attempt /\ max \in Nat /\ Attempt \in Nat /\ Attempt <= max
  BY <1>1, <1>4, Limits DEF Own, Registered, Attempt, IInv, LimitInv, Working
<1>6. pc' \in {"execute", "propose", "STOPPED"}
  BY <1>1, <1>2
<1>7. TypeInv'
  BY <1>1, <1>4, <1>6 DEF IInv, TypeInv, Working, Over
<1>8. LimitInv'
  BY <1>1, <1>2, <1>4, <1>5 DEF LimitInv, Working
<1>9. OwnInv'
  <2>1. Own' \subseteq Own
    BY <1>4, <1>5, <1>6 DEF Own, Registered
  <2> QED BY <1>1, <2>1, OwnKept DEF IInv
<1>10. AttemptsInv'
  <2>1. ASSUME NEW n \in 1..Len(attempts)
        PROVE  attempts'[n].disposition = "RETRY" /\ Refused(n, attempts'[n].candidate)
    <3>1. attempts'[n] = attempts[n] /\ pc \in Working
      BY <1>1, <1>4 DEF Working
    <3> QED BY <3>1 DEF IInv, AttemptsInv
  <2>2. ASSUME pc' = "propose"
        PROVE  attempts'[Attempt].disposition = "RETRY" /\ Refused(Attempt, attempts'[Attempt].candidate)
    <3>1. disposition = "RETRY"
      BY <1>1, <1>2, <2>2
    <3>2. Refused(Attempt, candidate)
      BY <1>1, <1>2, <3>1 DEF IInv, ResultInv
    <3> QED BY <1>3, <1>4, <3>1, <3>2
  <2>3. \A n, record : Refused(n, record)' <=> Refused(n, record)
    BY <1>1 DEF Refused
  <2>4. \A n \in 1..Len(attempts') : n \in 1..Len(attempts) \/ n = Attempt
    BY <1>4 DEF Attempt
  <2>5. pc' \in Working => pc' = "propose"
    BY <1>6 DEF Working
  <2>6. ~(Attempt < Len(attempts'))
    BY <1>4, <1>5
  <2> QED BY <2>1, <2>2, <2>3, <2>4, <2>5, <2>6 DEF AttemptsInv
<1>11. ExecutedInv'
  <2>1. CASE pc' = "execute"
    <3>1. disposition = "EXECUTE"
      BY <1>1, <1>2, <2>1
    <3>2. Cleared(Attempt, candidate)
      BY <1>1, <1>2, <3>1 DEF IInv, ResultInv
    <3> QED BY <1>1, <1>3, <1>4, <1>5, <3>2 DEF ExecutedInv, Cleared, Attempt
  <2> QED BY <1>1, <2>1 DEF ExecutedInv
<1>12. SubmitInv' /\ ResultInv'
  BY <1>6 DEF SubmitInv, ResultInv
<1> QED BY <1>7, <1>8, <1>9, <1>10, <1>11, <1>12 DEF IInv

LEMMA ExecuteKeeps == IInv /\ Execute => IInv'
<1> SUFFICES ASSUME IInv, Execute PROVE IInv'  OBVIOUS
<1>1. /\ pc = "execute" /\ pc' \in {"EXECUTED", "THROWN"}
      /\ executed' = Append(executed, candidate)
      /\ UNCHANGED <<mandate, adapter, max, candidate, intents, result, attempts>>
  BY DEF Execute
<1>2. /\ executed = <<>> /\ candidate \in Proposable
      /\ Len(attempts) > 0 /\ attempts[Len(attempts)].candidate = candidate
      /\ Cleared(Len(attempts), candidate)
  BY <1>1 DEF IInv, ExecutedInv, TypeInv
<1>3. executed' = <<candidate>>
  BY <1>1, <1>2
<1>4. TypeInv'
  BY <1>1, <1>2, <1>3 DEF IInv, TypeInv, Over
<1>5. LimitInv' /\ AttemptsInv'
  BY <1>1 DEF IInv, LimitInv, AttemptsInv, Refused, Working
<1>6. OwnInv'
  <2>1. Own' \subseteq Own
    BY <1>1 DEF Own, Registered
  <2> QED BY <1>1, <2>1, OwnKept DEF IInv
<1>7. ExecutedInv'
  BY <1>1, <1>2, <1>3 DEF ExecutedInv, Cleared
<1>8. SubmitInv' /\ ResultInv'
  BY <1>1 DEF SubmitInv, ResultInv
<1> QED BY <1>4, <1>5, <1>6, <1>7, <1>8 DEF IInv

LEMMA StutterKeeps == IInv /\ UNCHANGED vars => IInv'
<1> SUFFICES ASSUME IInv, UNCHANGED vars PROVE IInv'  OBVIOUS
<1>1. Own' = Own /\ Attempt' = Attempt
  BY DEF Own, Attempt, vars
<1>2. OwnInv'
  BY <1>1, OwnKept DEF IInv, vars
<1>3. TypeInv' /\ LimitInv' /\ SubmitInv'
  BY <1>1 DEF IInv, TypeInv, LimitInv, SubmitInv, vars
<1>4. ResultInv' /\ AttemptsInv' /\ ExecutedInv'
  BY <1>1 DEF IInv, ResultInv, AttemptsInv, ExecutedInv, Refused, Cleared, vars
<1> QED BY <1>2, <1>3, <1>4 DEF IInv

LEMMA StepKeeps == IInv /\ [Next]_vars => IInv'
<1> SUFFICES ASSUME IInv, [Next]_vars PROVE IInv'  OBVIOUS
<1>1. CASE Wake
  BY <1>1, PollKeeps DEF Wake, Registered
<1>2. CASE CallFails
  BY <1>2, ThrowKeeps DEF CallFails, Working
<1>3. CASE RequestTimesOut
  BY <1>3, ThrowKeeps DEF RequestTimesOut, Working
<1>4. CASE Tick
  BY <1>4, PollKeeps DEF Tick, Registered
<1>5. ASSUME NEW id \in DOMAIN intents, Decide(id) \/ Verify(id) \/ Prove(id) PROVE IInv'
  BY <1>5, DecideKeeps, VerifyKeeps, ProveKeeps
<1> QED BY <1>1, <1>2, <1>3, <1>4, <1>5, ProposeKeeps, AuthorizeIntentKeeps, SubmitProposalKeeps,
           ReadStatusKeeps, ReadVerificationKeeps, ReadProofKeeps, DisposeKeeps, ExecuteKeeps,
           StutterKeeps DEF Next, Run

THEOREM Invariant == Spec => []IInv
  BY InitInv, StepKeeps, PTL DEF Spec

(* ------------------------------- results -------------------------------- *)

(* runMandateAttemptLoop: a run executes at most one candidate, the one its *)
(* last attempt proved, and that order is within what the human authorized, *)
(* in exact fractions, for every policy, every candidate and every answer of*)
(* the services.                                                            *)
THEOREM ExecutedIsWithin == Spec => []ExecutedWithinMandate
<1>1. ASSUME IInv PROVE ExecutedWithinMandate
  <2>1. CASE executed = <<>>
    BY <2>1 DEF ExecutedWithinMandate
  <2>2. CASE executed # <<>>
    <3> DEFINE last == Len(attempts)
               record == attempts[last].candidate
    <3>1. executed = <<record>> /\ last > 0 /\ Cleared(last, record)
      BY <1>1, <2>2 DEF IInv, ExecutedInv
    <3>2. last \in 1..last /\ last \in Own
      BY <1>1, <3>1, Limits DEF IInv, Own
    <3>3. attempts \in Seq(Made)
      BY <1>1 DEF IInv, TypeInv
    <3>4. record \in Proposable
      <4>1. attempts[last] \in Made
        BY <3>2, <3>3
      <4> QED BY <4>1 DEF Made
    <3>5. /\ Extractable(record)
          /\ \E time : PolicyFailures(Params, record, time) = {}
      BY <1>1, <3>1, <3>2 DEF IInv, OwnInv, IntentInv, Cleared
    <3>6. /\ RecordNumbers(record) /\ record.funding.required = record.descriptor.required
          /\ ValidatePolicy(mandate) /\ PolicyNumbers(mandate)
      BY <1>1, <3>4, CandidatesAssumption, MandatesAssumption DEF IInv, TypeInv
    <3>7. ExactlyWithin(mandate, record)
      BY <3>5, <3>6, PassedIsWithin DEF Params
    <3> HIDE DEF last, record
    <3>8. Len(executed) = 1 /\ executed[1] = record
      BY <3>1
    <3>9. \A n \in 1..Len(executed) : n = 1
      BY <3>8
    <3> QED BY <3>1, <3>7, <3>8, <3>9 DEF ExecutedWithinMandate, Cleared, last, record
  <2> QED BY <2>1, <2>2
<1> QED BY <1>1, Invariant, PTL

(* mandateDisposition: a run proposes again only after the services refused *)
(* the very candidate of the attempt before, and never beyond its limit.    *)
THEOREM RetriedIsRefused == Spec => []RetriedWasRefused
<1>1. ASSUME IInv PROVE RetriedWasRefused
  BY <1>1 DEF IInv, LimitInv, AttemptsInv, RetriedWasRefused, Refused, Working
<1> QED BY <1>1, Invariant, PTL

(* Only a new proposal changes the candidate.                                *)
CandidateInv == candidate \in Proposable \cup {NoSolution}

LEMMA OnlyProposeProposes == ASSUME [Next]_vars PROVE candidate' = candidate \/ Propose
<1>1. CASE AuthorizeIntent \/ SubmitProposal \/ Wake \/ CallFails \/ RequestTimesOut
             \/ Dispose \/ Execute \/ Tick \/ UNCHANGED vars
  BY <1>1 DEF AuthorizeIntent, SubmitProposal, BeginPoll, Wake, CallFails, RequestTimesOut, Throw,
              Dispose, Execute, Tick, vars
<1>2. CASE ReadStatus
  BY <1>2 DEF ReadStatus, NotYet, Throw, Conclude, BeginPoll
<1>3. CASE ReadVerification
  BY <1>3 DEF ReadVerification, NotYet, Throw, BeginPoll
<1>4. CASE ReadProof
  BY <1>4 DEF ReadProof, NotYet, Throw, Conclude
<1>5. CASE \E id \in DOMAIN intents : Decide(id) \/ Verify(id) \/ Prove(id)
  BY <1>5 DEF Decide, Verify, Prove, Services
<1> QED BY <1>1, <1>2, <1>3, <1>4, <1>5 DEF Next, Run

LEMMA CandidatesKnown == Spec => []CandidateInv
<1>1. Init => CandidateInv
  BY DEF Init, CandidateInv
<1>2. IInv /\ CandidateInv /\ [Next]_vars => CandidateInv'
  <2> SUFFICES ASSUME IInv, CandidateInv, [Next]_vars PROVE CandidateInv'
    OBVIOUS
  <2>1. Proposable' = Proposable
    BY DEF Proposable
  <2>2. CASE candidate' = candidate
    BY <2>1, <2>2 DEF CandidateInv
  <2>3. CASE Propose
    <3>1. pc = "propose" /\ candidate' \in Candidates(mandate, adapter, Attempt)
      BY <2>3 DEF Propose
    <3> QED BY <2>1, <3>1, CandidateProposable DEF IInv, CandidateInv
  <2> QED BY <2>2, <2>3, OnlyProposeProposes
<1> QED BY <1>1, <1>2, Invariant, PTL DEF Spec

(* execution-policy.js and the mandate decide alike, of every order of      *)
(* every policy, whatever its numbers.                                      *)
THEOREM ChecksAlike == Spec => []ChecksAgree
<1>1. ASSUME IInv, CandidateInv PROVE ChecksAgree
  <2> SUFFICES ASSUME candidate # NoSolution
               PROVE  /\ CanPropose(mandate, candidate.market) /\ NormalizeMarket(candidate.market) =>
                           EvaluateExecutionProposal(mandate, ProposeSpotOrder(mandate, candidate.market),
                                                     candidate.market)
                             \subseteq {"MARKET_PRICE_CONDITION_NOT_MET"}
                      /\ candidate = BuildActionRecord(mandate, candidate.request, candidate.market,
                                                       candidate.preview, candidate.funding, Credential)
                           /\ GuardPasses(mandate, candidate) =>
                              /\ Extractable(candidate) <=>
                                   candidate.preview.text = candidate.payload.text
                              /\ Extractable(candidate) =>
                                   PolicyFailures(Params, candidate, Expiry) = {}
    BY DEF ChecksAgree
  <2>1. RecordNumbers(candidate) /\ ValidatePolicy(mandate) /\ PolicyNumbers(mandate)
    BY <1>1, CandidatesAssumption, MandatesAssumption DEF CandidateInv, IInv, TypeInv
  <2>2. /\ candidate.market.bid \in Int /\ candidate.market.ask \in Int
        /\ candidate.market.priceInc \in Int
    BY <2>1 DEF RecordNumbers
  <2>3. Expiry \in Int /\ Expiry <= Expiry
    BY TimesAssumption
  <2>4. ASSUME CanPropose(mandate, candidate.market), NormalizeMarket(candidate.market)
        PROVE  EvaluateExecutionProposal(mandate, ProposeSpotOrder(mandate, candidate.market),
                                         candidate.market)
                 \subseteq {"MARKET_PRICE_CONDITION_NOT_MET"}
    BY <2>1, <2>2, <2>4, ProposedIsWithinBound
  <2>5. ASSUME candidate = BuildActionRecord(mandate, candidate.request, candidate.market,
                                             candidate.preview, candidate.funding, Credential),
               GuardPasses(mandate, candidate)
        PROVE  /\ Extractable(candidate) <=> candidate.preview.text = candidate.payload.text
               /\ Extractable(candidate) => PolicyFailures(Params, candidate, Expiry) = {}
    BY <2>1, <2>3, <2>5, GuardedPasses DEF Params
  <2> QED BY <2>4, <2>5
<1> QED BY <1>1, Invariant, CandidatesKnown, PTL

(* ------------------------------ termination ----------------------------- *)

(* A poll overruns its deadline by a sleep and a request at most.           *)
Longest == TimeoutMs + PollIntervalMs + RequestMs

TimeOK(at, which, time, since) ==
    /\ time \in Nat /\ since \in Nat
    /\ at = "reading" => since <= RequestMs /\ time <= TimeoutMs + PollIntervalMs + since
    /\ at = "sleeping" => since <= PollIntervalMs /\ time < TimeoutMs + since
    /\ at \in {"reading", "sleeping"} => which \in {"status", "verification", "proof"}

TimeInv == TimeOK(pc, poll, waited, asked)

(* How many steps a poll, an attempt and the run may still take, the        *)
(* passing of time included: a read and a sleep use up time between them.   *)
StepsInPoll(at, time, since) ==
    IF at = "reading" THEN 3 * (Longest - time) + 1
    ELSE IF since = 0 THEN 3 * (Longest - time)
    ELSE 3 * (Longest - time) + 2

PollSteps == 3 * Longest + 3

PollsAfter(which) == IF which = "status" THEN 2 ELSE IF which = "verification" THEN 1 ELSE 0

StepsInAttempt(at, which, time, since) ==
    IF at = "propose" THEN 3 * PollSteps + 5
    ELSE IF at = "authorize" THEN 3 * PollSteps + 4
    ELSE IF at = "submit" THEN 3 * PollSteps + 3
    ELSE IF at \in {"reading", "sleeping"}
    THEN StepsInPoll(at, time, since) + 2 + PollsAfter(which) * PollSteps
    ELSE IF at \in {"dispose", "execute"} THEN 1
    ELSE 0

Places == Working \cup {"execute"} \cup Over

AttemptSteps == 3 * PollSteps + 6

StepsLeft ==
    (max - Len(attempts)) * AttemptSteps + StepsInAttempt(pc, poll, waited, asked)

(* The steps of the run and the passing of its time; the services, which    *)
(* take steps of their own, neither shorten nor prolong a run.              *)
RunIsFinite ==
    [][IF Run \/ Tick THEN StepsLeft' < StepsLeft ELSE StepsLeft' = StepsLeft]_vars

LEMMA Times == /\ TimeoutMs \in Nat /\ PollIntervalMs \in Nat /\ RequestMs \in Nat
               /\ PollIntervalMs > 0 /\ Longest \in Nat /\ PollSteps \in Nat
<1>1. TimeoutMs \in Nat /\ PollIntervalMs \in Nat /\ RequestMs \in Nat /\ PollIntervalMs > 0
  BY TimesAssumption
<1>2. Longest \in Nat
  BY <1>1 DEF Longest
<1>3. PollSteps \in Nat
  BY <1>2 DEF PollSteps
<1> QED BY <1>1, <1>2, <1>3

(* Where a step of the run leaves it.                                       *)
Ended == pc' \in Over /\ attempts' = attempts
Slept == /\ pc = "reading" /\ pc' = "sleeping" /\ asked' = 0
         /\ waited < TimeoutMs /\ UNCHANGED <<poll, waited, attempts>>
Polled == pc' = "reading" /\ waited' = 0 /\ asked' = 0 /\ attempts' = attempts

LEMMA ReadMoves ==
    ASSUME ReadStatus \/ ReadVerification \/ ReadProof
    PROVE  /\ pc = "reading" /\ max' = max
           /\ \/ Ended
              \/ Slept
              \/ Polled /\ poll = "status" /\ poll' = "verification"
              \/ Polled /\ poll = "verification" /\ poll' = "proof"
              \/ pc' = "dispose" /\ attempts' = attempts /\ waited' = waited /\ asked' = asked
<1>1. pc = "reading" /\ max' = max
  BY DEF ReadStatus, ReadVerification, ReadProof, Reads
<1>2. Throw => Ended
  BY DEF Throw, Ended, Over
<1>3. NotYet => Ended \/ Slept
  BY <1>1, <1>2 DEF NotYet, Slept
<1>4. ASSUME NEW d, NEW f, NEW v, Conclude(d, f, v)
      PROVE  pc' = "dispose" /\ attempts' = attempts /\ waited' = waited /\ asked' = asked
  BY <1>4 DEF Conclude
<1>5. CASE ReadStatus
  BY <1>1, <1>2, <1>3, <1>4, <1>5 DEF ReadStatus, Reads, BeginPoll, Polled
<1>6. CASE ReadVerification
  BY <1>1, <1>2, <1>3, <1>6 DEF ReadVerification, Reads, BeginPoll, Polled
<1>7. CASE ReadProof
  BY <1>1, <1>2, <1>3, <1>4, <1>7 DEF ReadProof, Reads
<1> QED BY <1>1, <1>5, <1>6, <1>7

(* A disposition ends the attempt, and a retry begins the next.             *)
LEMMA DisposeMoves ==
    ASSUME TypeInv, Dispose
    PROVE  /\ pc = "dispose" /\ max' = max /\ Len(attempts') = Len(attempts) + 1
           /\ pc' \in {"execute", "propose", "STOPPED"}
<1>1. PICK made : attempts' = Append(attempts, made)
  BY DEF Dispose
<1>2. Len(attempts') = Len(attempts) + 1
  BY <1>1 DEF TypeInv
<1>3. MandateDisposition(result, Attempt, max) \in {"EXECUTE", "RETRY", "STOP"}
  BY DEF MandateDisposition
<1> QED BY <1>2, <1>3 DEF Dispose

LEMMA TimeNext == TypeInv /\ TimeInv /\ [Next]_vars => TimeInv'
<1> SUFFICES ASSUME TypeInv, TimeInv, [Next]_vars PROVE TimeInv'
  OBVIOUS
<1>1. CASE UNCHANGED <<pc, poll, waited, asked>>
  BY <1>1 DEF TimeInv, TimeOK
<1>2. CASE pc' \notin {"reading", "sleeping"} /\ UNCHANGED <<waited, asked>>
  BY <1>2 DEF TimeInv, TimeOK
<1>3. CASE ReadStatus \/ ReadVerification \/ ReadProof
  <2>1. CASE Ended
    <3>1. UNCHANGED <<waited, asked>>
      BY <1>3, <2>1 DEF ReadStatus, ReadVerification, ReadProof, Ended, Over, Throw, NotYet,
        BeginPoll, Conclude
    <3> QED BY <1>2, <2>1, <3>1 DEF Ended, Over
  <2>2. CASE Slept
    BY <2>2, Times DEF Slept, TimeInv, TimeOK
  <2>3. CASE Polled /\ poll' \in {"verification", "proof"}
    BY <2>3, Times DEF Polled, TimeInv, TimeOK
  <2>4. CASE pc' = "dispose" /\ waited' = waited /\ asked' = asked
    BY <1>2, <2>4
  <2> QED BY <1>3, <2>1, <2>2, <2>3, <2>4, ReadMoves
<1>4. CASE SubmitProposal
  BY <1>4, Times DEF SubmitProposal, BeginPoll, TimeInv, TimeOK
<1>5. CASE Wake
  BY <1>5, Times DEF Wake, TimeInv, TimeOK
<1>6. CASE Tick
  BY <1>6, Times DEF Tick, TimeInv, TimeOK
<1>7. CASE Propose \/ AuthorizeIntent \/ Dispose \/ Execute
  <2>1. CASE Propose \/ AuthorizeIntent \/ Execute
    <3>1. pc' \notin {"reading", "sleeping"} /\ UNCHANGED <<waited, asked>>
      BY <2>1 DEF Propose, AuthorizeIntent, Execute
    <3> QED BY <1>2, <3>1
  <2>2. CASE Dispose
    <3>1. pc' \notin {"reading", "sleeping"}
      BY <2>2, DisposeMoves
    <3>2. UNCHANGED <<waited, asked>>
      BY <2>2 DEF Dispose
    <3> QED BY <1>2, <3>1, <3>2
  <2> QED BY <1>7, <2>1, <2>2
<1>8. CASE CallFails \/ RequestTimesOut
  <2>1. pc' \notin {"reading", "sleeping"} /\ UNCHANGED <<waited, asked>>
    BY <1>8 DEF CallFails, RequestTimesOut, Throw
  <2> QED BY <1>2, <2>1
<1>9. ASSUME NEW id \in DOMAIN intents, Decide(id) \/ Verify(id) \/ Prove(id)
      PROVE  UNCHANGED <<pc, poll, waited, asked>>
  BY <1>9 DEF Decide, Verify, Prove, Services
<1>10. CASE UNCHANGED vars
  BY <1>1, <1>10 DEF vars
<1> QED BY <1>1, <1>3, <1>4, <1>5, <1>6, <1>7, <1>8, <1>9, <1>10 DEF Next, Run

LEMMA TimeAlways == Spec => []TimeInv
<1>1. Init => TimeInv
  BY DEF Init, TimeInv, TimeOK
<1>2. IInv => TypeInv
  BY DEF IInv
<1> QED BY <1>1, <1>2, TimeNext, Invariant, PTL DEF Spec

(* No poll lasts longer than its timeout, a sleep and a request, whatever   *)
(* the services do (poll, AbortSignal.timeout).                             *)
THEOREM PollsAreShort == Spec => [](pc \in {"reading", "sleeping"} => waited <= Longest)
<1>1. ASSUME TimeInv, pc \in {"reading", "sleeping"} PROVE waited <= Longest
  BY <1>1, Times DEF TimeInv, TimeOK, Longest
<1> QED BY <1>1, TimeAlways, PTL

LEMMA PollRange ==
    ASSUME NEW at \in {"reading", "sleeping"}, NEW which, NEW time, NEW since,
           TimeOK(at, which, time, since)
    PROVE  StepsInPoll(at, time, since) \in Nat /\ StepsInPoll(at, time, since) < PollSteps
<1>1. time \in Nat /\ time <= Longest
  BY Times DEF TimeOK, Longest
<1> QED BY <1>1, Times DEF StepsInPoll, PollSteps

LEMMA PollSum ==
    ASSUME NEW at \in {"reading", "sleeping"}, NEW which, NEW time, NEW since
    PROVE  /\ which = "status" => StepsInAttempt(at, which, time, since)
                                    = StepsInPoll(at, time, since) + 2 + 2 * PollSteps
           /\ which = "verification" => StepsInAttempt(at, which, time, since)
                                          = StepsInPoll(at, time, since) + 2 + PollSteps
           /\ which = "proof" => StepsInAttempt(at, which, time, since)
                                   = StepsInPoll(at, time, since) + 2 + 0
<1>1. StepsInAttempt(at, which, time, since)
        = StepsInPoll(at, time, since) + 2 + PollsAfter(which) * PollSteps
  BY DEF StepsInAttempt
<1>2. 1 * PollSteps = PollSteps /\ 0 * PollSteps = 0
  BY Times
<1> QED BY <1>1, <1>2 DEF PollsAfter

LEMMA OtherSteps ==
    ASSUME NEW which, NEW time, NEW since
    PROVE  /\ StepsInAttempt("propose", which, time, since) = 3 * PollSteps + 5
           /\ StepsInAttempt("authorize", which, time, since) = 3 * PollSteps + 4
           /\ StepsInAttempt("submit", which, time, since) = 3 * PollSteps + 3
           /\ StepsInAttempt("dispose", which, time, since) = 1
           /\ StepsInAttempt("execute", which, time, since) = 1
           /\ \A at \in Over : StepsInAttempt(at, which, time, since) = 0
  BY DEF StepsInAttempt, Over

(* What is left of an attempt, in terms of where it stands.                 *)
LEMMA AttemptRange ==
    ASSUME NEW at \in Places, NEW which, NEW time, NEW since, TimeOK(at, which, time, since)
    PROVE  /\ StepsInAttempt(at, which, time, since) \in Nat
           /\ StepsInAttempt(at, which, time, since) < AttemptSteps
           /\ at \in Over => StepsInAttempt(at, which, time, since) = 0
           /\ at \notin Over => StepsInAttempt(at, which, time, since) > 0
           /\ at \in {"reading", "sleeping"} =>
                /\ StepsInAttempt(at, which, time, since) > 1
                /\ StepsInAttempt(at, which, time, since) < 3 * PollSteps + 3
<1>1. CASE at \in {"reading", "sleeping"}
  <2> PICK n : n = StepsInPoll(at, time, since)
    OBVIOUS
  <2> PICK m : m = StepsInAttempt(at, which, time, since)
    OBVIOUS
  <2>1. n \in Nat /\ n < PollSteps /\ which \in {"status", "verification", "proof"}
    BY <1>1, PollRange DEF TimeOK
  <2>2. m = n + 2 + 2 * PollSteps \/ m = n + 2 + PollSteps \/ m = n + 2 + 0
    BY <1>1, <2>1, PollSum
  <2>3. at \notin Over
    BY <1>1 DEF Over
  <2>4. m \in Nat /\ m > 1 /\ m > 0 /\ m < 3 * PollSteps + 3 /\ m < 3 * PollSteps + 6
    BY <2>1, <2>2, Times
  <2>5. at \in Over => StepsInAttempt(at, which, time, since) = 0
    BY <2>3
  <2>6. StepsInAttempt(at, which, time, since) \in Nat
    BY <2>4
  <2>7. StepsInAttempt(at, which, time, since) < AttemptSteps
    BY <2>4 DEF AttemptSteps
  <2>8. /\ StepsInAttempt(at, which, time, since) > 0
        /\ StepsInAttempt(at, which, time, since) > 1
        /\ StepsInAttempt(at, which, time, since) < 3 * PollSteps + 3
    BY <2>4
  <2> QED BY <2>5, <2>6, <2>7, <2>8
<1>2. CASE at \notin {"reading", "sleeping"}
  <2>1. at \in {"propose", "authorize", "submit", "dispose", "execute"} \cup Over
    BY <1>2 DEF Places, Working, Registered, Over
  <2>2. CASE at \in Over
    <3>1. StepsInAttempt(at, which, time, since) = 0
      BY <2>2, OtherSteps
    <3>2. 0 < AttemptSteps
      BY Times DEF AttemptSteps
    <3> QED BY <1>2, <2>2, <3>1, <3>2
  <2>3. CASE at \in {"propose", "authorize", "submit", "dispose", "execute"}
    <3>1. at \notin Over
      BY <2>3 DEF Over
    <3> PICK m : m = StepsInAttempt(at, which, time, since)
      OBVIOUS
    <3>2. m \in {1, 3 * PollSteps + 3, 3 * PollSteps + 4, 3 * PollSteps + 5}
      BY <2>3, OtherSteps
    <3>3. m \in Nat /\ m > 0 /\ m < 3 * PollSteps + 6
      BY <3>2, Times
    <3> QED BY <1>2, <3>1, <3>3 DEF AttemptSteps
  <2> QED BY <2>1, <2>2, <2>3
<1> QED BY <1>1, <1>2

(* Where a poll goes on, and where it is another.                           *)
LEMMA PollShortens ==
    ASSUME NEW at \in {"reading", "sleeping"}, NEW to \in {"reading", "sleeping"},
           NEW which \in {"status", "verification", "proof"},
           NEW time, NEW since, NEW later, NEW anew,
           TimeOK(at, which, time, since), TimeOK(to, which, later, anew),
           StepsInPoll(to, later, anew) < StepsInPoll(at, time, since)
    PROVE  StepsInAttempt(to, which, later, anew) < StepsInAttempt(at, which, time, since)
<1> PICK n, m : n = StepsInPoll(at, time, since) /\ m = StepsInPoll(to, later, anew)
  OBVIOUS
<1>1. n \in Nat /\ m \in Nat /\ m < n
  BY PollRange
<1>2. CASE which = "status"
  <2>1. /\ StepsInAttempt(at, which, time, since) = n + 2 + 2 * PollSteps
        /\ StepsInAttempt(to, which, later, anew) = m + 2 + 2 * PollSteps
    BY <1>2, PollSum
  <2> QED BY <1>1, <2>1, Times
<1>3. CASE which = "verification"
  <2>1. /\ StepsInAttempt(at, which, time, since) = n + 2 + PollSteps
        /\ StepsInAttempt(to, which, later, anew) = m + 2 + PollSteps
    BY <1>3, PollSum
  <2> QED BY <1>1, <2>1, Times
<1>4. CASE which = "proof"
  <2>1. /\ StepsInAttempt(at, which, time, since) = n + 2 + 0
        /\ StepsInAttempt(to, which, later, anew) = m + 2 + 0
    BY <1>4, PollSum
  <2> QED BY <1>1, <2>1, Times
<1> QED BY <1>2, <1>3, <1>4

LEMMA PollFollows ==
    ASSUME NEW which, NEW next, NEW time, NEW since, NEW later, NEW anew,
           \/ which = "status" /\ next = "verification"
           \/ which = "verification" /\ next = "proof",
           TimeOK("reading", which, time, since), TimeOK("reading", next, later, anew)
    PROVE  StepsInAttempt("reading", next, later, anew)
             < StepsInAttempt("reading", which, time, since)
<1> PICK n, m : n = StepsInPoll("reading", time, since) /\ m = StepsInPoll("reading", later, anew)
  OBVIOUS
<1>1. n \in Nat /\ m \in Nat /\ m < PollSteps
  BY PollRange
<1>2. CASE which = "status" /\ next = "verification"
  <2>1. /\ StepsInAttempt("reading", which, time, since) = n + 2 + 2 * PollSteps
        /\ StepsInAttempt("reading", next, later, anew) = m + 2 + PollSteps
    BY <1>2, PollSum
  <2> QED BY <1>1, <2>1, Times
<1>3. CASE which = "verification" /\ next = "proof"
  <2>1. /\ StepsInAttempt("reading", which, time, since) = n + 2 + PollSteps
        /\ StepsInAttempt("reading", next, later, anew) = m + 2 + 0
    BY <1>3, PollSum
  <2> QED BY <1>1, <2>1, Times
<1> QED BY <1>2, <1>3

(* A step of an attempt leaves less of it.                                  *)
StepsNow == StepsInAttempt(pc, poll, waited, asked)

LEMMA AttemptShortens ==
    ASSUME TypeInv, TimeInv, TypeInv', TimeInv', Run \/ Tick, ~Dispose
    PROVE  StepsNow' < StepsNow /\ attempts' = attempts /\ max' = max
<1>0. /\ pc \in Places /\ pc' \in Places
      /\ TimeOK(pc, poll, waited, asked) /\ TimeOK(pc', poll', waited', asked')
  BY DEF TypeInv, TimeInv, Places
<1>1. /\ StepsNow = StepsInAttempt(pc, poll, waited, asked)
      /\ StepsNow' = StepsInAttempt(pc', poll', waited', asked')
  BY DEF StepsNow
<1>2. CASE pc \notin Over /\ pc' \in Over /\ attempts' = attempts /\ max' = max
  <2>1. StepsNow' = 0 /\ StepsNow > 0
    BY <1>0, <1>1, <1>2, AttemptRange
  <2> QED BY <1>2, <2>1
<1>3. CASE Propose
  <2>1. StepsNow = 3 * PollSteps + 5 /\ StepsNow' = 3 * PollSteps + 4
    BY <1>1, <1>3, OtherSteps DEF Propose
  <2> QED BY <1>3, <2>1, Times DEF Propose
<1>4. CASE AuthorizeIntent
  <2>1. StepsNow = 3 * PollSteps + 4 /\ StepsNow' = 3 * PollSteps + 3
    BY <1>1, <1>4, OtherSteps DEF AuthorizeIntent
  <2> QED BY <1>4, <2>1, Times DEF AuthorizeIntent
<1>5. CASE SubmitProposal
  <2>1. pc = "submit" /\ pc' = "reading" /\ attempts' = attempts /\ max' = max
    BY <1>5 DEF SubmitProposal, BeginPoll
  <2>2. StepsNow = 3 * PollSteps + 3
    BY <1>1, <2>1, OtherSteps
  <2>3. StepsNow' < 3 * PollSteps + 3
    BY <1>0, <1>1, <2>1, AttemptRange
  <2>4. StepsNow' < StepsNow
    BY <2>2, <2>3
  <2> QED BY <2>1, <2>4
<1>6. CASE ReadStatus \/ ReadVerification \/ ReadProof
  <2>1. pc = "reading" /\ max' = max
    BY <1>6, ReadMoves
  <2>2. CASE Ended
    BY <1>2, <2>1, <2>2 DEF Ended, Over
  <2>3. CASE Slept
    <3>1. /\ waited' = waited /\ poll' = poll
          /\ pc' = "sleeping" /\ asked' = 0 /\ attempts' = attempts
      BY <2>3 DEF Slept
    <3>2. waited \in Nat /\ waited <= Longest /\ poll \in {"status", "verification", "proof"}
      BY <1>0, <2>1, Times DEF TimeOK, Longest
    <3>3. StepsInPoll("sleeping", waited, 0) < StepsInPoll("reading", waited, asked)
      BY <3>2, Times DEF StepsInPoll
    <3>4. StepsNow' < StepsNow
      BY <1>0, <1>1, <2>1, <3>1, <3>2, <3>3, PollShortens
    <3> QED BY <2>1, <3>1, <3>4
  <2>4. CASE \/ Polled /\ poll = "status" /\ poll' = "verification"
             \/ Polled /\ poll = "verification" /\ poll' = "proof"
    <3>1. pc' = "reading" /\ attempts' = attempts
      BY <2>4 DEF Polled
    <3>2. StepsNow' < StepsNow
      BY <1>0, <1>1, <2>1, <2>4, <3>1, PollFollows
    <3> QED BY <2>1, <3>1, <3>2
  <2>5. CASE pc' = "dispose" /\ attempts' = attempts
    <3>1. StepsNow' = 1
      BY <1>1, <2>5, OtherSteps
    <3>2. StepsNow > 1
      BY <1>0, <1>1, <2>1, AttemptRange
    <3> QED BY <2>1, <2>5, <3>1, <3>2
  <2>6. \/ Ended
        \/ Slept
        \/ Polled /\ poll = "status" /\ poll' = "verification"
        \/ Polled /\ poll = "verification" /\ poll' = "proof"
        \/ pc' = "dispose" /\ attempts' = attempts
    BY <1>6, ReadMoves
  <2> QED BY <2>2, <2>3, <2>4, <2>5, <2>6
<1>7. CASE Wake \/ Tick
  <2>1. /\ pc \in {"reading", "sleeping"} /\ pc' \in {"reading", "sleeping"} /\ poll' = poll
        /\ attempts' = attempts /\ max' = max
    BY <1>7 DEF Wake, Tick
  <2>2. /\ waited \in Nat /\ asked \in Nat /\ waited <= Longest
        /\ waited' <= Longest /\ waited' \in Nat
        /\ poll \in {"status", "verification", "proof"}
    <3>1. ASSUME NEW at \in {"reading", "sleeping"}, NEW which, NEW time, NEW since,
                 TimeOK(at, which, time, since)
          PROVE  /\ time \in Nat /\ since \in Nat /\ time <= Longest
                 /\ which \in {"status", "verification", "proof"}
      BY <3>1, Times DEF TimeOK, Longest
    <3> QED BY <1>0, <2>1, <3>1
  <2>3. StepsInPoll(pc', waited', asked') < StepsInPoll(pc, waited, asked)
    <3>1. CASE Wake
      BY <2>2, <3>1, Times DEF Wake, StepsInPoll
    <3>2. CASE Tick
      BY <2>1, <2>2, <3>2, Times DEF Tick, StepsInPoll
    <3> QED BY <1>7, <3>1, <3>2
  <2>4. StepsNow' < StepsNow
    BY <1>0, <1>1, <2>1, <2>2, <2>3, PollShortens
  <2> QED BY <2>1, <2>4
<1>8. CASE CallFails \/ RequestTimesOut
  <2>1. pc \notin Over /\ pc' \in Over /\ attempts' = attempts /\ max' = max
    BY <1>8 DEF CallFails, RequestTimesOut, Throw, Over
  <2> QED BY <1>2, <2>1
<1>9. CASE Execute
  <2>1. pc \notin Over /\ pc' \in Over /\ attempts' = attempts /\ max' = max
    BY <1>9 DEF Execute, Over
  <2> QED BY <1>2, <2>1
<1> QED BY <1>3, <1>4, <1>5, <1>6, <1>7, <1>8, <1>9 DEF Run

LEMMA NextAttemptIsLess ==
    ASSUME NEW rest \in Int, NEW one \in Int, NEW steps \in Int, steps < one
    PROVE  (rest - one) + steps < rest + 1
  OBVIOUS

(* Every step of the run, and every instant that it waits, brings it nearer *)
(* to its end, whatever the services answer or fail to answer: no run is    *)
(* endless (poll, AbortSignal.timeout, runMandateAttemptLoop).              *)
THEOREM RunsAreFinite == Spec => [](StepsLeft \in Nat) /\ RunIsFinite
<1>1. ASSUME TypeInv PROVE AttemptSteps \in Nat /\ max \in Nat /\ Len(attempts) \in Nat
  BY <1>1, Times, Limits DEF AttemptSteps
<1>2. ASSUME TypeInv, TimeInv PROVE StepsNow \in Nat /\ StepsNow < AttemptSteps
  BY <1>2, AttemptRange DEF TypeInv, TimeInv, Places, StepsNow
<1>3. ASSUME IInv, TimeInv PROVE StepsLeft \in Nat
  <2>1. /\ max \in Nat /\ Len(attempts) \in Nat /\ Len(attempts) <= max
        /\ AttemptSteps \in Nat /\ StepsNow \in Nat
    BY <1>1, <1>2, <1>3 DEF IInv, LimitInv
  <2>2. max - Len(attempts) \in Nat
    BY <2>1
  <2>3. (max - Len(attempts)) * AttemptSteps \in Nat
    BY <2>1, <2>2
  <2> QED BY <2>1, <2>3 DEF StepsLeft, StepsNow
<1>4. ASSUME IInv, TimeInv, TypeInv', TimeInv', Run \/ Tick PROVE StepsLeft' < StepsLeft
  <2> PICK before, after : before = StepsNow /\ after = StepsNow'
    OBVIOUS
  <2>0. TypeInv /\ before \in Nat /\ after \in Nat /\ after < AttemptSteps
    <3>1. TypeInv /\ before \in Nat
      BY <1>2, <1>4 DEF IInv
    <3>2. after \in Nat /\ after < AttemptSteps
      BY <1>4, AttemptRange DEF TypeInv, TimeInv, Places, StepsNow
    <3> QED BY <3>1, <3>2
  <2>1. AttemptSteps \in Nat /\ max \in Nat /\ Len(attempts) \in Nat
    BY <1>1, <2>0
  <2>2. PICK k \in Int : k = max - Len(attempts)
    BY <2>1
  <2>3. k * AttemptSteps \in Int /\ (k - 1) * AttemptSteps = k * AttemptSteps - AttemptSteps
    BY <2>1
  <2>4. /\ StepsLeft = k * AttemptSteps + before
        /\ StepsLeft' = (max' - Len(attempts')) * AttemptSteps + after
    BY <2>2 DEF StepsLeft, StepsNow, AttemptSteps, PollSteps, Longest
  <2>5. CASE ~Dispose
    <3>1. after < before /\ attempts' = attempts /\ max' = max
      BY <1>4, <2>0, <2>5, AttemptShortens
    <3>2. StepsLeft' = k * AttemptSteps + after
      BY <2>2, <2>4, <3>1
    <3> QED BY <2>0, <2>3, <2>4, <3>1, <3>2
  <2>6. CASE Dispose
    <3>1. pc = "dispose" /\ max' = max /\ Len(attempts') = Len(attempts) + 1
      BY <2>0, <2>6, DisposeMoves
    <3>2. before = 1
      BY <3>1, OtherSteps DEF StepsNow
    <3>3. max' - Len(attempts') = k - 1
      BY <2>1, <2>2, <3>1
    <3>4. StepsLeft' = (k * AttemptSteps - AttemptSteps) + after
      BY <2>3, <2>4, <3>3
    <3>5. StepsLeft = k * AttemptSteps + 1
      BY <2>4, <3>2
    <3>6. PICK p \in Int : p = k * AttemptSteps
      BY <2>3
    <3>7. (p - AttemptSteps) + after < p + 1
      <4>1. p \in Int /\ AttemptSteps \in Int /\ after \in Int /\ after < AttemptSteps
        BY <2>0, <2>1, <3>6
      <4> QED BY <4>1, NextAttemptIsLess
    <3> QED BY <3>4, <3>5, <3>6, <3>7
  <2> QED BY <2>5, <2>6
<1>5. ASSUME Next, ~(Run \/ Tick) PROVE StepsLeft' = StepsLeft
  <2>1. UNCHANGED <<max, pc, poll, waited, asked, attempts>>
    BY <1>5 DEF Next, Decide, Verify, Prove, Services
  <2> QED
    BY <2>1 DEF StepsLeft, AttemptSteps, PollSteps, Longest
<1>6. IInv /\ TimeInv /\ IInv' /\ TimeInv' /\ [Next]_vars =>
        [IF Run \/ Tick THEN StepsLeft' < StepsLeft ELSE StepsLeft' = StepsLeft]_vars
  <2>1. IInv' => TypeInv'
    BY DEF IInv
  <2> QED BY <1>4, <1>5, <2>1
<1> QED BY <1>3, <1>6, Invariant, TimeAlways, PTL DEF Spec, RunIsFinite
==============================================================================
