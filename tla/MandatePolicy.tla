---------------------------- MODULE MandatePolicy ----------------------------
(* The pinned Coinbase policy of a Delta mandate: its parameters, the action *)
(* record a solution stands for, the evidence taken from it and the          *)
(* constraints that evidence fails (src/src/mandate/coinbase-policy.js,      *)
(* coinbase-solution.js, coinbase-evidence.js, simulated-adapter.js).        *)
(* It decides again what the guard has decided, from other operands.         *)
EXTENDS SpotOrderPolicy

(* Prices, sizes and amounts are numbers of one scale.                      *)
PolicyNumbers(p) ==
    /\ p.size \in Int /\ p.commission \in Int /\ p.settlement \in Int
    /\ p.condition.on => p.condition.value \in Int

RecordNumbers(record) ==
    /\ record.payload.size \in Int /\ record.payload.limit \in Int
    /\ record.preview.total \in Int /\ record.preview.quote \in Int
    /\ record.preview.commission \in Int /\ record.preview.fill \in Int
    /\ record.preview.bid \in Int /\ record.preview.ask \in Int
    /\ record.market.bid \in Int /\ record.market.ask \in Int
    /\ record.market.priceInc \in Int /\ record.market.min \in Int /\ record.market.max \in Int
    /\ record.funding.available \in Int

BuildPolicyBundle(p, credential, expiry) ==
    [product |-> p.product, side |-> p.side, operator |-> p.operator, size |-> p.size,
     fundingAsset |-> CreateCanonicalSpotAction(p).fundingAsset,
     bps |-> p.bps, commission |-> p.commission, settlement |-> p.settlement,
     condition |-> p.condition, descriptor |-> CreateCanonicalSpotAction(p),
     credential |-> credential, expires |-> expiry]

(* The frozen record of the order a guard has checked.                      *)
BuildActionRecord(p, action, market, preview, funding, credential) ==
    [descriptor |-> CreateCanonicalSpotAction(p),
     payload |-> [product |-> action.product, side |-> action.side, size |-> action.size,
                  text |-> action.text, limit |-> action.limit, preview |-> preview.id],
     request |-> action, market |-> market, preview |-> preview,
     funding |-> [asset |-> funding.asset, available |-> funding.available,
                  complete |-> funding.complete, required |-> CreateCanonicalSpotAction(p).required],
     credential |-> credential]

(* What must hold of the envelope before any evidence is taken from it.  The*)
(* size of the Preview is compared as text: it must be the payload's number *)
(* and be written the same way, which the guard does not ask of it.         *)
ParsesAsSolution(record) ==
    /\ \A order \in {record.payload, record.request} :
          order.side \in {"BUY", "SELL"} /\ order.size > 0 /\ order.limit > 0
    /\ record.payload.preview # "" /\ record.preview.id # ""
    /\ \A d \in {record.market.bid, record.market.ask, record.market.priceInc,
                 record.market.quoteInc, record.market.baseInc,
                 record.market.min, record.market.max} : d > 0
    /\ \A d \in {record.preview.total, record.preview.quote, record.preview.base,
                 record.preview.fill, record.preview.bid, record.preview.ask} : d > 0
    /\ record.preview.commission >= 0
    /\ record.preview.errs = {} /\ record.preview.warning = {}
    /\ record.funding.complete
    /\ record.market.product = record.payload.product
    /\ record.payload.size = IF record.payload.side = "BUY" THEN record.preview.quote
                                                            ELSE record.preview.base
    /\ record.payload.text = record.preview.text

(* Rounded up, so that a cap is not met by a fraction of a basis point.     *)
FaultSlippageBps(fill, ref, side) ==
    LET adverse == fill - ref
    IN IF adverse <= 0 THEN 0 ELSE CeilDiv(adverse * Bps, ref)

SlippageBps(fill, ref, side) ==
    LET adverse == IF side = "BUY" THEN fill - ref ELSE ref - fill
    IN IF adverse <= 0 THEN 0 ELSE CeilDiv(adverse * Bps, ref)

AuthorizedLimit(record) ==
    PriceBoundFromBps(PriceReference(record.payload.side, record.market),
                      record.descriptor.policy.bps, record.market.priceInc, record.payload.side)

(* The evidence can be taken: nothing in it is contradictory to the point   *)
(* that its arithmetic throws.                                              *)
Extractable(record) ==
    /\ ParsesAsSolution(record)
    /\ Settles(record.payload.side, record.payload.size, record.preview)
    /\ AuthorizedLimit(record) > 0

ExtractEvidence(record, now) ==
    LET order == record.payload
        authorized == record.descriptor.policy
        settlement == DerivePreviewSettlement(order.side, order.size, record.preview)
        slippage == SlippageBps(record.preview.fill, PriceReference(order.side, record.market),
                                order.side)
    IN [product |-> order.product, side |-> order.side,
        operator |-> authorized.operator, size |-> order.size,
        sizeWithin |-> SizeWithin(authorized.operator, order.size, authorized.size),
        fundingAsset |-> record.funding.asset, descriptor |-> record.descriptor,
        limitWithin |-> IF order.side = "BUY" THEN order.limit <= AuthorizedLimit(record)
                                              ELSE order.limit >= AuthorizedLimit(record),
        slippage |-> slippage, slippageWithin |-> slippage <= authorized.bps,
        commission |-> record.preview.commission,
        commissionWithin |-> record.preview.commission <= authorized.commission,
        settlement |-> settlement,
        settlementWithin |-> /\ order.side = authorized.side
                             /\ SettlementWithin(order.side, settlement, authorized.settlement),
        condition |-> authorized.condition,
        conditionMet |-> /\ ConditionMet(authorized.condition, authorized.side, record.market)
                         /\ ConditionMet(authorized.condition, authorized.side, record.preview),
        funded |-> record.funding.available >= record.funding.required,
        credential |-> record.credential, at |-> now,
        requested |-> /\ record.request.product = order.product
                      /\ record.request.side = order.side
                      /\ record.request.size = order.size /\ record.request.text = order.text
                      /\ record.request.limit = order.limit,
        preview |-> order.preview = record.preview.id,
        online |-> record.market.online, disabled |-> record.market.disabled]

PolicyChecks(params, evidence) ==
      [product_id |-> evidence.product = params.product,
       side |-> evidence.side = params.side,
       size_operator |-> evidence.operator = params.operator,
       size |-> evidence.sizeWithin /\ SizeWithin(params.operator, evidence.size, params.size),
       funding_asset |-> evidence.fundingAsset = params.fundingAsset,
       action_descriptor |-> evidence.descriptor = params.descriptor,
       limit_price |-> evidence.limitWithin,
       slippage |-> evidence.slippageWithin /\ evidence.slippage <= params.bps,
       commission |-> evidence.commissionWithin /\ evidence.commission <= params.commission,
       settlement |-> /\ evidence.side = params.side /\ evidence.settlementWithin
                      /\ SettlementWithin(params.side, evidence.settlement, params.settlement),
       market_condition |-> evidence.condition = params.condition /\ evidence.conditionMet,
       funding_sufficient |-> evidence.funded,
       credential |-> evidence.credential = params.credential,
       expiry |-> evidence.at <= params.expires,
       preview_request |-> evidence.requested,
       preview_id |-> evidence.preview,
       market_status |-> evidence.online,
       market_flags |-> ~evidence.disabled]

EvaluateSimulatedCoinbasePolicy(params, evidence) == Failing(PolicyChecks(params, evidence))

PolicyFailures(params, record, now) ==
    EvaluateSimulatedCoinbasePolicy(params, ExtractEvidence(record, now))

(* ------------------------------ reference ------------------------------- *)

(* What the human authorized, in exact fractions and from the order alone:  *)
(* neither the worst price the order allows nor the estimated one leaves the*)
(* authorized margin, and the account loses, and holds, no more and gains   *)
(* no less than stated.                                                     *)
ExactlyWithin(p, record) ==
    LET order == record.payload
        ref == PriceReference(p.side, record.market)
        preview == record.preview
    IN /\ order.product = p.product /\ order.side = p.side
       /\ SizeWithin(p.operator, order.size, p.size)
       /\ preview.commission <= p.commission
       /\ IF p.side = "BUY"
          THEN /\ \A price \in {order.limit, preview.fill} : price * Bps <= ref * (Bps + p.bps)
               /\ \A debit \in {preview.total, order.size + preview.commission} :
                     debit <= p.settlement /\ debit <= record.funding.available
          ELSE /\ \A price \in {order.limit, preview.fill} : price * Bps >= ref * (Bps - p.bps)
               /\ \A gross \in {preview.total, preview.quote} :
                     gross - preview.commission >= p.settlement
               /\ order.size <= record.funding.available
       /\ \A book \in {record.market, preview} : ConditionMet(p.condition, p.side, book)

(* The guard's whole verdict on a record, in the order of the pipeline.     *)
GuardPasses(p, record) ==
    /\ NormalizeMarket(record.market)
    /\ FundingPasses(p, record.funding)
    /\ CanPropose(p, record.market)
    /\ EvaluateExecutionProposal(p, record.request, record.market) = {}
    /\ EvaluateExecutionPreview(p, record.request, record.market, record.preview) = "PASS"
==============================================================================
