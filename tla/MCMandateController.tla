------------------------- MODULE MCMandateController -------------------------
(* A purchase and a sale.  Prices are near 200, so that a basis point, a     *)
(* price increment and a cut fraction make a difference; a base size of 20  *)
(* is two coins at the scale of 10, and half a unit of their price is cut   *)
(* off.  The size is written as the policy writes it, but for one Preview.  *)
EXTENDS MandateController

Buy == [product |-> "P", side |-> "BUY", operator |-> "MAX", size |-> 402, text |-> "plain",
        bps |-> 50, commission |-> 4, settlement |-> 406, condition |-> [on |-> TRUE, value |-> 201]]
Sell == [product |-> "P", side |-> "SELL", operator |-> "EXACT", size |-> 20, text |-> "plain",
         bps |-> 100, commission |-> 4, settlement |-> 392, condition |-> NoCondition]

MCMandates == {Buy, Sell}

Market(bid, ask, inc) ==
    [product |-> "P", bid |-> bid, ask |-> ask, priceInc |-> inc, quoteInc |-> 1, baseInc |-> 1,
     min |-> 1, max |-> 1000, online |-> TRUE, disabled |-> FALSE]

Preview(quote, base, fill, commission, total, bid, ask) ==
    [id |-> "preview", text |-> "plain", quote |-> quote, base |-> base, fill |-> fill,
     commission |-> commission,
     total |-> total, bid |-> bid, ask |-> ask, errs |-> {}, warning |-> {}]

Funding(asset, available) == [asset |-> asset, available |-> available, complete |-> TRUE]

Order(p, size, limit) == [product |-> "P", side |-> p.side, size |-> size, text |-> p.text,
                         limit |-> limit]

BuyRecord(ask, inc, size, limit, fill, commission, extra, available) ==
    BuildActionRecord(Buy, Order(Buy, size, limit), Market(ask - 1, ask, inc),
                      Preview(size, 20, fill, commission, size + extra, ask - 1, ask),
                      Funding("quote", available), Credential)

SellRecord(limit, fill, commission, extra, available) ==
    BuildActionRecord(Sell, Order(Sell, 20, limit), Market(200, 202, 1),
                      Preview(2 * fill, 20, fill, commission, 2 * fill + extra, 200, 202),
                      Funding("base", available), Credential)

GoodBuy == BuyRecord(201, 4, 400, 200, 200, 4, 4, 406)
GoodSell == SellRecord(198, 199, 4, 0, 20)
DearBuy == BuyRecord(201, 4, 400, 204, 200, 4, 4, 406)

Buys ==
    {BuyRecord(ask, inc, size, limit, fill, commission, extra, 406) :
       ask \in {201, 202}, inc \in {1, 4}, size \in {400, 402, 403}, limit \in {200, 202, 204},
       fill \in {200, 201}, commission \in {0, 4}, extra \in {0, 4}}
      \cup {BuyRecord(201, 1, 402, 202, 201, 4, extra, available) :
              extra \in {5, 9}, available \in {405, 406}}
      \cup {BuyRecord(201, 500, 402, 202, 201, 4, 4, 406)}

Sells ==
    {SellRecord(limit, fill, commission, extra, 20) :
       limit \in {197, 198, 200}, fill \in {197, 198, 199, 203}, commission \in {0, 4, 5},
       extra \in {0, 4}}
      \cup {SellRecord(198, 199, 4, 0, 19), SellRecord(198, 199, 4, -395, 20)}

(* Records that are not what the guard has frozen.                          *)
Altered(record) ==
    {[record EXCEPT !.request.size = @ + 1], [record EXCEPT !.payload.preview = "other"],
     [record EXCEPT !.credential = "other"], [record EXCEPT !.market.online = FALSE],
     [record EXCEPT !.descriptor.policy.bps = 9000], [record EXCEPT !.preview.warning = {"late"}],
     [record EXCEPT !.preview.text = "padded"], [record EXCEPT !.payload.size = 0],
     [record EXCEPT !.market.product = "Q"]}

BuyGrid == Buys \cup Altered(GoodBuy)
SellGrid == Sells \cup Altered(GoodSell)
BuyMenu == {GoodBuy, DearBuy, [GoodBuy EXCEPT !.preview.warning = {"late"}]}
SellMenu == {GoodSell, [GoodSell EXCEPT !.credential = "other"]}

(* The simulated adapter sees every record first; a second attempt, and     *)
(* Delta, a few.                                                            *)
MCCandidates(p, kind, attempt) ==
    IF kind = "simulation-only" /\ attempt = 1
    THEN IF p = Buy THEN BuyGrid ELSE SellGrid
    ELSE IF p = Buy THEN BuyMenu ELSE SellMenu

(* Of others: a wider mandate under which the dear order passed, and a      *)
(* narrower one that refused the good one.                                  *)
Known(p, solution, status, failures, verdict) ==
    [params |-> BuildPolicyBundle(p, Credential, Expiry), solution |-> solution,
     status |-> status, failures |-> failures, verdict |-> verdict,
     proved |-> verdict = "success"]

MCForeign ==
    [i \in {11, 12} |->
       IF i = 11 THEN Known([Buy EXCEPT !.bps = 300], DearBuy, "success", {}, "success")
       ELSE Known([Buy EXCEPT !.bps = 1], GoodBuy, "failure", {"slippage"}, "failure")]
==============================================================================
