-------------------------- MODULE EducationalPlanning --------------------------
(***************************************************************************)
(* The educational planner (src/advisor/educational-planning.js): a market *)
(* snapshot, the portfolio plan built from it, its editing, and the one    *)
(* draft a plan may hand over.  All of it is pure.                         *)
(*                                                                         *)
(* A product is a pair <<base asset, quote asset>>; an issue is its code;  *)
(* amounts and prices are integers and 0 is one that is not positive;      *)
(* times are positive and 0 is one that cannot be read.                    *)
(***************************************************************************)
EXTENDS Integers, FiniteSets, Sequences

CONSTANTS
  Whole,           \* basis points in all (10 000)
  MaxAllocations,
  MaxScenarios,
  MaxInvalidated,  \* drafts an edited plan remembers as invalid
  MaxClockSkew,    \* how far ahead of the evaluation a fact may be
  Catalog          \* asset -> time its educational source was reviewed

ASSUME PlanningAssumption ==
  /\ {Whole, MaxAllocations, MaxScenarios, MaxInvalidated} \subseteq Nat \ {0}
  /\ MaxClockSkew \in Nat
  /\ \A asset \in DOMAIN Catalog : Catalog[asset] \in Int

If(holds, code) == IF holds THEN {code} ELSE {}

At(s) == {s[i] : i \in DOMAIN s}
Repeats(s) == Cardinality(At(s)) < Len(s)

SumOf(s) ==
  LET total[n \in 0..Len(s)] == IF n = 0 THEN 0 ELSE total[n - 1] + s[n]
  IN total[Len(s)]

\* signedRatio: the quotient is cut off, towards zero.  Decimals are left out.
SignedRatio(n, d) == IF n < 0 THEN 0 - ((0 - n) \div d) ELSE n \div d

----------------------------------------------------------------------------
(* Snapshots.  A request names its source, the products asked for and the  *)
(* facts, in the order they were read.                                     *)

Skewed(observed, evaluated) == evaluated - observed < 0 - MaxClockSkew

\* staleFact
Stale(observed, evaluated, maxAge) ==
  \/ observed = 0 \/ evaluated = 0 \/ maxAge = 0
  \/ evaluated - observed > maxAge
  \/ Skewed(observed, evaluated)

Trusted(request, fact) == request.source = "view_only" => fact.branded

WellFormed(fact) ==
  /\ fact.product = <<fact.base, fact.quote>>
  /\ fact.observed # 0 /\ fact.bid > 0 /\ fact.bid < fact.ask
  /\ fact.spot

\* The facts a snapshot keeps: the first usable one of every product.
Usable(request, i) == Trusted(request, request.facts[i]) /\ WellFormed(request.facts[i])
Kept(request) ==
  {i \in DOMAIN request.facts :
     /\ Usable(request, i)
     /\ \A k \in 1..(i - 1) : ~(Usable(request, k)
                                /\ request.facts[k].product = request.facts[i].product)}

Available(request, fact) == IF request.source = "view_only" THEN fact.branded ELSE fact.available

\* What is wrong with the request itself.
RequestIssues(request) ==
  If(request.evaluated = 0, "SNAPSHOT_CLOCK_INVALID")
    \cup If(request.source \notin {"fixture", "view_only"}, "MARKET_SOURCE_INVALID")
    \cup If(request.marketAge = 0 \/ request.educationAge = 0, "FRESHNESS_WINDOW_INVALID")
    \cup If(request.products = <<>> \/ Repeats(request.products), "REQUESTED_PRODUCTS_INVALID")

\* What is wrong with fact i.
FactIssues(request, i) ==
  LET fact == request.facts[i] IN
  IF ~Trusted(request, fact) THEN {"COINBASE_OBSERVATION_UNTRUSTED"}
  ELSE IF ~WellFormed(fact) THEN {"MARKET_FACT_MALFORMED"}
  ELSE IF i \notin Kept(request) THEN {"MARKET_FACT_DUPLICATE"}
  ELSE If(fact.product \notin At(request.products), "MARKET_FACT_UNREQUESTED")
         \cup If(Stale(fact.observed, request.evaluated, request.marketAge),
                 IF Skewed(fact.observed, request.evaluated)
                 THEN "MARKET_CLOCK_MISMATCH" ELSE "MARKET_FACT_STALE")
         \cup If(~Available(request, fact), "PRODUCT_UNAVAILABLE")

MarketIssues(request) ==
  If(request.facts = <<>>, "MARKET_FACTS_MISSING")
    \cup UNION {FactIssues(request, i) : i \in DOMAIN request.facts}
    \cup If(\E p \in At(request.products) : \A i \in Kept(request) : request.facts[i].product # p,
            "SELECTED_MARKET_FACT_MISSING")

Assets(request) == {p[1] : p \in At(request.products)}
Sourced(request) == Assets(request) \cap DOMAIN Catalog

EducationIssues(request) ==
  If(Assets(request) # Sourced(request), "EDUCATIONAL_SOURCE_MISSING")
    \cup If(\E a \in Sourced(request) : Stale(Catalog[a], request.evaluated, request.educationAge),
            "EDUCATIONAL_SOURCE_STALE")

Earliest(times) == IF times = {} THEN 0 ELSE CHOOSE t \in times : \A u \in times : t <= u

\* Fault: only the educational sources say when a snapshot expires.
FaultExpiry(request) == Earliest({Catalog[a] + request.educationAge : a \in Sourced(request)})

Expiry(request) ==
  Earliest({request.facts[i].observed + request.marketAge : i \in Kept(request)}
             \cup {Catalog[a] + request.educationAge : a \in Sourced(request)})

\* createEducationalMarketSnapshot
Snapshot(request) ==
  LET issues == RequestIssues(request) \cup MarketIssues(request) \cup EducationIssues(request)
  IN [status |-> IF issues = {} THEN "SNAPSHOT_AVAILABLE_FOR_EDUCATION" ELSE "REVIEW",
      issues |-> issues, source |-> request.source, evaluated |-> request.evaluated,
      expires |-> Expiry(request), sources |-> Sourced(request),
      facts |-> {[product |-> request.facts[i].product, observed |-> request.facts[i].observed,
                  bid |-> request.facts[i].bid,
                  available |-> Available(request, request.facts[i])] : i \in Kept(request)}]

----------------------------------------------------------------------------
(* Plans.                                                                  *)

RowValid(row) == row.weight \in 1..Whole

Clashes(row, other) == row.asset = other.asset \/ row.product = other.product

\* normalizeAllocations: the rows taken over.
WithRow(taken, row) ==
  IF RowValid(row) /\ \A other \in At(taken) : ~Clashes(row, other)
  THEN Append(taken, row) ELSE taken

Taken(rows) ==
  LET taken[n \in 0..Len(rows)] ==
        IF n = 0 THEN <<>> ELSE WithRow(taken[n - 1], rows[n])
  IN IF Len(rows) > MaxAllocations THEN <<>> ELSE taken[Len(rows)]

Weights(rows) == [i \in DOMAIN rows |-> rows[i].weight]

\* Fault: the weights may leave a part of the amount out.
FaultAllocationIssues(rows) ==
  IF Len(rows) \notin 1..MaxAllocations THEN {"ALLOCATION_COUNT_INVALID"}
  ELSE If(\E row \in At(rows) : ~RowValid(row), "ALLOCATION_INVALID")
         \cup If(Len(SelectSeq(rows, RowValid)) > Len(Taken(rows)), "ALLOCATION_DUPLICATE")

\* normalizeAllocations: what is wrong with the rows.
AllocationIssues(rows) ==
  IF Len(rows) \notin 1..MaxAllocations THEN {"ALLOCATION_COUNT_INVALID"}
  ELSE If(\E row \in At(rows) : ~RowValid(row), "ALLOCATION_INVALID")
         \cup If(Len(SelectSeq(rows, RowValid)) > Len(Taken(rows)), "ALLOCATION_DUPLICATE")
         \cup If(SumOf(Weights(Taken(rows))) # Whole, "ALLOCATION_TOTAL_INVALID")

\* normalizeScenarios.  A scenario has a name and its changes, one record for
\* every asset; `named` are the scenarios before it.
ScenarioNamed(scenario, named, assets) ==
  /\ scenario.name # ""
  /\ \A i \in DOMAIN named : named[i].name # scenario.name
  /\ Len(scenario.changes) = Cardinality(assets)

ChangesValid(scenario, assets) ==
  /\ \A change \in At(scenario.changes) :
       change.asset \in assets /\ change.change \in -Whole..Whole
  /\ ~Repeats([i \in DOMAIN scenario.changes |-> scenario.changes[i].asset])

ScenarioTaken(scenarios, i, assets) ==
  /\ ScenarioNamed(scenarios[i],
       SelectSeq(SubSeq(scenarios, 1, i - 1), LAMBDA s : Len(s.changes) = Cardinality(assets)),
       assets)
  /\ ChangesValid(scenarios[i], assets)

AssetsOf(rows) == {row.asset : row \in At(rows)}

ScenarioIssues(scenarios, rows) ==
  IF Len(scenarios) > MaxScenarios THEN {"SCENARIO_COUNT_INVALID"}
  ELSE If(\E i \in DOMAIN scenarios : ~ScenarioTaken(scenarios, i, AssetsOf(rows)),
          "SCENARIO_INVALID")

\* What the scenarios taken over do to the whole, in basis points, by name.
WeightOf(rows, asset) == (CHOOSE row \in At(rows) : row.asset = asset).weight
WeightedChange(scenario, rows) ==
  SignedRatio(SumOf([i \in DOMAIN scenario.changes |->
                       WeightOf(rows, scenario.changes[i].asset) * scenario.changes[i].change]),
              Whole)
Outlook(scenarios, rows) ==
  {<<scenarios[i].name, WeightedChange(scenarios[i], rows)>> :
     i \in {k \in DOMAIN scenarios : ScenarioTaken(scenarios, k, AssetsOf(rows))}}

\* What is wrong with the data: the snapshot is not usable, has expired, or
\* does not know a product or an asset of the plan.
DataIssues(snapshot, edited, rows, asset) ==
  (IF snapshot.status # "SNAPSHOT_AVAILABLE_FOR_EDUCATION" THEN snapshot.issues ELSE {})
    \cup If(snapshot.expires # 0 /\ edited > snapshot.expires, "SNAPSHOT_STALE")
    \cup If(\E row \in At(rows) : \A fact \in snapshot.facts :
              ~(fact.product = row.product /\ fact.product = <<row.asset, asset>> /\ fact.available),
            "SELECTED_PRODUCT_UNVERIFIABLE")
    \cup If(\E row \in At(rows) : row.asset \notin snapshot.sources, "SELECTED_EDUCATION_MISSING")

InputIssues(input) ==
  If(input.amount <= 0, "PLANNING_AMOUNT_INVALID")
    \cup AllocationIssues(input.rows)
    \cup (IF input.acknowledged THEN ScenarioIssues(input.scenarios, Taken(input.rows))
          ELSE {"SCENARIO_ACKNOWLEDGEMENT_REQUIRED"})

\* One leg per row, its amount cut off to what can be paid.
Legs(input) ==
  IF input.amount <= 0 \/ AllocationIssues(input.rows) # {} THEN <<>>
  ELSE LET rows == Taken(input.rows)
       IN [i \in DOMAIN rows |->
             [asset |-> rows[i].asset, product |-> rows[i].product,
              amount |-> (input.amount * rows[i].weight) \div Whole]]

\* The Herfindahl concentration of the weights.
Concentration(rows) ==
  SignedRatio(SumOf([i \in DOMAIN rows |-> rows[i].weight * rows[i].weight]), Whole)

\* buildPortfolioPlan.  `handoff` is the draft the revision handed over, 0
\* while there is none, `invalidated` those of the revisions before.
Plan(input, snapshot, revision, created, edited) ==
  LET wrong == InputIssues(input)
      unverified == DataIssues(snapshot, edited, Taken(input.rows), input.asset)
  IN [revision |-> revision, created |-> created, edited |-> edited,
      status |-> IF wrong # {} THEN "BLOCK"
                 ELSE IF unverified # {} THEN "REVIEW" ELSE "PLAN_VALID_FOR_EDITING",
      issues |-> wrong \cup unverified, snapshot |-> snapshot, amount |-> input.amount,
      legs |-> Legs(input), concentration |-> Concentration(Taken(input.rows)),
      outlook |-> IF input.acknowledged THEN Outlook(input.scenarios, Taken(input.rows)) ELSE {},
      handoff |-> 0, invalidated |-> <<>>]

Recent(s, n) == IF Len(s) > n THEN SubSeq(s, Len(s) - n + 1, Len(s)) ELSE s

\* Fault: an edit forgets that the revision before it had a draft.
FaultEdited(plan, input, snapshot, edited) ==
  [Plan(input, snapshot, plan.revision + 1, plan.created, edited)
     EXCEPT !.invalidated = Recent(plan.invalidated, MaxInvalidated)]

\* editEducationalPortfolioPlan
Edited(plan, input, snapshot, edited) ==
  [Plan(input, snapshot, plan.revision + 1, plan.created, edited)
     EXCEPT !.invalidated =
       IF plan.handoff = 0 THEN Recent(plan.invalidated, MaxInvalidated)
       ELSE Recent(Append(Recent(plan.invalidated, MaxInvalidated), plan.handoff), MaxInvalidated)]

----------------------------------------------------------------------------
(* Drafts.                                                                 *)

\* planSnapshotExpired
SnapshotExpired(plan, at) == plan.snapshot.expires = 0 \/ at >= plan.snapshot.expires

\* The size of a sale is the leg's amount over the best bid.  Its 18 decimals
\* are left out: it is not positive when the amount is not.
Sizeable(leg, bid) == bid > 0 /\ leg.amount > 0

\* selectSingleTradeMandateDraft for the one leg the session passes.
Selected(plan, leg, side, at) ==
  IF plan.status # "PLAN_VALID_FOR_EDITING"
  THEN IF plan.status = "BLOCK" THEN "BLOCK" ELSE "REVIEW"
  ELSE IF plan.handoff # 0 THEN "BLOCK"
  ELSE IF SnapshotExpired(plan, at) THEN "REVIEW"
  ELSE IF side \notin {"BUY", "SELL"} \/ leg \notin At(plan.legs) THEN "BLOCK"
  ELSE IF side = "SELL" /\ \A fact \in plan.snapshot.facts :
                            fact.product = leg.product => ~Sizeable(leg, fact.bid)
       THEN "REVIEW"
  ELSE "DRAFT_CREATED_NOT_AUTHORIZED"

Draft(id, plan, leg, side, at) ==
  [id |-> id, revision |-> plan.revision, leg |-> leg, side |-> side, made |-> at]

\* reviewSingleTradeMandateDraft
Reviewed(plan, draft, at) ==
  IF draft.revision = plan.revision /\ plan.handoff = draft.id /\ ~SnapshotExpired(plan, at)
  THEN "DRAFT_CURRENT_NOT_AUTHORIZED" ELSE "REVIEW"

=============================================================================
