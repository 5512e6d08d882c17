---------------------------- MODULE LocalScreening ----------------------------
(***************************************************************************)
(* The local half of Orchestrate, as a machine that screens one request    *)
(* after another: it picks the facts of a request, runs the three engines  *)
(* in the order of the code and routes the result.  The graph engine is    *)
(* any of the results ObserveLinks can give (GraphVerdict in module        *)
(* EntityGraph); the rules and the light model are those of RiskPolicy.    *)
(***************************************************************************)
EXTENDS RiskPolicy

CONSTANTS
    CBPacks,     \* cross-border packs that can be loaded
    StockPacks,  \* stock packs that can be loaded
    Amounts,     \* amounts and notionals, in percent of the pack's limit
    Sizes,       \* numbers of name tokens, lengths of symbols
    Texts,       \* lengths of free texts
    MatchSets,   \* sets of match scores the list search can return
    DeepEnabled  \* a deep runtime is configured and the caller wants it

ASSUME LocalAssumption ==
    /\ Amounts \subseteq Int
    /\ Sizes \subseteq Nat
    /\ Texts \subseteq Nat
    /\ MatchSets \subseteq SUBSET Score
    /\ DeepEnabled \in BOOLEAN

(* Scores and weights of a pack. *)
ASSUME PackAssumption ==
    \A p \in CBPacks \cup StockPacks :
        /\ {p.fuzzyMin, p.skipAIBelow, p.autoReject} \subseteq Score \ {0}
        /\ {p.bias, p.lightReview, p.lightReject} \subseteq Int
        /\ {p.wAmount, p.wHighRisk, p.wBlocked, p.wTokens, p.wText, p.wGraph} \subseteq Nat

(* The weights of policies/cross_border.json and of DefaultLightWeights:   *)
(* a blocked country lifts the light score over the reject bound if none   *)
(* of the other terms is negative.                                         *)
ASSUME EmbargoWeights ==
    \A p \in CBPacks : p.bias + p.wBlocked >= p.lightReject

VARIABLES
    request,   \* the facts of the request just screened, tagged with its domain
    outcome    \* what the engines, the arbiter and the routing made of it

vars == <<request, outcome>>

None == [domain |-> "none"]

(* The three results of ObserveLinks. *)
GraphResults ==
    {[dec |-> "APPROVE", score |-> 5], [dec |-> "REVIEW", score |-> 45],
     [dec |-> "REJECT", score |-> 85]}

Outcome(rule, graph, light, bucket, need) ==
    LET arb == Arbitrate({rule.dec, graph.dec, light})
    IN [rule |-> rule, graph |-> graph.dec, light |-> light, arb |-> arb,
        bucket |-> bucket, deep |-> UseDeep(DeepEnabled, rule, arb, need)]

Init ==
    /\ request = None
    /\ outcome = None

ScreenCB(p, t, search, graph) ==
    LET bucket == BucketCB(t)
        rule == RunRuleEngine(p, t, bucket # "fast", search)
        light == LightCB(p, t, graph.score)
        arb == Arbitrate({rule.dec, graph.dec, light})
    IN /\ request' = [domain |-> "cross_border", pack |-> p, txn |-> t, search |-> search]
       /\ outcome' = Outcome(rule, graph, light, bucket, NeedDeepCB(bucket, rule, arb))

(* news and discipline are the lengths of the two free texts of the order. *)
ScreenStock(p, o, symbolLen, news, discipline, graph) ==
    LET bucket == BucketStock(o)
        rule == RunStockRules(o)
        light == LightStock(p, o, symbolLen, news + discipline, graph.score)
        arb == Arbitrate({rule.dec, graph.dec, light})
    IN /\ request' = [domain |-> "stock", pack |-> p, order |-> o]
       /\ outcome' = Outcome(rule, graph, light, bucket, NeedDeepStock(bucket, rule, arb))

(* The answer leaves; the next request starts from nothing. *)
Answered ==
    /\ request # None
    /\ request' = None
    /\ outcome' = None

ScreenSomeCB ==
    /\ request = None
    /\ \E white, black, blocked, highRisk, over, ok \in BOOLEAN,
          amount \in Amounts, tokens \in Sizes, purpose \in Texts,
          matches \in MatchSets, graph \in GraphResults, p \in CBPacks :
            ScreenCB(p, [white |-> white, black |-> black, blocked |-> blocked,
                      highRisk |-> highRisk, amount |-> amount, tokens |-> tokens,
                      purpose |-> purpose, overVelocity |-> over],
                     [ok |-> ok, matches |-> IF ok THEN matches ELSE {}], graph)

ScreenSomeStock ==
    /\ request = None
    /\ \E banned, earnings, over, trusted, watch \in BOOLEAN,
          notional \in Amounts, symbolLen \in Sizes, news, discipline \in Texts,
          graph \in GraphResults, p \in StockPacks :
            ScreenStock(p, [banned |-> banned, earnings |-> earnings, notional |-> notional,
                         overVelocity |-> over, trusted |-> trusted, watch |-> watch,
                         longNews |-> news > 80, discipline |-> discipline > 0],
                        symbolLen, news, discipline, graph)

Next == ScreenSomeCB \/ ScreenSomeStock \/ Answered

Spec == Init /\ [][Next]_vars

-----------------------------------------------------------------------------
IsCB == request.domain = "cross_border"
IsStock == request.domain = "stock"

(* A cross-border transaction the local engines approve is whitelisted, or *)
(* its party was searched on the list, nothing above the pack's skip bound *)
(* was found and its country is not high risk.  In particular the fast     *)
(* bucket, which skips the search, never approves on its own               *)
(* (engines.go:84-125, cb_rules.go:140-253).                               *)
ApprovalIsCleared ==
    IsCB /\ outcome.arb = "APPROVE" =>
        \/ request.txn.white
        \/ /\ outcome.bucket # "fast"
           /\ request.search.ok
           /\ \A s \in request.search.matches :
                s >= request.pack.fuzzyMin => s < request.pack.skipAIBelow
           /\ ~request.txn.highRisk

(* A payment into a blocked country is rejected even for a whitelisted     *)
(* party, which the rule engine approves before it looks at the country:   *)
(* the light model's weight of a blocked country is what stops it          *)
(* (cb_rules.go:52-60, preanalyze.go:136-157, engines.go:146).  A negative *)
(* amount, which nothing refuses, lowers the light score without limit     *)
(* (types.go:58-79, preanalyze.go:37-42): only a whitelisted party with    *)
(* such an amount can get past the embargo.                                *)
EmbargoSurvivesWhitelist ==
    IsCB /\ request.txn.blocked =>
        outcome.arb = "REJECT" \/ (request.txn.white /\ request.txn.amount < 0)

(* The deep runtime is used for the gray zone and only for it              *)
(* (README.md:34): the rules reached no verdict and no engine rejected.    *)
(* So whitelisted and hard-blocked requests never get there, and the       *)
(* bucket tests of the two NeedDeep methods never decide anything.         *)
GrayZoneGoesDeep ==
    request # None =>
        outcome.deep = ( /\ DeepEnabled
                         /\ outcome.rule.dec = "REVIEW"
                         /\ outcome.graph # "REJECT"
                         /\ outcome.light # "REJECT" )

(* An engine result with a verdict ends the rules early and one without    *)
(* does not, on every path of RunRuleEngine and RunRules: the shape of a   *)
(* rule result that the module Orchestrator relies on.                     *)
EarlyExitIffDecided ==
    request # None => outcome.rule.early = (outcome.rule.dec # "REVIEW")

(* A stock order is left to review by the rules exactly when its symbol is *)
(* watched or its news are long: the two score bands at the end of         *)
(* StockRuleDecision (stock_rules.go:97-103) never send one there.         *)
StockReviewCauses ==
    IsStock /\ outcome.rule.dec = "REVIEW" <=>
        /\ IsStock
        /\ request.order.watch \/ request.order.longNews
        /\ ~StockLocalRules(request.order).hardBlock

(* stock_rules.go:12 says the local rules have the meaning of the graph of *)
(* stock_subgraph.go: both would then lead to the same decision.           *)
SubgraphAgrees ==
    IsStock =>
        StockRuleDecision(StockSubgraph(request.order), request.order.trusted)
          = StockRuleDecision(StockLocalRules(request.order), request.order.trusted)
=============================================================================
