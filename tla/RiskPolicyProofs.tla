-------------------------- MODULE RiskPolicyProofs --------------------------
(* Proofs about the local engines, for every pack that satisfies the       *)
(* assumptions of LocalScreening and every request.                        *)
EXTENDS LocalScreening, TLAPS, WellFoundedInduction

(* What the light model adds to the bias is never negative.                *)
LEMMA ScaledIsNat ==
  ASSUME NEW w \in Nat, NEW a \in Nat
  PROVE  (w * a) \div 100 \in Nat
  <1>1. w * a \in Nat
    OBVIOUS
  <1>2. QED
    BY <1>1

(* A cross-border step fills in the two variables from the facts it picks. *)
LEMMA ScreenSomeCBStep ==
  ASSUME ScreenSomeCB
  PROVE  \E p \in CBPacks, t \in Txns, search \in Searches, graph \in GraphResults :
            ScreenCB(p, t, search, graph)
  <1>1. PICK white, black, blocked, highRisk, over, ok \in BOOLEAN,
             amount \in Amounts, tokens \in Sizes, purpose \in Texts,
             matches \in MatchSets, graph \in GraphResults, p \in CBPacks :
            ScreenCB(p, [white |-> white, black |-> black, blocked |-> blocked,
                      highRisk |-> highRisk, amount |-> amount, tokens |-> tokens,
                      purpose |-> purpose, overVelocity |-> over],
                     [ok |-> ok, matches |-> IF ok THEN matches ELSE {}], graph)
    BY DEF ScreenSomeCB
  <1> DEFINE t == [white |-> white, black |-> black, blocked |-> blocked,
                   highRisk |-> highRisk, amount |-> amount, tokens |-> tokens,
                   purpose |-> purpose, overVelocity |-> over]
             search == [ok |-> ok, matches |-> IF ok THEN matches ELSE {}]
  <1>2. t \in Txns
    BY LocalAssumption DEF Txns
  <1>3. search \in Searches
    BY LocalAssumption DEF Searches
  <1>4. QED
    BY <1>1, <1>2, <1>3

(* The rule engine approves only whitelisted parties and parties it        *)
(* searched and cleared.                                                   *)
LEMMA RuleApprovalIsCleared ==
  ASSUME NEW p \in CBPacks, NEW t \in Txns, NEW search \in Searches,
         NEW withSanctions \in BOOLEAN,
         RunRuleEngine(p, t, withSanctions, search).dec = "APPROVE"
  PROVE  \/ t.white
         \/ /\ withSanctions
            /\ search.ok
            /\ SkipAI(p, search.matches)
            /\ ~t.highRisk
  <1> SUFFICES ASSUME ~t.white
               PROVE  withSanctions /\ search.ok /\ SkipAI(p, search.matches) /\ ~t.highRisk
    OBVIOUS
  <1> DEFINE gate == FastFilter(t)
  <1>1. ~gate.pass /\ gate.highRisk = t.highRisk
    BY DEF FastFilter, Txns
  <1>2. ~gate.hardBlock
    BY <1>1 DEF RunRuleEngine, Engine, RuleDecision
  <1> HIDE DEF gate
  <1>3. withSanctions /\ search.ok /\ SkipAI(p, search.matches)
    BY <1>1, <1>2 DEF RunRuleEngine, Engine, RuleDecision, gate
  <1>4. RuleDecision(gate, FALSE) = "APPROVE"
    BY <1>1, <1>2, <1>3 DEF RunRuleEngine, Engine, SkipAI, gate
  <1>5. QED
    BY <1>1, <1>2, <1>3, <1>4 DEF RuleDecision

(* The light engine rejects a blocked country whatever the other features  *)
(* are, if the amount is not negative.                                     *)
LEMMA BlockedCountryLightReject ==
  ASSUME NEW p \in CBPacks, NEW t \in Txns, t.blocked, t.amount >= 0,
         NEW g \in GraphResults
  PROVE  LightCB(p, t, g.score) = "REJECT"
  <1> DEFINE a == IF t.amount > 100 THEN 100 ELSE t.amount
  <1>1. /\ p.bias \in Int /\ p.lightReject \in Int
        /\ p.wAmount \in Nat /\ p.wHighRisk \in Nat /\ p.wBlocked \in Nat
        /\ p.wTokens \in Nat /\ p.wText \in Nat /\ p.wGraph \in Nat
        /\ p.bias + p.wBlocked >= p.lightReject
    BY PackAssumption, EmbargoWeights
  <1>2. a \in Nat /\ t.tokens \in Nat /\ t.purpose \in Nat /\ g.score \in Nat
    BY DEF Txns, GraphResults
  <1>3. (p.wAmount * a) \div 100 \in Nat /\ (p.wGraph * g.score) \div 100 \in Nat
    BY <1>1, <1>2, ScaledIsNat
  <1>4. p.wTokens * t.tokens \in Nat /\ p.wText * t.purpose \in Nat
    BY <1>1, <1>2
  <1> DEFINE h == IF t.highRisk THEN p.wHighRisk ELSE 0
             z == p.bias + (p.wAmount * a) \div 100 + h + p.wBlocked
                    + p.wTokens * t.tokens + p.wText * t.purpose
                    + (p.wGraph * g.score) \div 100
  <1>5. h \in Nat
    BY <1>1
  <1>6. z \in Int /\ z >= p.lightReject
    <2> HIDE DEF a, h
    <2> QED BY <1>1, <1>3, <1>4, <1>5
  <1>7. LightZ(p, t.amount, t.highRisk, t.blocked, t.tokens, t.purpose, g.score) = z
    BY DEF LightZ
  <1>8. QED
    BY <1>6, <1>7 DEF LightCB, LightDecision

(* The rules reject a blocked country unless the party is whitelisted.     *)
LEMMA BlockedCountryRuleReject ==
  ASSUME NEW p, NEW t \in Txns, t.blocked, ~t.white, NEW withSanctions, NEW search
  PROVE  RunRuleEngine(p, t, withSanctions, search).dec = "REJECT"
  <1>1. ~FastFilter(t).pass /\ FastFilter(t).hardBlock
    BY DEF FastFilter
  <1>2. QED
    BY <1>1 DEF RunRuleEngine, RuleDecision, Engine

-----------------------------------------------------------------------------
(* No cross-border transaction is approved locally without a whitelist     *)
(* entry or a completed list search that found nothing above the bound,    *)
(* whatever the pack.                                                      *)
THEOREM LocalApprovalIsCleared == Spec => []ApprovalIsCleared
  <1>1. Init => ApprovalIsCleared
    BY DEF Init, None, ApprovalIsCleared, IsCB
  <1>2. ApprovalIsCleared /\ [Next]_vars => ApprovalIsCleared'
    <2> SUFFICES ASSUME ApprovalIsCleared, [Next]_vars
                 PROVE  ApprovalIsCleared'
      OBVIOUS
    <2>1. CASE ScreenSomeCB
      <3>1. PICK p \in CBPacks, t \in Txns, search \in Searches, graph \in GraphResults :
                ScreenCB(p, t, search, graph)
        BY <2>1, ScreenSomeCBStep
      <3> DEFINE bucket == BucketCB(t)
                 rule == RunRuleEngine(p, t, bucket # "fast", search)
      <3>2. /\ request' = [domain |-> "cross_border", pack |-> p, txn |-> t,
                           search |-> search]
            /\ outcome'.bucket = bucket
            /\ outcome'.arb = Arbitrate({rule.dec, graph.dec, LightCB(p, t, graph.score)})
        BY <3>1 DEF ScreenCB, Outcome
      <3>3. SUFFICES ASSUME outcome'.arb = "APPROVE"
                     PROVE  \/ t.white
                            \/ /\ bucket # "fast"
                               /\ search.ok
                               /\ SkipAI(p, search.matches)
                               /\ ~t.highRisk
        BY <3>2 DEF ApprovalIsCleared, SkipAI, Candidates
      <3>4. rule.dec \in Decisions
        BY DEF RunRuleEngine, Engine, RuleDecision, Decisions
      <3>5. rule.dec = "APPROVE"
        BY <3>2, <3>3, <3>4 DEF Arbitrate, Decisions
      <3>6. QED
        BY <3>5, RuleApprovalIsCleared
    <2>2. CASE ScreenSomeStock
      BY <2>2 DEF ScreenSomeStock, ScreenStock, ApprovalIsCleared, IsCB
    <2>3. CASE Answered
      BY <2>3 DEF Answered, None, ApprovalIsCleared, IsCB
    <2>4. CASE UNCHANGED vars
      BY <2>4 DEF vars, ApprovalIsCleared, IsCB
    <2>5. QED
      BY <2>1, <2>2, <2>3, <2>4 DEF Next
  <1>3. QED
    BY <1>1, <1>2, PTL DEF Spec

(* A payment into a blocked country is rejected under every pack whose     *)
(* weights satisfy EmbargoWeights, whatever its amount if the party is not *)
(* whitelisted, and for every amount that is not negative if it is.        *)
THEOREM EmbargoHolds == Spec => []EmbargoSurvivesWhitelist
  <1>1. Init => EmbargoSurvivesWhitelist
    BY DEF Init, None, EmbargoSurvivesWhitelist, IsCB
  <1>2. EmbargoSurvivesWhitelist /\ [Next]_vars => EmbargoSurvivesWhitelist'
    <2> SUFFICES ASSUME EmbargoSurvivesWhitelist, [Next]_vars
                 PROVE  EmbargoSurvivesWhitelist'
      OBVIOUS
    <2>1. CASE ScreenSomeCB
      <3>1. PICK p \in CBPacks, t \in Txns, search \in Searches, graph \in GraphResults :
                ScreenCB(p, t, search, graph)
        BY <2>1, ScreenSomeCBStep
      <3> DEFINE rule == RunRuleEngine(p, t, BucketCB(t) # "fast", search)
      <3>2. /\ request'.txn = t
            /\ outcome'.arb = Arbitrate({rule.dec, graph.dec, LightCB(p, t, graph.score)})
        BY <3>1 DEF ScreenCB, Outcome
      <3>3. ASSUME t.blocked, ~t.white
            PROVE  outcome'.arb = "REJECT"
        BY <3>2, <3>3, BlockedCountryRuleReject DEF Arbitrate
      <3>4. ASSUME t.blocked, t.amount >= 0
            PROVE  outcome'.arb = "REJECT"
        BY <3>2, <3>4, BlockedCountryLightReject DEF Arbitrate
      <3>5. t.amount \in Int
        BY DEF Txns
      <3>6. QED
        BY <3>2, <3>3, <3>4, <3>5 DEF EmbargoSurvivesWhitelist
    <2>2. CASE ScreenSomeStock
      BY <2>2 DEF ScreenSomeStock, ScreenStock, EmbargoSurvivesWhitelist, IsCB
    <2>3. CASE Answered
      BY <2>3 DEF Answered, None, EmbargoSurvivesWhitelist, IsCB
    <2>4. CASE UNCHANGED vars
      BY <2>4 DEF vars, EmbargoSurvivesWhitelist, IsCB
    <2>5. QED
      BY <2>1, <2>2, <2>3, <2>4 DEF Next
  <1>3. QED
    BY <1>1, <1>2, PTL DEF Spec

-----------------------------------------------------------------------------
(* A stock step fills in the two variables from the facts it picks.        *)
LEMMA ScreenSomeStockStep ==
  ASSUME ScreenSomeStock
  PROVE  \E p \in StockPacks, o \in Orders, symbolLen \in Sizes,
            news, discipline \in Texts, graph \in GraphResults :
            ScreenStock(p, o, symbolLen, news, discipline, graph)
  <1>1. PICK banned, earnings, over, trusted, watch \in BOOLEAN,
             notional \in Amounts, symbolLen \in Sizes, news, discipline \in Texts,
             graph \in GraphResults, p \in StockPacks :
            ScreenStock(p, [banned |-> banned, earnings |-> earnings, notional |-> notional,
                         overVelocity |-> over, trusted |-> trusted, watch |-> watch,
                         longNews |-> news > 80, discipline |-> discipline > 0],
                        symbolLen, news, discipline, graph)
    BY DEF ScreenSomeStock
  <1> DEFINE o == [banned |-> banned, earnings |-> earnings, notional |-> notional,
                   overVelocity |-> over, trusted |-> trusted, watch |-> watch,
                   longNews |-> news > 80, discipline |-> discipline > 0]
  <1>2. o \in Orders
    BY LocalAssumption DEF Orders
  <1>3. QED
    BY <1>1, <1>2

(* The two rule engines end early with a verdict, and only then.           *)
LEMMA RuleEngineShape ==
  ASSUME NEW p, NEW t, NEW withSanctions, NEW search
  PROVE  /\ RunRuleEngine(p, t, withSanctions, search).dec \in Decisions
         /\ RunRuleEngine(p, t, withSanctions, search).early
              = (RunRuleEngine(p, t, withSanctions, search).dec # "REVIEW")
  <1> DEFINE gate == FastFilter(t)
             d == RuleDecision(gate, FALSE)
  <1>1. d \in Decisions
    BY DEF RuleDecision, Decisions
  <1>2. gate.pass \/ gate.hardBlock => d # "REVIEW"
    BY DEF RuleDecision
  <1>3. ~(gate.pass \/ gate.hardBlock) => d # "REJECT"
    BY DEF RuleDecision
  <1> HIDE DEF gate
  <1>4. QED
    BY <1>1, <1>2, <1>3 DEF RunRuleEngine, Engine, Decisions, gate

LEMMA StockRulesShape ==
  ASSUME NEW o
  PROVE  /\ RunStockRules(o).dec \in Decisions
         /\ RunStockRules(o).early = (RunStockRules(o).dec # "REVIEW")
  BY DEF RunStockRules, StockRuleDecision, Engine, Decisions

(* The routing of either domain, when the rules have the shape above: the  *)
(* tests of the bucket and of the search never decide anything.            *)
LEMMA RoutingIsGrayZone ==
  ASSUME NEW rule, rule.dec \in Decisions, rule.early = (rule.dec # "REVIEW"),
         NEW bucket, NEW graph \in Decisions, NEW light \in Decisions,
         NEW arb, arb = Arbitrate({rule.dec, graph, light}),
         NEW need, need \in {NeedDeepCB(bucket, rule, arb), NeedDeepStock(bucket, rule, arb)}
  PROVE  UseDeep(DeepEnabled, rule, arb, need)
            = (DeepEnabled /\ rule.dec = "REVIEW" /\ graph # "REJECT" /\ light # "REJECT")
  <1>1. CASE rule.dec # "REVIEW"
    BY <1>1 DEF UseDeep
  <1>2. CASE rule.dec = "REVIEW" /\ (graph = "REJECT" \/ light = "REJECT")
    <2>1. arb = "REJECT"
      BY <1>2 DEF Arbitrate
    <2>2. QED
      BY <1>2, <2>1 DEF UseDeep
  <1>3. CASE rule.dec = "REVIEW" /\ graph # "REJECT" /\ light # "REJECT"
    <2>1. arb = "REVIEW"
      BY <1>3 DEF Arbitrate
    <2>2. need = TRUE
      BY <1>3, <2>1 DEF NeedDeepCB, NeedDeepStock
    <2>3. QED
      BY <1>3, <2>1, <2>2, LocalAssumption DEF UseDeep
  <1>4. QED
    BY <1>1, <1>2, <1>3

LEMMA LightTyped ==
  ASSUME NEW p, NEW z
  PROVE  LightDecision(p, z) \in Decisions
  BY DEF LightDecision, Decisions

(* What one screening leaves in the variable outcome, in either domain.    *)
RoutedRight(f) ==
    /\ f.rule.early = (f.rule.dec # "REVIEW")
    /\ f.deep = ( /\ DeepEnabled
                  /\ f.rule.dec = "REVIEW"
                  /\ f.graph # "REJECT"
                  /\ f.light # "REJECT" )

LEMMA OutcomeRouted ==
  ASSUME NEW rule, rule.dec \in Decisions, rule.early = (rule.dec # "REVIEW"),
         NEW bucket, NEW graph \in GraphResults, NEW light \in Decisions,
         NEW need,
         need \in {NeedDeepCB(bucket, rule, Arbitrate({rule.dec, graph.dec, light})),
                   NeedDeepStock(bucket, rule, Arbitrate({rule.dec, graph.dec, light}))}
  PROVE  RoutedRight(Outcome(rule, graph, light, bucket, need))
  <1>1. graph.dec \in Decisions
    BY DEF GraphResults, Decisions
  <1>2. UseDeep(DeepEnabled, rule, Arbitrate({rule.dec, graph.dec, light}), need)
            = (DeepEnabled /\ rule.dec = "REVIEW" /\ graph.dec # "REJECT" /\ light # "REJECT")
    BY <1>1, RoutingIsGrayZone
  <1>3. QED
    BY <1>2 DEF RoutedRight, Outcome

LEMMA ScreeningRouted ==
  ASSUME ScreenSomeCB \/ ScreenSomeStock
  PROVE  RoutedRight(outcome')
  <1>1. CASE ScreenSomeCB
    <2>1. PICK p \in CBPacks, t \in Txns, search \in Searches, graph \in GraphResults :
              ScreenCB(p, t, search, graph)
      BY <1>1, ScreenSomeCBStep
    <2> DEFINE rule == RunRuleEngine(p, t, BucketCB(t) # "fast", search)
               light == LightCB(p, t, graph.score)
    <2>2. rule.dec \in Decisions /\ rule.early = (rule.dec # "REVIEW")
      BY RuleEngineShape
    <2>3. light \in Decisions
      BY LightTyped DEF LightCB
    <2>4. outcome' = Outcome(rule, graph, light, BucketCB(t),
                NeedDeepCB(BucketCB(t), rule, Arbitrate({rule.dec, graph.dec, light})))
      BY <2>1 DEF ScreenCB
    <2> HIDE DEF rule, light
    <2>5. QED
      BY <2>2, <2>3, <2>4, OutcomeRouted
  <1>2. CASE ScreenSomeStock
    <2>1. PICK p \in StockPacks, o \in Orders, symbolLen \in Sizes,
               news, discipline \in Texts, graph \in GraphResults :
              ScreenStock(p, o, symbolLen, news, discipline, graph)
      BY <1>2, ScreenSomeStockStep
    <2> DEFINE rule == RunStockRules(o)
               light == LightStock(p, o, symbolLen, news + discipline, graph.score)
    <2>2. rule.dec \in Decisions /\ rule.early = (rule.dec # "REVIEW")
      BY StockRulesShape
    <2>3. light \in Decisions
      BY LightTyped DEF LightStock
    <2>4. outcome' = Outcome(rule, graph, light, BucketStock(o),
                NeedDeepStock(BucketStock(o), rule, Arbitrate({rule.dec, graph.dec, light})))
      BY <2>1 DEF ScreenStock
    <2> HIDE DEF rule, light
    <2>5. QED
      BY <2>2, <2>3, <2>4, OutcomeRouted
  <1>3. QED
    BY <1>1, <1>2

(* Every answered request was routed by what the rules and the two other   *)
(* engines decided.                                                        *)
Routed == request # None => RoutedRight(outcome)

LEMMA AlwaysRouted == Spec => []Routed
  <1>1. Init => Routed
    BY DEF Init, Routed
  <1>2. Routed /\ [Next]_vars => Routed'
    <2>1. ScreenSomeCB \/ ScreenSomeStock => Routed'
      BY ScreeningRouted DEF Routed, RoutedRight
    <2>2. Answered => Routed'
      BY DEF Answered, Routed
    <2>3. Routed /\ UNCHANGED vars => Routed'
      BY DEF vars, Routed, RoutedRight
    <2>4. QED
      BY <2>1, <2>2, <2>3 DEF Next
  <1>3. QED
    BY <1>1, <1>2, PTL DEF Spec

(* Under every pack, the deep runtime gets the requests the rules left     *)
(* open and no other engine rejected, and no others (orchestrator.go,      *)
(* preanalyze.go: NeedDeep).                                               *)
THEOREM GrayZoneAlwaysDeep == Spec => []GrayZoneGoesDeep
  <1>1. Routed => GrayZoneGoesDeep
    BY DEF Routed, RoutedRight, GrayZoneGoesDeep
  <1>2. QED
    BY <1>1, AlwaysRouted, PTL

(* Every path of the two rule engines sets the early-exit flag exactly     *)
(* when it reached a verdict.                                              *)
THEOREM EarlyExitIsVerdict == Spec => []EarlyExitIffDecided
  <1>1. Routed => EarlyExitIffDecided
    BY DEF Routed, RoutedRight, EarlyExitIffDecided
  <1>2. QED
    BY <1>1, AlwaysRouted, PTL

-----------------------------------------------------------------------------
(* The gate of an order, rule by rule (stock_rules.go:23-56).              *)
LEMMA StockBlocked ==
  ASSUME NEW o \in Orders
  PROVE  StockLocalRules(o).hardBlock
            = (o.banned \/ o.earnings \/ o.notional > 100 \/ o.overVelocity)
  <1>1. (o.notional > 100 \/ o.notional <= 100) /\ ~(o.notional > 100 /\ o.notional <= 100)
    BY DEF Orders
  <1>2. \A s, f, d : StockGate(TRUE, s, f, d).hardBlock = TRUE
    BY DEF StockGate
  <1>3. \A s, f, d : StockGate(FALSE, s, f, d).hardBlock = FALSE
    BY DEF StockGate
  <1>4. ASSUME o.banned
        PROVE  StockLocalRules(o) = StockGate(TRUE, 100, FALSE, FALSE)
    BY <1>4, Zenon DEF StockLocalRules
  <1>5. ASSUME ~o.banned, o.earnings
        PROVE  StockLocalRules(o) = StockGate(TRUE, 95, FALSE, FALSE)
    BY <1>5, Zenon DEF StockLocalRules
  <1>6. ASSUME ~o.banned, ~o.earnings, o.notional > 100
        PROVE  StockLocalRules(o) = StockGate(TRUE, 90, FALSE, FALSE)
    BY <1>1, <1>6, Zenon DEF StockLocalRules
  <1>7. ASSUME ~o.banned, ~o.earnings, ~(o.notional > 100), o.overVelocity
        PROVE  StockLocalRules(o) = StockGate(TRUE, 88, FALSE, FALSE)
    BY <1>1, <1>7, Zenon DEF StockLocalRules
  <1>8. ASSUME ~o.banned, ~o.earnings, ~(o.notional > 100), ~o.overVelocity
        PROVE  \E score : StockLocalRules(o)
                  = StockGate(FALSE, score, o.watch, o.watch \/ o.longNews)
    <2> DEFINE start == IF o.watch THEN 40 ELSE IF o.trusted THEN 5 ELSE 15
               sum == start + (IF o.watch THEN 25 ELSE 0) + (IF o.longNews THEN 25 ELSE 0)
               score == IF sum > 100 THEN 100 ELSE sum
    <2>1. StockLocalRules(o) = StockGate(FALSE, score, o.watch, o.watch \/ o.longNews)
      BY <1>1, <1>8, Zenon DEF StockLocalRules
    <2>2. QED
      BY <2>1
  <1>9. QED
    <2>1. CASE o.banned
      BY <1>2, <1>4, <2>1
    <2>2. CASE ~o.banned /\ o.earnings
      BY <1>2, <1>5, <2>2
    <2>3. CASE ~o.banned /\ ~o.earnings /\ o.notional > 100
      BY <1>2, <1>6, <2>3
    <2>4. CASE ~o.banned /\ ~o.earnings /\ ~(o.notional > 100) /\ o.overVelocity
      BY <1>2, <1>7, <2>4
    <2>5. CASE ~o.banned /\ ~o.earnings /\ ~(o.notional > 100) /\ ~o.overVelocity
      BY <1>3, <1>8, <2>5
    <2>6. QED
      BY <2>1, <2>2, <2>3, <2>4, <2>5

(* The gate of an order no rule blocks.                                    *)
LEMMA StockOpenGate ==
  ASSUME NEW o \in Orders, ~StockLocalRules(o).hardBlock
  PROVE  \E score :
            /\ StockLocalRules(o) = StockGate(FALSE, score, o.watch, o.watch \/ o.longNews)
            /\ ~o.watch /\ ~o.longNews => score \in {5, 15}
  <1> DEFINE start == IF o.watch THEN 40 ELSE IF o.trusted THEN 5 ELSE 15
             sum == start + (IF o.watch THEN 25 ELSE 0) + (IF o.longNews THEN 25 ELSE 0)
             score == IF sum > 100 THEN 100 ELSE sum
  <1>1. o.notional > 100 \/ o.notional <= 100
    BY DEF Orders
  <1>2. ~o.banned /\ ~o.earnings /\ ~(o.notional > 100) /\ ~o.overVelocity
    BY StockBlocked
  <1>3. StockLocalRules(o) = StockGate(FALSE, score, o.watch, o.watch \/ o.longNews)
    BY <1>1, <1>2, Zenon DEF StockLocalRules
  <1>4. ~o.watch /\ ~o.longNews => score \in {5, 15}
    BY SMT
  <1>5. QED
    BY <1>3, <1>4

LEMMA StockReviewShape ==
  ASSUME NEW o \in Orders
  PROVE  RunStockRules(o).dec = "REVIEW"
            <=> (o.watch \/ o.longNews) /\ ~StockLocalRules(o).hardBlock
  <1>1. CASE StockLocalRules(o).hardBlock
    BY <1>1 DEF RunStockRules, StockRuleDecision, Engine
  <1>2. CASE ~StockLocalRules(o).hardBlock
    <2>1. PICK score :
            /\ StockLocalRules(o) = StockGate(FALSE, score, o.watch, o.watch \/ o.longNews)
            /\ ~o.watch /\ ~o.longNews => score \in {5, 15}
      BY <1>2, StockOpenGate
    <2>2. o.watch \in BOOLEAN /\ o.longNews \in BOOLEAN
      BY DEF Orders
    <2>3. QED
      BY <2>1, <2>2 DEF RunStockRules, StockRuleDecision, StockGate, Engine
  <1>3. QED
    BY <1>1, <1>2

(* A stock order the rules leave open is watched or carries long news: the *)
(* score bands alone leave none open (stock_rules.go:76-104).              *)
THEOREM StockReviewHasCause == Spec => []StockReviewCauses
  <1>1. Init => StockReviewCauses
    BY DEF Init, None, StockReviewCauses, IsStock
  <1>2. StockReviewCauses /\ [Next]_vars => StockReviewCauses'
    <2> SUFFICES ASSUME StockReviewCauses, [Next]_vars
                 PROVE  StockReviewCauses'
      OBVIOUS
    <2>1. CASE ScreenSomeCB
      BY <2>1 DEF ScreenSomeCB, ScreenCB, StockReviewCauses, IsStock
    <2>2. CASE ScreenSomeStock
      <3>1. PICK p \in StockPacks, o \in Orders, symbolLen \in Sizes,
                 news, discipline \in Texts, graph \in GraphResults :
                ScreenStock(p, o, symbolLen, news, discipline, graph)
        BY <2>2, ScreenSomeStockStep
      <3>2. request'.order = o /\ outcome'.rule = RunStockRules(o)
        BY <3>1 DEF ScreenStock, Outcome
      <3>3. QED
        BY <3>1, <3>2, StockReviewShape DEF StockReviewCauses, IsStock
    <2>3. CASE Answered
      BY <2>3 DEF Answered, None, StockReviewCauses, IsStock
    <2>4. CASE UNCHANGED vars
      BY <2>4 DEF vars, StockReviewCauses, IsStock
    <2>5. QED
      BY <2>1, <2>2, <2>3, <2>4 DEF Next
  <1>3. QED
    BY <1>1, <1>2, PTL DEF Spec

-----------------------------------------------------------------------------
(* A set of naturals has a least element, a set of scores a best one: what *)
(* makes BestMatch, a CHOOSE, the loop of ApplyMatchRouting.               *)
LEMMA NatHasMin ==
  ASSUME NEW U \in SUBSET Nat, U # {}
  PROVE  \E n \in U : \A m \in U : n <= m
  <1>1. IsWellFoundedOn(OpToRel(<, Nat), Nat)
    BY NatLessThanWellFounded
  <1>2. PICK n \in U : \A m \in U : ~(<<m, n>> \in OpToRel(<, Nat))
    BY <1>1, WFMin
  <1>3. ASSUME NEW m \in U
        PROVE  ~(m < n)
    BY <1>2 DEF OpToRel
  <1>4. QED
    BY <1>3

LEMMA ScoresHaveBest ==
  ASSUME NEW T \in SUBSET Score, T # {}
  PROVE  \E s \in T : \A o \in T : o <= s
  <1> DEFINE U == {100 - s : s \in T}
  <1>1. U # {}
    OBVIOUS
  <1>2. U \in SUBSET Nat
    <2>1. ASSUME NEW s \in T
          PROVE  100 - s \in Nat
      BY DEF Score
    <2>2. QED
      BY <2>1
  <1>3. PICK n \in U : \A m \in U : n <= m
    BY <1>1, <1>2, NatHasMin
  <1>4. PICK s \in T : n = 100 - s
    BY <1>3
  <1>5. ASSUME NEW o \in T
        PROVE  o <= s
    <2>1. n <= 100 - o
      BY <1>3
    <2>2. QED
      BY <1>4, <2>1 DEF Score
  <1>6. QED
    BY <1>5

LEMMA BestMatchIsBest ==
  ASSUME NEW p, NEW found \in SUBSET Score
  PROVE  /\ BestMatch(p, found) \in Score
         /\ Candidates(p, found) = {} => BestMatch(p, found) = 0
         /\ Candidates(p, found) # {} => BestMatch(p, found) \in Candidates(p, found)
         /\ \A o \in Candidates(p, found) : o <= BestMatch(p, found)
  <1> DEFINE T == Candidates(p, found)
  <1>1. T \in SUBSET Score
    BY DEF Candidates
  <1>2. CASE T = {}
    BY <1>2 DEF BestMatch, Score
  <1>3. CASE T # {}
    <2>1. \E s \in T : \A o \in T : o <= s
      <3> HIDE DEF T
      <3> QED BY <1>1, <1>3, ScoresHaveBest
    <2>2. BestMatch(p, found) = CHOOSE s \in T : \A o \in T : o <= s
      BY <1>3 DEF BestMatch
    <2>3. BestMatch(p, found) \in T /\ \A o \in T : o <= BestMatch(p, found)
      <3> HIDE DEF T
      <3> QED BY <2>1, <2>2
    <2>4. QED
      BY <1>1, <1>3, <2>3
  <1>4. QED
    BY <1>2, <1>3

(* The routing on the matches, stated in RiskPolicy over the candidates,   *)
(* is the one ApplyMatchRouting computes from the best score alone: reject *)
(* at autoReject, look closer from skipAIBelow on when there is a          *)
(* candidate, clear the rest (cb_rules.go:142-172).                        *)
THEOREM MatchRoutingIsByBest ==
  ASSUME NEW p \in CBPacks, NEW found \in SUBSET Score
  PROVE  /\ AutoReject(p, found) <=> BestMatch(p, found) >= p.autoReject
         /\ SkipAI(p, found) <=>
                /\ ~(BestMatch(p, found) >= p.autoReject)
                /\ ~(BestMatch(p, found) >= p.skipAIBelow /\ Candidates(p, found) # {})
  <1> DEFINE T == Candidates(p, found)
             best == BestMatch(p, found)
  <1>1. p.autoReject \in Score \ {0} /\ p.skipAIBelow \in Score \ {0}
    BY PackAssumption
  <1>2. /\ best \in Score
        /\ T = {} => best = 0
        /\ T # {} => best \in T
        /\ \A o \in T : o <= best
    BY BestMatchIsBest
  <1>3. T \in SUBSET Score
    BY DEF Candidates
  <1>4. AutoReject(p, found) <=> \E s \in T : s >= p.autoReject
    BY DEF AutoReject
  <1>5. SkipAI(p, found) <=> ~AutoReject(p, found) /\ \A s \in T : s < p.skipAIBelow
    BY DEF SkipAI
  <1> HIDE DEF T, best
  <1>6. \A b \in Score \ {0} : (\E s \in T : s >= b) <=> best >= b
    <2> SUFFICES ASSUME NEW b \in Score \ {0}
                 PROVE  (\E s \in T : s >= b) <=> best >= b
      OBVIOUS
    <2>1. ASSUME NEW s \in T, s >= b
          PROVE  best >= b
      <3>1. s <= best /\ s \in Score
        BY <1>2, <1>3, <2>1
      <3>2. QED
        BY <1>2, <2>1, <3>1 DEF Score
    <2>2. ASSUME best >= b
          PROVE  \E s \in T : s >= b
      <3>1. T # {}
        BY <1>2, <2>2 DEF Score
      <3>2. QED
        BY <1>2, <2>2, <3>1
    <2>3. QED
      BY <2>1, <2>2
  <1>7. (\A s \in T : s < p.skipAIBelow) <=> ~(\E s \in T : s >= p.skipAIBelow)
    BY <1>1, <1>3 DEF Score
  <1>8. best >= p.skipAIBelow => T # {}
    BY <1>1, <1>2 DEF Score
  <1>9. QED
    BY <1>1, <1>4, <1>5, <1>6, <1>7, <1>8 DEF T, best

-----------------------------------------------------------------------------
(* The gate of a transaction, rule by rule (cb_rules.go:52-115).           *)
LEMMA FastFilterCases ==
  ASSUME NEW t \in Txns
  PROVE  LET gate == FastFilter(t)
         IN /\ t.white => gate.pass /\ ~gate.hardBlock /\ gate.score = 5
            /\ ~t.white => ~gate.pass
            /\ ~t.white /\ (t.black \/ t.blocked \/ t.amount > 100 \/ t.overVelocity)
                 => gate.hardBlock /\ gate.score \in {90, 95, 100}
            /\ ~(t.white \/ t.black \/ t.blocked \/ t.amount > 100 \/ t.overVelocity)
                 => ~gate.hardBlock /\ gate.score = (IF t.highRisk THEN 40 ELSE 0)
            /\ gate.highRisk = t.highRisk
  <1> DEFINE base == IF t.highRisk THEN 40 ELSE 0
             Gate(pass, block, score) ==
               [pass |-> pass, hardBlock |-> block, highRisk |-> t.highRisk, score |-> score]
  <1>1. (t.amount > 100 \/ t.amount <= 100) /\ ~(t.amount > 100 /\ t.amount <= 100)
    BY DEF Txns
  <1>2. ASSUME t.white
        PROVE  FastFilter(t) = Gate(TRUE, FALSE, 5)
    BY <1>2, Zenon DEF FastFilter
  <1>3. ASSUME ~t.white, t.black \/ t.blocked
        PROVE  FastFilter(t) = Gate(FALSE, TRUE, 100)
    BY <1>3, Zenon DEF FastFilter
  <1>4. ASSUME ~t.white, ~(t.black \/ t.blocked), t.amount > 100
        PROVE  FastFilter(t) = Gate(FALSE, TRUE, 95)
    BY <1>1, <1>4, Zenon DEF FastFilter
  <1>5. ASSUME ~t.white, ~(t.black \/ t.blocked), ~(t.amount > 100), t.overVelocity
        PROVE  FastFilter(t) = Gate(FALSE, TRUE, 90)
    BY <1>1, <1>5, Zenon DEF FastFilter
  <1>6. ASSUME ~t.white, ~(t.black \/ t.blocked), ~(t.amount > 100), ~t.overVelocity
        PROVE  FastFilter(t) = Gate(FALSE, FALSE, base)
    BY <1>1, <1>6, Zenon DEF FastFilter
  <1>7. QED
    <2>1. CASE t.white
      BY <1>2, <2>1
    <2>2. CASE ~t.white /\ (t.black \/ t.blocked)
      BY <1>3, <2>2
    <2>3. CASE ~t.white /\ ~(t.black \/ t.blocked) /\ t.amount > 100
      BY <1>4, <2>3
    <2>4. CASE ~t.white /\ ~(t.black \/ t.blocked) /\ ~(t.amount > 100) /\ t.overVelocity
      BY <1>5, <2>4
    <2>5. CASE ~t.white /\ ~(t.black \/ t.blocked) /\ ~(t.amount > 100) /\ ~t.overVelocity
      BY <1>6, <2>5
    <2>6. QED
      BY <2>1, <2>2, <2>3, <2>4, <2>5

(* On every path of RunRuleEngine the decision is the band of the score.   *)
LEMMA RuleScoreIsItsBand ==
  ASSUME NEW p \in CBPacks, NEW t \in Txns, NEW withSanctions \in BOOLEAN,
         NEW search \in Searches
  PROVE  RunRuleEngine(p, t, withSanctions, search).dec
            = DecisionFromScore(RunRuleEngine(p, t, withSanctions, search).score)
  <1> DEFINE gate == FastFilter(t)
             best == BestMatch(p, search.matches)
             d == RuleDecision(gate, FALSE)
             rule == RunRuleEngine(p, t, withSanctions, search)
  <1>1. best \in 0 .. 100
    BY BestMatchIsBest DEF Searches, Score
  <1>2. gate.pass => d = "APPROVE" /\ gate.score = 5
    BY FastFilterCases DEF RuleDecision
  <1>3. ~gate.pass /\ gate.hardBlock => d = "REJECT" /\ gate.score \in {90, 95, 100}
    BY FastFilterCases DEF RuleDecision
  <1>4. ~gate.pass /\ ~gate.hardBlock =>
            \/ d = "REVIEW" /\ gate.score = 40
            \/ d = "APPROVE" /\ gate.score = 0
    BY FastFilterCases DEF RuleDecision
  <1> DEFINE byMatch == Engine("REJECT", IF best < 65 THEN 95 ELSE best, TRUE, FALSE, TRUE)
             cleared == Engine(d, MaxScore(gate.score, 8), d = "APPROVE", FALSE, TRUE)
             deeper == Engine("REVIEW", MaxScore(gate.score, 35), FALSE, FALSE, FALSE)
  <1>5. rule = IF gate.pass \/ gate.hardBlock
                 THEN Engine(d, gate.score, TRUE, FALSE, FALSE)
               ELSE IF withSanctions /\ ~search.ok
                 THEN Engine("REVIEW", 50, FALSE, TRUE, FALSE)
               ELSE IF withSanctions /\ AutoReject(p, search.matches) THEN byMatch
               ELSE IF withSanctions /\ SkipAI(p, search.matches) THEN cleared
               ELSE deeper
    BY DEF RunRuleEngine
  <1> SUFFICES rule.dec = DecisionFromScore(rule.score)
    OBVIOUS
  <1> HIDE DEF gate, best, d, rule
  <1>6. CASE gate.pass \/ gate.hardBlock
    BY <1>2, <1>3, <1>5, <1>6 DEF Engine, DecisionFromScore
  <1>7. CASE ~(gate.pass \/ gate.hardBlock)
    <2>1. byMatch.dec = DecisionFromScore(byMatch.score)
      BY <1>1 DEF Engine, DecisionFromScore
    <2>2. cleared.dec = DecisionFromScore(cleared.score)
      BY <1>4, <1>7 DEF Engine, DecisionFromScore, MaxScore
    <2>3. deeper.dec = DecisionFromScore(deeper.score)
      BY <1>4, <1>7 DEF Engine, DecisionFromScore, MaxScore
    <2>4. rule \in {Engine("REVIEW", 50, FALSE, TRUE, FALSE), byMatch, cleared, deeper}
      BY <1>5, <1>7
    <2> HIDE DEF byMatch, cleared, deeper
    <2>5. QED
      BY <2>1, <2>2, <2>3, <2>4 DEF Engine, DecisionFromScore
  <1>8. QED
    BY <1>6, <1>7

-----------------------------------------------------------------------------
(* The two variables always hold a whole screening: the facts of a request *)
(* and what the engines, the arbiter and the routing make of them.         *)
RuleCB(p, t, search) == RunRuleEngine(p, t, BucketCB(t) # "fast", search)

ArbCB(p, t, search, graph) ==
    Arbitrate({RuleCB(p, t, search).dec, graph.dec, LightCB(p, t, graph.score)})

ScreenedCB ==
    IsCB => \E p \in CBPacks, t \in Txns, search \in Searches, graph \in GraphResults :
        /\ request = [domain |-> "cross_border", pack |-> p, txn |-> t, search |-> search]
        /\ outcome.rule = RuleCB(p, t, search)
        /\ outcome.graph = graph.dec
        /\ outcome.light = LightCB(p, t, graph.score)
        /\ outcome.arb = ArbCB(p, t, search, graph)
        /\ outcome.bucket = BucketCB(t)

ScreenedStock ==
    IsStock => \E p \in StockPacks, o \in Orders :
        request = [domain |-> "stock", pack |-> p, order |-> o]

LEMMA AlwaysScreened == Spec => [](ScreenedCB /\ ScreenedStock)
  <1>1. Init => ScreenedCB /\ ScreenedStock
    BY DEF Init, None, ScreenedCB, ScreenedStock, IsCB, IsStock
  <1>2. ScreenedCB /\ ScreenedStock /\ [Next]_vars => (ScreenedCB /\ ScreenedStock)'
    <2> SUFFICES ASSUME ScreenedCB, ScreenedStock, [Next]_vars
                 PROVE  ScreenedCB' /\ ScreenedStock'
      OBVIOUS
    <2>1. CASE ScreenSomeCB
      <3>1. PICK p \in CBPacks, t \in Txns, search \in Searches, graph \in GraphResults :
                ScreenCB(p, t, search, graph)
        BY <2>1, ScreenSomeCBStep
      <3>2. /\ request' = [domain |-> "cross_border", pack |-> p, txn |-> t,
                           search |-> search]
            /\ outcome'.rule = RuleCB(p, t, search)
            /\ outcome'.graph = graph.dec
            /\ outcome'.light = LightCB(p, t, graph.score)
            /\ outcome'.arb = ArbCB(p, t, search, graph)
            /\ outcome'.bucket = BucketCB(t)
        BY <3>1 DEF ScreenCB, Outcome, RuleCB, ArbCB
      <3>3. QED
        BY <3>2 DEF ScreenedCB, ScreenedStock, IsCB, IsStock
    <2>2. CASE ScreenSomeStock
      <3>1. PICK p \in StockPacks, o \in Orders, symbolLen \in Sizes,
                 news, discipline \in Texts, graph \in GraphResults :
                ScreenStock(p, o, symbolLen, news, discipline, graph)
        BY <2>2, ScreenSomeStockStep
      <3>2. request' = [domain |-> "stock", pack |-> p, order |-> o]
        BY <3>1 DEF ScreenStock
      <3>3. QED
        BY <3>2 DEF ScreenedCB, ScreenedStock, IsCB, IsStock
    <2>3. CASE Answered
      BY <2>3 DEF Answered, None, ScreenedCB, ScreenedStock, IsCB, IsStock
    <2>4. CASE UNCHANGED vars
      BY <2>4 DEF vars, ScreenedCB, ScreenedStock, IsCB, IsStock
    <2>5. QED
      BY <2>1, <2>2, <2>3, <2>4 DEF Next
  <1>3. QED
    BY <1>1, <1>2, PTL DEF Spec

(* The score the rule engine reports never contradicts its decision: on    *)
(* every path, the search error and the auto reject of a low match score   *)
(* included, the decision is the band of the score                         *)
(* (engines.go:84-125, cb_rules.go:193-252, policy.go).                    *)
RuleScoreExplainsDecision ==
    IsCB => outcome.rule.dec = DecisionFromScore(outcome.rule.score)

(* For every pack and payment, the score of the rule result explains its   *)
(* decision (cb_rules.go:193-252).                                         *)
THEOREM RuleScoresExplain == Spec => []RuleScoreExplainsDecision
  <1>1. ScreenedCB => RuleScoreExplainsDecision
    BY RuleScoreIsItsBand DEF ScreenedCB, RuleScoreExplainsDecision, RuleCB
  <1>2. QED
    BY <1>1, AlwaysScreened, PTL

(* The hard rules are final: a transaction that is not whitelisted and     *)
(* meets the blacklist, an embargo, the amount limit or a velocity limit   *)
(* is rejected whatever the other engines vote, and never reaches the deep *)
(* runtime (cb_rules.go:60-115, engines.go:179, preanalyze.go: NeedDeep).  *)
HardBlocksReject ==
    /\ IsCB
    /\ ~request.txn.white
    /\ \/ request.txn.black
       \/ request.txn.blocked
       \/ request.txn.amount > 100
       \/ request.txn.overVelocity
    => outcome.arb = "REJECT" /\ ~outcome.deep

(* For every pack, what the hard rules forbid is rejected whatever the     *)
(* other engines say (cb_rules.go:60-115, orchestrator.go:43-51).          *)
THEOREM HardBlocksAreFinal == Spec => []HardBlocksReject
  <1>1. ScreenedCB /\ Routed => HardBlocksReject
    <2> SUFFICES ASSUME ScreenedCB, Routed, IsCB, ~request.txn.white,
                        request.txn.black \/ request.txn.blocked
                          \/ request.txn.amount > 100 \/ request.txn.overVelocity
                 PROVE  outcome.arb = "REJECT" /\ ~outcome.deep
      BY DEF HardBlocksReject
    <2>1. PICK p \in CBPacks, t \in Txns, search \in Searches, graph \in GraphResults :
            /\ request.txn = t
            /\ outcome.rule = RuleCB(p, t, search)
            /\ outcome.arb = ArbCB(p, t, search, graph)
      BY DEF ScreenedCB
    <2>2. ~FastFilter(t).pass /\ FastFilter(t).hardBlock
      BY <2>1, FastFilterCases
    <2>3. RuleCB(p, t, search).dec = "REJECT"
      BY <2>2 DEF RuleCB, RunRuleEngine, RuleDecision, Engine
    <2>4. outcome.arb = "REJECT"
      BY <2>1, <2>3 DEF ArbCB, Arbitrate
    <2>5. request # None
      BY DEF IsCB, None
    <2>6. ~outcome.deep
      BY <2>1, <2>3, <2>5 DEF Routed, RoutedRight
    <2>7. QED
      BY <2>4, <2>6
  <1>2. QED
    BY <1>1, AlwaysScreened, AlwaysRouted, PTL

-----------------------------------------------------------------------------
(* Products and their hundredths grow with the feature.                    *)
LEMMA ScaledGrows ==
  ASSUME NEW w \in Nat, NEW a \in Int, NEW b \in Int, a <= b
  PROVE  /\ w * a \in Int /\ w * b \in Int /\ w * a <= w * b
         /\ (w * a) \div 100 \in Int
         /\ (w * b) \div 100 \in Int
         /\ (w * a) \div 100 <= (w * b) \div 100
  <1>1. w * a \in Int /\ w * b \in Int
    OBVIOUS
  <1>2. w * a <= w * b
    <2>1. PICK d \in Nat : b = a + d
      <3>1. b - a \in Nat /\ b = a + (b - a)
        OBVIOUS
      <3>2. QED
        BY <3>1
    <2>2. w * b = w * a + w * d /\ w * d \in Nat
      BY <2>1
    <2>3. QED
      BY <1>1, <2>2
  <1>3. \A x, y \in Int : x <= y =>
            x \div 100 \in Int /\ y \div 100 \in Int /\ x \div 100 <= y \div 100
    OBVIOUS
  <1> DEFINE x == w * a
             y == w * b
  <1>4. x \in Int /\ y \in Int /\ x <= y
    BY <1>1, <1>2
  <1> HIDE DEF x, y
  <1>5. x \div 100 \in Int /\ y \div 100 \in Int /\ x \div 100 <= y \div 100
    BY <1>3, <1>4
  <1>6. QED
    BY <1>1, <1>2, <1>5 DEF x, y

(* The light score is an integer that grows with every feature.            *)
LEMMA LightZGrows ==
  ASSUME NEW p \in CBPacks, NEW t \in Txns, NEW o \in Txns,
         NEW g \in Nat, NEW j \in Nat, g <= j,
         t.amount <= o.amount, t.tokens <= o.tokens, t.purpose <= o.purpose,
         t.highRisk => o.highRisk, t.blocked => o.blocked
  PROVE  LET y == LightZ(p, t.amount, t.highRisk, t.blocked, t.tokens, t.purpose, g)
             z == LightZ(p, o.amount, o.highRisk, o.blocked, o.tokens, o.purpose, j)
         IN y \in Int /\ z \in Int /\ y <= z
  <1> DEFINE a == t.amount
             b == o.amount
             h == t.highRisk
             i == o.highRisk
             e == t.blocked
             f == o.blocked
             k == t.tokens
             l == o.tokens
             u == t.purpose
             v == o.purpose
  <1>0. /\ a \in Int /\ k \in Nat /\ u \in Nat /\ b \in Int /\ l \in Nat /\ v \in Nat
        /\ h \in BOOLEAN /\ e \in BOOLEAN /\ i \in BOOLEAN /\ f \in BOOLEAN
        /\ a <= b /\ k <= l /\ u <= v /\ (h => i) /\ (e => f)
    BY DEF Txns
  <1> DEFINE Cap(n) == IF n > 100 THEN 100 ELSE n
             A(n) == (p.wAmount * Cap(n)) \div 100
             H(y) == IF y THEN p.wHighRisk ELSE 0
             E(y) == IF y THEN p.wBlocked ELSE 0
             K(n) == p.wTokens * n
             U(n) == p.wText * n
             G(n) == (p.wGraph * n) \div 100
  <1>1. /\ p.bias \in Int
        /\ p.wAmount \in Nat /\ p.wHighRisk \in Nat /\ p.wBlocked \in Nat
        /\ p.wTokens \in Nat /\ p.wText \in Nat /\ p.wGraph \in Nat
    BY PackAssumption
  <1> HIDE DEF a, b, h, i, e, f, k, l, u, v
  <1>2. Cap(a) \in Int /\ Cap(b) \in Int /\ Cap(a) <= Cap(b)
    BY <1>0
  <1>3. A(a) \in Int /\ A(b) \in Int /\ A(a) <= A(b)
    <2> HIDE DEF Cap
    <2> QED BY <1>1, <1>2, ScaledGrows
  <1>4. H(h) \in Nat /\ H(i) \in Nat /\ H(h) <= H(i)
    BY <1>0, <1>1
  <1>5. E(e) \in Nat /\ E(f) \in Nat /\ E(e) <= E(f)
    BY <1>0, <1>1
  <1>6. K(k) \in Int /\ K(l) \in Int /\ K(k) <= K(l)
    BY <1>0, <1>1, ScaledGrows
  <1>7. U(u) \in Int /\ U(v) \in Int /\ U(u) <= U(v)
    BY <1>0, <1>1, ScaledGrows
  <1>8. G(g) \in Int /\ G(j) \in Int /\ G(g) <= G(j)
    BY <1>0, <1>1, ScaledGrows
  <1>9. /\ LightZ(p, a, h, e, k, u, g) = p.bias + A(a) + H(h) + E(e) + K(k) + U(u) + G(g)
        /\ LightZ(p, b, i, f, l, v, j) = p.bias + A(b) + H(i) + E(f) + K(l) + U(v) + G(j)
    BY DEF LightZ
  <1> HIDE DEF A, H, E, K, U, G
  <1> DEFINE y == LightZ(p, a, h, e, k, u, g)
             z == LightZ(p, b, i, f, l, v, j)
  <1>10. y \in Int /\ z \in Int /\ y <= z
    BY <1>1, <1>3, <1>4, <1>5, <1>6, <1>7, <1>8, <1>9
  <1>11. QED
    BY <1>10 DEF a, b, h, i, e, f, k, l, u, v

(* The light model is monotone: a transaction with no less of every        *)
(* feature and a worse graph score is never judged milder, whatever the    *)
(* (non-negative) weights and the two thresholds                           *)
(* (preanalyze.go:136-157, engines.go:139-154).                            *)
THEOREM LightNeverMilder ==
  ASSUME NEW p \in CBPacks, NEW t \in Txns, NEW u \in Txns,
         NEW g \in Nat, NEW j \in Nat, g <= j,
         t.amount <= u.amount, t.tokens <= u.tokens, t.purpose <= u.purpose,
         t.highRisk => u.highRisk, t.blocked => u.blocked
  PROVE  /\ LightCB(p, t, g) = "REJECT" => LightCB(p, u, j) = "REJECT"
         /\ LightCB(p, u, j) = "APPROVE" => LightCB(p, t, g) = "APPROVE"
  <1> DEFINE y == LightZ(p, t.amount, t.highRisk, t.blocked, t.tokens, t.purpose, g)
             z == LightZ(p, u.amount, u.highRisk, u.blocked, u.tokens, u.purpose, j)
  <1>1. /\ t.amount \in Int /\ t.tokens \in Nat /\ t.purpose \in Nat
        /\ u.amount \in Int /\ u.tokens \in Nat /\ u.purpose \in Nat
        /\ t.highRisk \in BOOLEAN /\ t.blocked \in BOOLEAN
        /\ u.highRisk \in BOOLEAN /\ u.blocked \in BOOLEAN
    BY DEF Txns
  <1>2. y \in Int /\ z \in Int /\ y <= z
    BY LightZGrows
  <1>3. p.lightReject \in Int /\ p.lightReview \in Int
    BY PackAssumption
  <1>4. LightCB(p, t, g) = LightDecision(p, y) /\ LightCB(p, u, j) = LightDecision(p, z)
    BY DEF LightCB
  <1> HIDE DEF y, z
  <1>5. QED
    BY <1>2, <1>3, <1>4 DEF LightDecision

-----------------------------------------------------------------------------
(* How far the alignment the comment claims does hold: the subgraph and    *)
(* the local rules lead to the same decision exactly on the orders the two *)
(* bans catch and on those within the notional and velocity limits, which  *)
(* the subgraph lacks (stock_rules.go:12, :37-56, stock_subgraph.go).      *)
SubgraphLacksTheLimits ==
    IsStock =>
        LET o == request.order
        IN StockRuleDecision(StockSubgraph(o), o.trusted)
             = StockRuleDecision(StockLocalRules(o), o.trusted)
           <=> o.banned \/ o.earnings \/ ~(o.notional > 100 \/ o.overVelocity)

(* For every order, the two rule paths agree exactly where the limits do   *)
(* not matter (stock_rules.go:37-56, stock_subgraph.go:40-82).             *)
THEOREM SubgraphScope == Spec => []SubgraphLacksTheLimits
  <1>1. ASSUME NEW o \in Orders
        PROVE  StockRuleDecision(StockSubgraph(o), o.trusted)
                 = StockRuleDecision(StockLocalRules(o), o.trusted)
               <=> o.banned \/ o.earnings \/ ~(o.notional > 100 \/ o.overVelocity)
    <2>1. CASE o.banned \/ o.earnings
      <3>1. StockSubgraph(o).hardBlock
        BY <2>1 DEF StockSubgraph, StockGate
      <3>2. StockLocalRules(o).hardBlock
        BY <2>1, StockBlocked
      <3>3. QED
        BY <2>1, <3>1, <3>2 DEF StockRuleDecision
    <2>2. CASE ~(o.banned \/ o.earnings)
      <3>1. ~StockSubgraph(o).hardBlock
        BY <2>2 DEF StockSubgraph, StockGate
      <3>2. StockRuleDecision(StockSubgraph(o), o.trusted)
              = IF o.watch \/ o.longNews THEN <<"REVIEW", FALSE>> ELSE <<"APPROVE", TRUE>>
        BY <2>2 DEF StockSubgraph, StockGate, StockRuleDecision, Orders
      <3>3. CASE o.notional > 100 \/ o.overVelocity
        <4>1. StockLocalRules(o).hardBlock
          BY <3>3, StockBlocked
        <4>2. StockRuleDecision(StockLocalRules(o), o.trusted) = <<"REJECT", TRUE>>
          BY <4>1 DEF StockRuleDecision
        <4>3. StockRuleDecision(StockSubgraph(o), o.trusted)
                # StockRuleDecision(StockLocalRules(o), o.trusted)
          <5>1. <<"REVIEW", FALSE>> # <<"REJECT", TRUE>> /\ <<"APPROVE", TRUE>> # <<"REJECT", TRUE>>
            OBVIOUS
          <5>2. QED
            BY <3>2, <4>2, <5>1
        <4>4. QED
          BY <2>2, <3>3, <4>3
      <3>4. CASE ~(o.notional > 100 \/ o.overVelocity)
        <4>1. ~StockLocalRules(o).hardBlock
          BY <2>2, <3>4, StockBlocked
        <4>2. PICK score :
                /\ StockLocalRules(o)
                     = StockGate(FALSE, score, o.watch, o.watch \/ o.longNews)
                /\ ~o.watch /\ ~o.longNews => score \in {5, 15}
          BY <4>1, StockOpenGate
        <4>3. StockRuleDecision(StockLocalRules(o), o.trusted)
                = IF o.watch \/ o.longNews THEN <<"REVIEW", FALSE>> ELSE <<"APPROVE", TRUE>>
          BY <4>2 DEF StockGate, StockRuleDecision, Orders
        <4>4. QED
          BY <3>2, <3>4, <4>3
      <3>5. QED
        BY <3>3, <3>4
    <2>3. QED
      BY <2>1, <2>2
  <1>2. ScreenedStock => SubgraphLacksTheLimits
    BY <1>1 DEF ScreenedStock, SubgraphLacksTheLimits
  <1>3. QED
    BY <1>2, AlwaysScreened, PTL
=============================================================================
