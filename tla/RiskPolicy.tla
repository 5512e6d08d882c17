------------------------------ MODULE RiskPolicy ------------------------------
(***************************************************************************)
(* The deterministic part of a screening: the rule, graph and light        *)
(* engines of the two domains, the arbiter and the routing to the deep     *)
(* runtime.  Everything here is a pure function of a policy pack and of    *)
(* the facts of one request.                                               *)
(*                                                                         *)
(* Scores are hundredths (0.65 is 65).  The light model compares           *)
(* sigmoid(z) with a threshold; sigmoid is increasing, so the model        *)
(* compares z with the inverse image of the threshold, both in thousandths *)
(* (lightReview and lightReject of a pack).  Whether a party, country,     *)
(* symbol or account is on a list of the pack is a fact of the request.    *)
(***************************************************************************)
EXTENDS Integers

Decisions == {"APPROVE", "REVIEW", "REJECT"}
Buckets == {"fast", "light", "deep"}
Score == 0 .. 100

MaxScore(a, b) == IF a > b THEN a ELSE b

(* tools/policy.go: the bands of a score. *)
DecisionFromScore(s) ==
    IF s >= 65 THEN "REJECT" ELSE IF s >= 35 THEN "REVIEW" ELSE "APPROVE"

LevelFromScore(s) ==
    IF s >= 65 THEN "HIGH" ELSE IF s >= 35 THEN "MEDIUM" ELSE "LOW"

-----------------------------------------------------------------------------
(* Cross-border requests.                                                  *)

(* What the code reads of a transaction: membership of the pack's lists,   *)
(* the amount in percent of MaxAmountMinorUnit (of either sign, which      *)
(* nothing checks), the size of the name and of the purpose, and whether a *)
(* velocity window is over its limit.                                      *)
Txns ==
    [white : BOOLEAN, black : BOOLEAN, blocked : BOOLEAN, highRisk : BOOLEAN,
     amount : Int, tokens : Nat, purpose : Nat, overVelocity : BOOLEAN]

(* What the sanctions search returned: an error, or match scores.          *)
Searches == [ok : BOOLEAN, matches : SUBSET Score]

(* PreAnalyzeCrossBorder: the routing bucket. *)
BucketCB(t) ==
    CASE t.white \/ t.blocked \/ t.black      -> "fast"
      [] ~(t.white \/ t.blocked \/ t.black)
         /\ (t.highRisk \/ t.amount >= 60)    -> "deep"
      [] ~(t.white \/ t.blocked \/ t.black \/ t.highRisk)
         /\ t.amount < 60
         /\ (t.amount >= 25 \/ t.tokens >= 4) -> "light"
      [] OTHER                                -> "fast"

(* The gate ApplyFastFilter leaves: the first rule that fires decides,     *)
(* a high-risk country only raises the score and lets the rest run.        *)
FastFilter(t) ==
    LET base == IF t.highRisk THEN 40 ELSE 0
        Gate(pass, block, score) ==
            [pass |-> pass, hardBlock |-> block, highRisk |-> t.highRisk, score |-> score]
    IN CASE t.white -> Gate(TRUE, FALSE, 5)
         [] ~t.white /\ (t.black \/ t.blocked) -> Gate(FALSE, TRUE, 100)
         [] ~(t.white \/ t.black \/ t.blocked) /\ t.amount > 100 -> Gate(FALSE, TRUE, 95)
         [] ~(t.white \/ t.black \/ t.blocked) /\ t.amount <= 100 /\ t.overVelocity
                -> Gate(FALSE, TRUE, 90)
         [] OTHER -> Gate(FALSE, FALSE, base)

(* RankCandidates keeps the matches the pack thinks worth looking at.      *)
Candidates(p, found) == {s \in found : s >= p.fuzzyMin}

BestMatch(p, found) ==
    IF Candidates(p, found) = {} THEN 0
    ELSE CHOOSE s \in Candidates(p, found) : \A o \in Candidates(p, found) : o <= s

(* ApplyMatchRouting: the best match reaches a bound (a positive one, see  *)
(* CBRules) exactly when some candidate does.                              *)
AutoReject(p, found) == \E s \in Candidates(p, found) : s >= p.autoReject

(* Variant: everything short of a rejection is cleared.                    *)
SkipAIUnlessReject(p, found) == ~AutoReject(p, found)

SkipAI(p, found) ==
    /\ ~AutoReject(p, found)
    /\ \A s \in Candidates(p, found) : s < p.skipAIBelow

(* Variant: the high-risk country is looked at before the hard block.      *)
RuleDecisionReviewFirst(gate, rejected) ==
    IF gate.pass THEN "APPROVE"
    ELSE IF gate.highRisk THEN "REVIEW"
    ELSE IF gate.hardBlock \/ rejected THEN "REJECT" ELSE "APPROVE"

(* ApplyRuleDecision, on a gate and on whether the search rejected.        *)
RuleDecision(gate, rejected) ==
    IF gate.pass THEN "APPROVE"
    ELSE IF gate.hardBlock \/ rejected THEN "REJECT"
    ELSE IF gate.highRisk THEN "REVIEW" ELSE "APPROVE"

Engine(decision, score, early, degraded, skip) ==
    [dec |-> decision, score |-> score, early |-> early, degraded |-> degraded,
     skipAI |-> skip]

(* RunRuleEngine: fast filter, then the list search unless the bucket is   *)
(* fast, then the routing on the best match.                               *)
RunRuleEngine(p, t, withSanctions, search) ==
    LET gate == FastFilter(t)
        best == BestMatch(p, search.matches)
        cleared == MaxScore(gate.score, 8)
    IN IF gate.pass \/ gate.hardBlock
         THEN Engine(RuleDecision(gate, FALSE), gate.score, TRUE, FALSE, FALSE)
       ELSE IF withSanctions /\ ~search.ok
         THEN Engine("REVIEW", 50, FALSE, TRUE, FALSE)
       ELSE IF withSanctions /\ AutoReject(p, search.matches)
         THEN Engine("REJECT", IF best < 65 THEN 95 ELSE best, TRUE, FALSE, TRUE)
       ELSE IF withSanctions /\ SkipAI(p, search.matches)
         THEN Engine(RuleDecision(gate, FALSE), cleared,
                     RuleDecision(gate, FALSE) = "APPROVE", FALSE, TRUE)
       ELSE Engine("REVIEW", MaxScore(gate.score, 35), FALSE, FALSE, FALSE)

-----------------------------------------------------------------------------
(* Stock orders.                                                           *)

(* Facts of an order: its symbol is banned (list or ST), the earnings      *)
(* window, the notional in percent of MaxNotional, and so on.              *)
Orders ==
    [banned : BOOLEAN, earnings : BOOLEAN, notional : Int, overVelocity : BOOLEAN,
     trusted : BOOLEAN, watch : BOOLEAN, longNews : BOOLEAN, discipline : BOOLEAN]

(* PreAnalyzeStock: the routing bucket. *)
BucketStock(o) ==
    IF o.banned \/ o.trusted THEN "fast"
    ELSE IF o.earnings \/ o.watch \/ o.notional >= 60 \/ o.longNews THEN "deep"
    ELSE IF o.notional >= 25 \/ o.discipline THEN "light" ELSE "fast"

StockGate(block, score, force, deeper) ==
    [hardBlock |-> block, score |-> score, force |-> force, deeper |-> deeper]

(* ApplyStockLocalRules. *)
StockLocalRules(o) ==
    LET start == IF o.watch THEN 40 ELSE IF o.trusted THEN 5 ELSE 15
        score == start + (IF o.watch THEN 25 ELSE 0) + (IF o.longNews THEN 25 ELSE 0)
    IN CASE o.banned -> StockGate(TRUE, 100, FALSE, FALSE)
         [] ~o.banned /\ o.earnings -> StockGate(TRUE, 95, FALSE, FALSE)
         [] ~(o.banned \/ o.earnings) /\ o.notional > 100 -> StockGate(TRUE, 90, FALSE, FALSE)
         [] ~(o.banned \/ o.earnings) /\ o.notional <= 100 /\ o.overVelocity
                -> StockGate(TRUE, 88, FALSE, FALSE)
         [] OTHER -> StockGate(FALSE, IF score > 100 THEN 100 ELSE score,
                               o.watch, o.watch \/ o.longNews)

(* BuildStockLocalSubgraph: the same gate as four graph nodes. *)
StockSubgraph(o) ==
    LET score == 15 + (IF o.watch THEN 10 ELSE 0) + (IF o.longNews THEN 25 ELSE 0)
        final == score + (IF o.watch THEN 15 ELSE 0)
    IN IF o.banned \/ o.earnings THEN StockGate(TRUE, 0, FALSE, FALSE)
       ELSE StockGate(FALSE, final, o.watch, score > 55)

(* Variant: only trusted accounts are approved.                            *)
StockRuleDecisionTrusted(gate, trusted) ==
    IF gate.hardBlock THEN <<"REJECT", TRUE>>
    ELSE IF gate.force \/ gate.deeper THEN <<"REVIEW", FALSE>>
    ELSE IF trusted /\ gate.score <= 20 THEN <<"APPROVE", TRUE>>
    ELSE <<"REVIEW", FALSE>>

(* StockRuleDecision, with its early-exit flag. *)
StockRuleDecision(gate, trusted) ==
    IF gate.hardBlock THEN <<"REJECT", TRUE>>
    ELSE IF gate.force \/ gate.deeper THEN <<"REVIEW", FALSE>>
    ELSE IF (trusted /\ gate.score <= 20) \/ gate.score < 35 THEN <<"APPROVE", TRUE>>
    ELSE <<"REVIEW", FALSE>>

(* stockProfile.RunRules. *)
RunStockRules(o) ==
    LET gate == StockLocalRules(o)
        rd == StockRuleDecision(gate, o.trusted)
    IN Engine(rd[1], gate.score, rd[2], FALSE, rd[2] /\ rd[1] = "APPROVE")

-----------------------------------------------------------------------------
(* The light engine, the arbiter and the routing.                          *)

(* Variant: without the weight of a blocked country.                       *)
LightZNoEmbargo(p, amount, highRisk, blocked, cardinality, text, graphScore) ==
    p.bias + (p.wAmount * (IF amount > 100 THEN 100 ELSE amount)) \div 100
    + (IF highRisk THEN p.wHighRisk ELSE 0)
    + p.wTokens * cardinality + p.wText * text
    + (p.wGraph * graphScore) \div 100

(* The linear score of ScoreLightML, in thousandths.  The amount is capped *)
(* at its limit but not at zero.                                           *)
LightZ(p, amount, highRisk, blocked, cardinality, text, graphScore) ==
    p.bias + (p.wAmount * (IF amount > 100 THEN 100 ELSE amount)) \div 100
    + (IF highRisk THEN p.wHighRisk ELSE 0)
    + (IF blocked THEN p.wBlocked ELSE 0)
    + p.wTokens * cardinality + p.wText * text
    + (p.wGraph * graphScore) \div 100

(* RunLightEngine: the decision on z. *)
LightDecision(p, z) ==
    IF z >= p.lightReject THEN "REJECT"
    ELSE IF z >= p.lightReview THEN "REVIEW" ELSE "APPROVE"

LightCB(p, t, graphScore) ==
    LightDecision(p, LightZ(p, t.amount, t.highRisk, t.blocked, t.tokens, t.purpose, graphScore))

LightStock(p, o, symbolLen, text, graphScore) ==
    LightDecision(p, LightZ(p, o.notional, o.earnings \/ o.watch, o.banned,
                            symbolLen, text, graphScore))

(* The decision of Arbitrate: one vote is enough to reject, one to review; *)
(* without any result the request is reviewed.                             *)
Arbitrate(decs) ==
    IF decs = {} THEN "REVIEW"
    ELSE IF "REJECT" \in decs THEN "REJECT"
    ELSE IF "REVIEW" \in decs THEN "REVIEW" ELSE "APPROVE"

(* Variant: the fast bucket never goes deep.                               *)
NeedDeepCBNotFast(bucket, rule, arb) ==
    /\ ~rule.early
    /\ arb # "REJECT"
    /\ bucket # "fast"
    /\ bucket = "deep" \/ arb = "REVIEW" \/ ~rule.skipAI

(* crossBorderProfile.NeedDeep and stockProfile.NeedDeep. *)
NeedDeepCB(bucket, rule, arb) ==
    /\ ~rule.early
    /\ arb # "REJECT"
    /\ ~(bucket = "fast" /\ arb = "APPROVE")
    /\ bucket = "deep" \/ arb = "REVIEW" \/ ~rule.skipAI

NeedDeepStock(bucket, rule, arb) ==
    /\ ~rule.early
    /\ arb # "REJECT"
    /\ ~(bucket = "fast" /\ arb = "APPROVE")
    /\ bucket = "deep" \/ arb = "REVIEW" \/ rule.dec = "REVIEW"

(* Variant: a rejected request is sent to the deep runtime as well.        *)
UseDeepDespiteReject(enabled, rule, arb, need) == enabled /\ ~rule.early /\ need

(* The routing condition of Orchestrate. *)
UseDeep(enabled, rule, arb, need) ==
    enabled /\ ~rule.early /\ arb # "REJECT" /\ need
=============================================================================
