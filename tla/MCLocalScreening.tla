-------------------------- MODULE MCLocalScreening --------------------------
(* The packs of policies/cross_border.json and policies/stock.json for     *)
(* TLC, and inputs on both sides of every threshold they set.  An amount   *)
(* of -100 percent outweighs a blocked country in the light model.         *)
EXTENDS LocalScreening

(* logit(0.40) = -0.405 and logit(0.78) = 1.266, rounded away from approval *)
MCCrossBorderPack ==
    [fuzzyMin |-> 55, skipAIBelow |-> 45, autoReject |-> 92,
     lightReview |-> -406, lightReject |-> 1265,
     bias |-> -1200, wAmount |-> 1400, wHighRisk |-> 900, wBlocked |-> 3000,
     wTokens |-> 50, wText |-> 2, wGraph |-> 800]

(* logit(0.80) = 1.386; the pack keeps the cross-border defaults.          *)
MCStockPack ==
    [MCCrossBorderPack EXCEPT
        !.lightReject = 1386, !.bias = -1000, !.wAmount = 1200, !.wHighRisk = 800,
        !.wBlocked = 2500, !.wTokens = 20, !.wText = 3, !.wGraph = 700]

(* A reloaded pack that looks at weaker matches: only then can a match be  *)
(* kept and still lie below the skip bound.                                *)
MCWidePack == [MCCrossBorderPack EXCEPT !.fuzzyMin = 30]

MCCBPacks == {MCCrossBorderPack, MCWidePack}
MCStockPacks == {MCStockPack}

MCAmounts == {-100, -1, 0, 24, 25, 59, 60, 100, 101}
MCMatchSets == {{}, {30}, {44, 55}, {45}, {92}, {60, 91}}
=============================================================================
