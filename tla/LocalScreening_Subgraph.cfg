SPECIFICATION Spec
CONSTANTS
    CBPacks <- MCCBPacks
    StockPacks <- MCStockPacks
    Amounts <- MCAmounts
    Sizes = {4}
    Texts = {0, 81}
    MatchSets = {{}}
    DeepEnabled = TRUE
INVARIANTS
    SubgraphAgrees
