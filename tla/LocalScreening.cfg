SPECIFICATION Spec
CONSTANTS
    CBPacks <- MCCBPacks
    StockPacks <- MCStockPacks
    Amounts <- MCAmounts
    Sizes = {1, 4}
    Texts = {0, 80, 81, 300}
    MatchSets <- MCMatchSets
    DeepEnabled = TRUE
INVARIANTS
    ApprovalIsCleared
    EmbargoSurvivesWhitelist
    GrayZoneGoesDeep
    EarlyExitIffDecided
    StockReviewCauses
