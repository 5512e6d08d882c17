SPECIFICATION FairSpec
CONSTANTS
    Domains = {"cross_border", "stock"}
    Kinds = {"inprocess", "external"}
    Scores <- BandScores
    Deadline = 46
    MaxAttempts = 3
    BaseDelay = 5
    MaxDelay = 10
    CBThreshold = 55
    StockThreshold = 45
INVARIANTS TypeOK DegradedNeverApproves CallsBounded RecordsMatchVerdict FallbackIsLocal ScoreExplainsDecision
PROPERTY ImplementsDeepCall
CHECK_DEADLOCK FALSE
