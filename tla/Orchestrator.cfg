SPECIFICATION Spec
CONSTANTS
    Requests = {r1, r2}
    Parties = {p1, p2}
    Domains = {"cross_border", "stock"}
    RouteBuckets = {"deep"}
    MaxListVersion = 2
    MaxPackVersion = 2
    ShadowPacks <- MCLaterPacks
    DraftPacks <- MCLaterPacks
    DeepEnabled = TRUE
    BreakerFailures = 1
    BreakerOpenSec = 1
SYMMETRY MCSymmetry
CHECK_DEADLOCK FALSE
INVARIANTS
    TypeOK
    LocalVerdictStands
    GrayVerdictHasSource
    CacheNeverPredatesList
    CasesMatchReviews
    VerdictAudited
    JobsFollowAnswer
    MetricsReconcile
