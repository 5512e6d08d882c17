SPECIFICATION Spec
CONSTANTS
    Requests = {r1, r2}
    Parties = {p1}
    Domains = {"cross_border"}
    RouteBuckets = {"fast", "deep"}
    MaxListVersion = 1
    MaxPackVersion = 1
    ShadowPacks = {}
    DraftPacks = {}
    DeepEnabled = TRUE
    BreakerFailures = 1
    BreakerOpenSec = 1
CHECK_DEADLOCK FALSE
INVARIANTS
    DecisionContract
