SPECIFICATION FairSpec
CONSTANTS
    Requests = {r1, r2, r3}
    Parties = {p1}
    Domains = {"cross_border"}
    RouteBuckets = {"fast"}
    MaxListVersion = 1
    MaxPackVersion = 1
    ShadowPacks = {}
    DraftPacks = {}
    DeepEnabled = TRUE
    BreakerFailures = 2
    BreakerOpenSec = 1
CHECK_DEADLOCK FALSE
PROPERTIES
    BreakerProtocol
    EveryRequestAnswered
