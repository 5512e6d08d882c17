SPECIFICATION HFairSpec
CONSTANTS
    Callers = {c1, c2, c3, c4}
    BreakerFailures = 3
    BreakerOpenSec = 3
INVARIANTS
    HTypeOK
    Fuel
    StragglersExhaust
PROPERTIES
    OpensOnlyAfterConsecutiveFailures
    WindowCloses
