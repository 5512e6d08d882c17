SPECIFICATION Spec
CONSTANTS
    r1 = r1
    r2 = r2
    r3 = r3
    account = account
    device = device
    Requests = {r1, r2, r3}
    Keys = {account, device}
    KeysOf <- MCKeysOf
    Packs = {"primary", "shadow"}
    Window <- MCWindow
    MaxCount <- MCMaxCount
    MaxWait = 1
    MaxTime = 4
SYMMETRY MCSymmetry
CHECK_DEADLOCK FALSE
INVARIANTS
    TypeOK
    RateLimit
    BlocksAreCounted
