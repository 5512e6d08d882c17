SPECIFICATION Spec
CONSTANTS
    r1 = r1
    r2 = r2
    r3 = r3
    account = account
    device = device
    Requests = {r1, r2, r3}
    Keys = {account, device}
    KeysOf <- MCKeysOf
    Packs = {"primary", "shadow"}
    Window <- MCWindow
    MaxCount <- MCMaxCount
    MaxWait = 0
    MaxTime = 1
CHECK_DEADLOCK FALSE
INVARIANTS
    BlocksAreEarned
