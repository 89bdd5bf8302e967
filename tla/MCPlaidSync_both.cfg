SPECIFICATION FairSpec
CONSTANTS
    d = d
    c = c
    a = a
    b = b
    t = t
    u = u
    v = v
    w = w
    Syncer = {d, c}
    Tx = {t}
    Account = {a, b}
    AccountOf <- MCAccountOf
    Version = {v}
    Absent = Absent
    Canceled = Canceled
    MaxChange = 2
    MaxOpen = 1
    MaxFail = 1
    MaxCrash = 1
INVARIANTS TypeOK StoredFollowsPlaid
PROPERTY CatchesUpUndisturbed
