SPECIFICATION FairSpec
CONSTANTS
    d = d
    c = c
    a = a
    b = b
    t = t
    u = u
    v = v
    w = w
    Syncer = {d}
    Tx = {t}
    Account = {a}
    AccountOf <- MCAccountOf
    Version = {v}
    Absent = Absent
    Canceled = Canceled
    MaxChange = 1
    MaxOpen = 0
    MaxFail = 0
    MaxCrash = 1
PROPERTY CatchesUp
