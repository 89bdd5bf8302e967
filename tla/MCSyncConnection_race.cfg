SPECIFICATION Spec
CONSTANTS
    d = d
    c = c
    e = e
    a = a
    b = b
    m = m
    x = x
    y = y
    Syncer = {d}
    Editor = {e}
    Account = {a, b, m}
    Manual = {m}
    Amount = {x}
    Zero = Zero
    NoAmount = NoAmount
    Closed = Closed
    MaxChange = 2
    MaxFault = 1
INVARIANTS TypeOK ListedAccountsExist SavedWhole InactiveIsZeroUnlessExcused
CHECK_DEADLOCK FALSE
