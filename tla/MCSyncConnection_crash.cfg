SPECIFICATION Spec
CONSTANTS
    d = d
    c = c
    e = e
    a = a
    b = b
    m = m
    x = x
    y = y
    Syncer = {d}
    Editor = {}
    Account = {a}
    Manual = {}
    Amount = {x}
    Zero = Zero
    NoAmount = NoAmount
    Closed = Closed
    MaxChange = 1
    MaxFault = 1
INVARIANT InactiveIsZero
CHECK_DEADLOCK FALSE
