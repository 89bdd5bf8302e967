SPECIFICATION FairSpec
CONSTANTS
    d = d
    c = c
    e = e
    a = a
    b = b
    m = m
    x = x
    y = y
    Syncer = {d, c}
    Editor = {}
    Account = {a}
    Manual = {}
    Amount = {x, y}
    Zero = Zero
    NoAmount = NoAmount
    Closed = Closed
    MaxChange = 2
    MaxFault = 2
PROPERTY Converges
