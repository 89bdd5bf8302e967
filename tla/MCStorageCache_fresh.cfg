SPECIFICATION AllSpecFresh
CONSTANTS
    t1 = t1
    t2 = t2
    t3 = t3
    p = p
    q = q
    v1 = v1
    v2 = v2
    v3 = v3
    Task = {t1, t3}
    Storage = {p, q}
    Owner <- MCOwner
    Value = {v1, v2}
    Length <- MCLength
    Absent = Absent
    Empty = Empty
    EmptyParses = FALSE
    NoResult = NoResult
    NoKey = NoKey
    MaxTime = 1
    Name = {"Bank", "bank", "/"}
    NoName = NoName
    Sanitized <- MCSanitized
    Lower <- MCLower
    ConnectionId = {1, 2}
    AccountId = {1, 2}
    Settings <- MCSettings
    Nothing = Nothing
    MaxCommands <- MCMaxCommands
    MaxFailures = 1
INVARIANT AllTypeOK
 
 
 
