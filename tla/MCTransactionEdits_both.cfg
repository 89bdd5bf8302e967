SPECIFICATION AllSpec
CONSTANTS
    c = c
    s = s
    e = e
    g = g
    note = note
    category = category
    x = x
    y = y
    Proc = {c, s}
    Edit = {e}
    PatchOf <- MCPatchOf
    Patch <- MCPatch
    Field = {note, category}
    Value = {x, y}
    None = None
    MaxTime = 1
    MaxDirect = 2
    MaxCompact = 2
    MaxCrash = 1
    Txn = {1, 2, 3}
    Facts <- MCFacts
    FirstStored = {1, 2}
    FirstRules <- MCFirstRules
    Alphabet <- MCAlphabet
    Begins <- MCBegins
    Within <- MCWithin
    Pattern <- MCPattern
    HistoryDays <- MCHistoryDays
    WindowDays = {30, 7}
    FirstDay = 100
    MaxDay = 101
    MaxKeys = 5
    MaxElsewhere = 1
    Blank = Blank
    Malformed = Malformed
    Nothing = Nothing
CHECK_DEADLOCK FALSE
INVARIANT AllTypeOK
INVARIANT EditsKeptUndisturbed
INVARIANT AppliedAsDecided
INVARIANT ScreenIsConsistent
PROPERTY DecidedOnceUndisturbed
 
