SPECIFICATION FairSpec
CONSTANTS
    a = a
    b = b
    cmd = cmd
    f = f
    g = g
    Clone = {a, b}
    Proc = {a, b}
    Daemon = {a, b}
    Dir <- MCDir
    Path = {f, g}
    Config <- AnyConfig
    MaxSave = 2
    MaxFault = 1
    MaxCommand = 1
    MaxReset = 1
INVARIANT TypeOK
INVARIANT NothingLost
 
 
