SPECIFICATION FairSpec
CONSTANTS
    p1 = p1
    p2 = p2
    i1 = i1
    i2 = i2
    i3 = i3
    a = a
    b = b
    c = c
    d = d
    Procs = {p1}
    Items = {i1, i2}
    Targets = {a, b, c}
    Configs <- OneBadTarget
    Unsupported <- Nothing
    Unnamed <- Nothing
    Confused <- Nothing
    Broken = {b}
    HistoryCap = 1
    MaxCopies <- Once
    MaxTime = 2
    MaxLate = 0
    MaxFaults = 0
    MaxUnreported = 1
PROPERTY FailureIsolation
