SPECIFICATION ReconfigSpec
CONSTANTS
    p1 = p1
    i1 = i1
    a = a
    b = b
    Procs = {p1}
    Items = {i1}
    Targets = {a, b}
    Configs <- Renamed
    Unsupported <- Nothing
    Unnamed <- Nothing
    Confused <- Nothing
    Broken = {}
    HistoryCap = 1
    MaxCopies <- Once
    MaxTime = 2
    MaxLate = 0
    MaxFaults = 0
    MaxUnreported = 1
PROPERTY RenameRedelivers
