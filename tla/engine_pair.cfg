SPECIFICATION Spec
CONSTANTS
    p1 = p1
    p2 = p2
    i1 = i1
    i2 = i2
    i3 = i3
    a = a
    b = b
    c = c
    d = d
    Procs = {p1, p2}
    Items = {i1, i2, i3}
    Targets = {a}
    Configs <- OnlyA
    Unsupported <- Nothing
    Unnamed <- Nothing
    Confused <- Nothing
    Broken = {}
    HistoryCap = 2
    MaxCopies <- Once
    MaxTime = 2
    MaxLate = 1
    MaxFaults = 1
    MaxUnreported = 1
SYMMETRY Alike
VIEW Reached
INVARIANT CursorCovers
INVARIANT SeenIsDelivered
INVARIANT IInv
PROPERTY LedgerSpec
