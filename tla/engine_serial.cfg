SPECIFICATION FairSpec
CONSTANTS
    p1 = p1
    p2 = p2
    i1 = i1
    i2 = i2
    i3 = i3
    a = a
    b = b
    c = c
    d = d
    Procs = {p1}
    Items = {i1, i2}
    Targets = {a, b, c, d}
    Configs <- ThreeLists
    Unsupported <- CAndDReject2
    Unnamed <- DDoesNotName2
    Confused <- CMixesUp1
    Broken = {b}
    HistoryCap = 2
    MaxCopies <- FirstTwice
    MaxTime = 2
    MaxLate = 1
    MaxFaults = 2
    MaxUnreported = 2
INVARIANT TypeOK
INVARIANT CursorCovers
INVARIANT ReplayBudget
PROPERTY NeverResent
PROPERTY CursorMonotone
PROPERTY LedgerSpec
PROPERTY EventualDelivery
