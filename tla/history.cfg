SPECIFICATION FairSpec
CONSTANTS
    m1 = m1
    m2 = m2
    s1 = s1
    Titles = {m1, m2, s1}
    Kind <- KindOf
    Connectors <- Services
    MaxTime = 2
    MaxFaults = 1
INVARIANT TypeOK
INVARIANT NothingBehind
INVARIANT RepeatsArePaid
PROPERTY CatchesUp
