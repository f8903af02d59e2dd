SPECIFICATION FairSpec
CONSTANTS
    Services = {"trakt", "simkl"}
    Lifetimes = {0, 5}
    Intervals = {0, 2}
    RetryAfters = {0, 5}
    DefaultWait = 1
    Bump = 1
    MaxWait = 3
    DialTimeout = 3
    MaxSlowDowns = 3
    MaxFaults = 1
INVARIANT TypeOK
PROPERTY PollsAreSpaced
PROPERTY DeadCodeIsLeftAlone
PROPERTY AuthEnds
