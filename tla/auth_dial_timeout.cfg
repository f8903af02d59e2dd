SPECIFICATION Spec
CONSTANTS
    Services = {"trakt", "simkl"}
    Lifetimes = {5}
    Intervals = {0}
    RetryAfters = {}
    DefaultWait = 1
    Bump = 1
    MaxWait = 3
    DialTimeout = 3
    MaxSlowDowns = 0
    MaxFaults = 0
INVARIANT ExpiryIsHonest
