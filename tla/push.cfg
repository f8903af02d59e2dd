SPECIFICATION Spec
CONSTANTS
    film = film
    e1 = e1
    e2 = e2
    e3 = e3
    lost = lost
    bare = bare
    nameless = nameless
    Pending = Pending
    Items <- ItemsOf
    Connectors = {"ryot", "yamtrack", "trakt", "simkl"}
    Windows <- WindowsOf
    HasPayload <- PayloadOf
    Bucket <- BucketOf
    Listed = {"movie", "show"}
    Category <- CategoryOf
    Ids <- IdsOf
    Unknown <- UnknownOf
    PushChunk = 3
    MaxFaults = 3
INVARIANT TypeOK
INVARIANT NoneTwice
INVARIANT LastRequestInDoubt
INVARIANT CancelIsAnError
INVARIANT NothingLeft
INVARIANT ReportedWasTaken
PROPERTY KeepsContract
CHECK_DEADLOCK FALSE
