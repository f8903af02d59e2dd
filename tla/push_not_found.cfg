SPECIFICATION Spec
CONSTANTS
    film = film
    e1 = e1
    e2 = e2
    e3 = e3
    lost = lost
    bare = bare
    nameless = nameless
    Pending = Pending
    Items <- ItemsOf
    Connectors = {"simkl"}
    Windows <- Siblings
    HasPayload <- PayloadOf
    Bucket <- BucketOf
    Listed = {"movie", "show"}
    Category <- CategoryOf
    Ids <- IdsOf
    Unknown <- UnknownOf
    PushChunk = 3
    MaxFaults = 3
INVARIANT ReturnsDelivered
CHECK_DEADLOCK FALSE
