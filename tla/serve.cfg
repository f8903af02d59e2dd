SPECIFICATION FairSpec
CONSTANTS
    old = old
    new = new
    Nobody = Nobody
    Procs = {old, new}
    Release <- ReleaseOf
    Syncs <- TwoSyncs
INVARIANT TypeOK
INVARIANT SchemaFits
INVARIANT RunsMigrated
INVARIANT SignalStopsRound
PROPERTY SignalEnds
PROPERTY EverySyncRuns
 
