\* Three requests of any kind, two jobs of two probes, one restart.
CONSTANTS
    Handlers = {h1, h2, h3}
    Nobody = nobody
    Probes = 2
    MaxJobs = 2
    MaxRestarts = 1
SPECIFICATION FairSpec
INVARIANTS
    TypeOK
    DeletionWaitsForScans
    TunnelStaysDown
    CompletedMeansScanned
    CancelEnds
PROPERTIES
    ScansEnd
    MutexIsReleased
CHECK_DEADLOCK FALSE
