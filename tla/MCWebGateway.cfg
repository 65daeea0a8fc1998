\* One session, two upstream connections of one transport, one handler that revokes,
\* crashes, settings reloads; the session may end without the gateway being told.
CONSTANTS
    Sessions = {s1}
    Conns = {c1, c2}
    Trackers = {t1}
    Revokers = {r1}
    None = None
    TombstoneTTL = 1
    PersistInterval = 2
    IdleTTL = 1
    MaxInFlight = 1
    MaxTime = 3
SPECIFICATION FairSpec
INVARIANTS
    TypeOK
    RevokedIsCut
    StaleTrafficIsBounded
PROPERTIES
    RevocationCompletes
