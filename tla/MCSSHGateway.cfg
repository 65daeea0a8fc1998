\* One session, one WebSocket, one handler that revokes, crashes and settings
\* reloads; the clock runs past an interval, the idle limit and a touch.
CONSTANTS
    Sessions = {s1}
    Handlers = {h1}
    Revokers = {r1}
    TombstoneTTL = 2
    TouchInterval = 2
    ResolveInterval = 1
    IdleTTL = 3
    TouchTimeout = 1
    MaxInFlight = 2
    MaxTime = 7
SPECIFICATION FairSpec
INVARIANTS
    TypeOK
    RevokedIsCut
    EndedTerminalIsCut
    LateTrafficCutsTerminal
    
PROPERTIES
    RevocationCompletes
