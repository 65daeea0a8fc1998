\* The documented claim across a settings reload, on the smallest instance.
CONSTANTS
    Sessions = {s1}
    Handlers = {h1}
    Revokers = {r1}
    TombstoneTTL = 2
    TouchInterval = 2
    ResolveInterval = 1
    IdleTTL = 3
    MaxInFlight = 1
    TouchTimeout = 1
    MaxTime = 4
SPECIFICATION Spec
INVARIANT RevokedIsCutEverywhere
