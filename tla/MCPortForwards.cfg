\* One endpoint, one port, three requests of any kind beside the sweep, failing
\* calls to the node and their late effects, one restart; the second row takes
\* the place of the first.
CONSTANTS
    Handlers = {h1, h2, h3}
    Sweeper = sweeper
    Endpoints = {e1}
    Targets = {g1, g2}
    Ports = {1}
    Nobody = nobody
    Gone = gone
    MaxForwards = 2
    MaxTasks = 2
    MaxRestarts = 1
SPECIFICATION FairSpecFromOneAddress
INVARIANTS
    TypeOK
    ReferencesAreRight
    OneTaskPerPort
    OrphansAreExplained
PROPERTIES
    CleanupComesFirst
    ExpiredIsReleased
CHECK_DEADLOCK FALSE
