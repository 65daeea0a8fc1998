\* One node and one service, two requests of any kind at a time, two keys that
\* users enter, restarts.
CONSTANTS
    Nodes = {n1}
    Endpoints = {e1}
    Handlers = {h1, h2}
    Null = Null
    MaxKeys = 2
SPECIFICATION Spec
SYMMETRY Symmetric
CHECK_DEADLOCK FALSE
INVARIANTS
    TypeOK
    NodeResolves
    ServiceResolves
    LastAnswerCounts
