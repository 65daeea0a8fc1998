SPECIFICATION Spec
CONSTANTS
    Users = {u1}
    Logins = {l1}
    Sessions = {s1}
    Requests = {q1}
    Null = Null
    AuthIdle = 2
    AccessIdle = 1
    AuthLife = 3
    Retention = 3
    TouchEvery = 1
    MaxDelay = 1
    MaxChanges = 1
    MaxNow = 4
INVARIANTS
    TypeOK
    RightsAreCurrent
    OpenLogIsExplained
PROPERTIES
    OneLife
    EndedIsClosed
CHECK_DEADLOCK FALSE
