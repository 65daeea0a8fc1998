SPECIFICATION Spec
CONSTANTS
    Users = {u1, u2}
    Handlers = {h1, h2}
    Null = Null
    Challenges = {c1, c2}
    MaxAttempts = 2
    MaxNow = 2
    MaxRequests = 7
    MaxEpoch = 0
    MaxTogether = 3
CONSTRAINT OneAccountOrFewRequests
SYMMETRY Symmetric
INVARIANTS
    TypeOK
    ExchangedOnce
    GuessesAreBounded
    FactorStandsBehindSession
PROPERTIES
    AdminRemains
CHECK_DEADLOCK FALSE
