SPECIFICATION Spec
CONSTANTS
    Users = {u1}
    Handlers = {h1, h2}
    Null = Null
    Challenges = {c1, c2}
    MaxAttempts = 2
    MaxNow = 2
    MaxRequests = 6
    MaxEpoch = 1
    MaxTogether = 0
SYMMETRY Symmetric
INVARIANTS
    ChangesTakeEffect
CHECK_DEADLOCK FALSE
