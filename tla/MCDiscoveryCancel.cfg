\* The answer of a deletion, on the smallest instance.
CONSTANTS
    Handlers = {h1, h2}
    Nobody = nobody
    Probes = 1
    MaxJobs = 1
    MaxRestarts = 0
SPECIFICATION Spec
INVARIANT DeletionCancelsScans
CHECK_DEADLOCK FALSE
