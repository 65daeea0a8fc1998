\* One scan, created and cancelled at once, and the deletion of its project.
CONSTANTS
    Handlers = {h1, h2, h3}
    Nobody = nobody
    Probes = 1
    MaxJobs = 1
    MaxRestarts = 0
SPECIFICATION Spec
INVARIANT DeletionWaitsForEveryScan
CHECK_DEADLOCK FALSE
