\* The claim about cleanups, on the smallest instance.
CONSTANTS
    Handlers = {h1}
    Sweeper = sweeper
    Endpoints = {e1}
    Targets = {g1}
    Ports = {1}
    Nobody = nobody
    Gone = gone
    MaxForwards = 2
    MaxTasks = 2
    MaxRestarts = 0
SPECIFICATION Spec
INVARIANT ReleasedWithTheTask
CHECK_DEADLOCK FALSE
