\* One job, one worker, one attempt, no restart.
SPECIFICATION Spec
CONSTANTS
    Jobs = {j1}
    Garbage = {}
    NoJob = NoJob
    Workers = {w1}
    Attempts = 1
    MaxReceive = 1
    MaxRestarts = 0
PROPERTIES
    SpinnerReleased
CHECK_DEADLOCK FALSE
