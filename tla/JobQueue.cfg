\* Two workers, a job that decodes and one that does not, two attempts, two
\* deliveries, a restart: a job can be redelivered while its first worker
\* still retries, and the process can go down in between.
SPECIFICATION Spec
CONSTANTS
    Jobs = {j1, j2}
    Garbage = {j2}
    Workers = {w1, w2}
    NoJob = NoJob
    Attempts = 2
    MaxReceive = 2
    MaxRestarts = 1
INVARIANTS
    TypeOK
    RunBeforeDelete
    BoundedRuns
PROPERTIES
    JobSettles
    StopReturns
CHECK_DEADLOCK FALSE
