CONSTANTS
    j1 = j1
    j2 = j2
    w1 = w1
    w2 = w2
    NoJob = NoJob
    Jobs <- OneJob
    Workers <- TwoWorkers
    MaxRetries = 1
    Faults <- Stops
SPECIFICATION Spec
INVARIANT
    GracefulStopFinishesJobs
