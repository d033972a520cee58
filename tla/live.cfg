CONSTANTS
    j1 = j1
    j2 = j2
    w1 = w1
    w2 = w2
    NoJob = NoJob
    Jobs <- TwoJobs
    Workers <- TwoWorkers
    MaxRetries = 1
    Faults <- ApiTrouble
SPECIFICATION LiveSpec
INVARIANTS
    TypeOK
    NothingForgotten
    CompletedHasOutput
PROPERTY
    EveryJobEnds
