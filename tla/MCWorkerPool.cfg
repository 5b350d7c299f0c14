CONSTANTS
    w1 = w1
    w2 = w2
    t1 = t1
    t2 = t2
    k1 = k1
    pa = pa
    pb = pb
    NoKey = NoKey
    Workers <- MCWorkers
    Callers <- MCWorkers
    Tasks <- MCTasks
    Origins <- MCTasks
    Keys <- MCKeys
    Payloads <- MCPayloads
    RequestsFor <- MCRequests
    SubmissionIds <- MCSubmissionIds
    MaxRetries = 1
    TTL = 2
    MaxTime = 2
    MaxFaults = 2
SPECIFICATION Spec
SYMMETRY Symmetry
INVARIANTS TypeOK TaskSavesOncePerLifetime ProcessedMeansSaved NoAcceptedTaskLost
    QueuedMeansWaiting
