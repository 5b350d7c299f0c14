CONSTANTS
    w1 = w1
    w2 = w2
    s1 = s1
    t1 = t1
    t2 = t2
    k1 = k1
    pa = pa
    pb = pb
    NoKey = NoKey
    Workers <- MCWorkers
    SyncRequestIds <- MCSync
    Callers <- MCCallers
    Tasks <- MCTasks
    Origins <- MCOrigins
    Keys <- MCKeys
    RequestKeys <- MCRequestKeys
    Payloads <- MCPayloads
    SubmissionIds <- MCSubmissionIds
    MaxRetries = 1
    TTL = 2
    MaxTime = 2
    MaxFaults = 1
SPECIFICATION Spec
PROPERTIES SyncNeverRacesClaim
