CONSTANTS
    w1 = w1
    t1 = t1
    t2 = t2
    k1 = k1
    pa = pa
    pb = pb
    NoKey = NoKey
    Workers <- MCWorkers
    Callers <- MCWorkers
    Tasks <- MCTasks
    Origins <- MCTasks
    Keys <- MCKeys
    Payloads <- MCPayloads
    RequestsFor <- MCRequests
    SubmissionIds <- MCSubmissionIds
    Watched = {t1}
    MaxAttempts = 3
    MaxRetries = 1
    TTL = 1
    MaxTime = 0
    MaxFaults = 2
SPECIFICATION FairPollSpec
INVARIANTS PollTypeOK FinalWordStands
PROPERTIES PollingEnds AcceptedTasksSettle StatusTellsTheEnd
