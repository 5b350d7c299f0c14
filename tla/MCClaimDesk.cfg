CONSTANTS
    t1 = t1
    t2 = t2
    t3 = t3
    k1 = k1
    pa = pa
    pb = pb
    NoKey = NoKey
    Tasks <- MCTasks
    Keys <- MCKeys
    RequestKeys <- MCRequestKeys
    Payloads <- MCPayloads
    SubmissionIds <- MCSubmissionIds
    MaxRetries = 1
    TTL = 2
    MaxTime = 3
    MaxFaults = 1
SPECIFICATION Spec
SYMMETRY Symmetry
INVARIANTS TypeOK OneTaskPerKeyWithinTtl ClaimDescribesOwner ReplayIsFaithful RefusedForAnother LifetimeFreesTheKey
PROPERTIES ImplementsKeyLeases
