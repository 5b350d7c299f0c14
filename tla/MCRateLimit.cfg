CONSTANTS
    p1 = p1
    p2 = p2
    Redis = Redis
    Processes <- MCProcesses
    Limit = 2
    Window = 2
SPECIFICATION FairSpec
INVARIANTS TypeOK NeverTwiceTheLimit RefusalIsEarned
PROPERTIES LimitLifts
