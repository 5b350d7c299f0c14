CONSTANTS
    w1 = w1
    s1 = s1
    s2 = s2
    s3 = s3
    t1 = t1
    t2 = t2
    t3 = t3
    k1 = k1
    k2 = k2
    malformed = malformed
    pa = pa
    pb = pb
    browser = browser
    kiosk = kiosk
    program = program
    here = here
    there = there
    NoKey = NoKey
    Proxy = Proxy
    App = "flask"
    Workers = {w1}
    SyncRequestIds <- MCSync
    Callers <- MCCallers
    Tasks <- MCTasks
    Origins <- MCOrigins
    Keys <- MCKeys
    RawKeys <- MCRawKeys
    RequestKeys <- MCRequestKeys
    Addresses <- MCAddresses
    Payloads <- MCPayloads
    SubmissionIds <- MCSubmissionIds
    Visitors <- MCVisitors
    Browsers = {browser, kiosk}
    Address <- MCAddress
    Header <- MCHeader
    Payload <- MCPayload
    Sender <- MCSender
    MaxEvents = 3
    MaxRetries = 0
    TTL = 1
    MaxTime = 1
    MaxFaults = 1
SPECIFICATION PagesSpec
SYMMETRY Symmetry
INVARIANTS PagesTypeOK OneRowPerForm ClientsApart
