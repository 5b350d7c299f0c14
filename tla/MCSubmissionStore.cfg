CONSTANTS
    c1 = c1
    c2 = c2
    c3 = c3
    k1 = k1
    pa = pa
    pb = pb
    o1 = o1
    NoKey = NoKey
    Callers <- MCCallers
    Keys <- MCKeys
    Payloads <- MCPayloads
    Origins <- MCOrigins
    TTL = 2
    MaxTime = 4
    MaxFaults = 1
    MaxRows = 2
SPECIFICATION Spec
SYMMETRY Symmetry
INVARIANTS TypeOK OneRowPerKeyWithinTtl SavedRowIsMine MismatchIsReal
PROPERTIES OnlyExpiredKeysAreReleased
