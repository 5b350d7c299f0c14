CONSTANTS
    plain = plain
    capitals = capitals
    blank = blank
    long = long
    blocked = blocked
    longBlocked = longBlocked
    malformed = malformed
    MIN_NAME_LENGTH = 2
    MAX_NAME_LENGTH = 4
    NameInputs <- MCNameInputs
    LastNameInputs <- MCLastNameInputs
    Emails <- MCEmails
    BlankEmail = blank
    LongEmails = {long, longBlocked}
    DisposableEmails = {blocked, longBlocked}
    Canonical <- MCCanonical
SPECIFICATION Spec
INVARIANTS VerdictIsRight SpacingIsForgotten WorkerAgrees
