CONSTANTS
    Browsers = {b1, b2}
    Callers = {p1, p2}
    CodeTTL = 3
    AttemptWindow = 2
    MaxAttempts = 2
    MaxTime = 4
    MaxWait = 0
    MaxCodes = 4
    MaxCredentials = 2
    MaxCrashes = 1
    Nobody = nobody
SPECIFICATION Spec
CHECK_DEADLOCK FALSE
INVARIANTS
    OneTimeCode
    MemoryMatchesFile
    AnsweredIsDurable
    RevokedStaysRevoked
    GuessesAreLimited
