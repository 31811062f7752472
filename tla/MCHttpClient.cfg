CONSTANTS
    Retries <- MCRetries
    Timeout = 3
    RetryDelay = 2
SPECIFICATION FairSpec
CHECK_DEADLOCK FALSE
INVARIANTS TypeOK TimeBounded GivesUpForAReason
PROPERTIES NotResentOnceAnswered CallSettles
