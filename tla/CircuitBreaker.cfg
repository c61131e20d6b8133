SPECIFICATION FairSpec
CONSTANTS
    Callers = {c1, c2}
    Nobody = Nobody
    Threshold = 2
    Timeout = 1
    MaxAttempts = 2
INVARIANTS ProbeExclusive NoLockLeak ClosedCountsStreak
PROPERTIES OpensAfterConsecutiveFailures OpenIsProbed RequestsReturn RecoversWithBackend
