SPECIFICATION Spec
CONSTANTS
    r1 = r1
    r2 = r2
    q1 = q1
    q2 = q2
    client = client
    Replicas = {r1, r2}
    Requests = {q1, q2}
    Home <- MCHome
    Keys = {client}
    KVKeys = {client}
    Rate = 1
    Burst = 2
    MaxDelay = 1
    MaxIdle = 4
    KVTTL = 3
    MaxRetries = 2
    MaxTime <- MCMaxTime
    MaxFaults = 1
SYMMETRY Swap
INVARIANTS NoOrphanBucket  CountsWhatItGrants
PROPERTIES MemoryImplementsTokenBucket CASImplementsSharedQuota
