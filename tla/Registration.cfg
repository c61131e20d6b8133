SPECIFICATION Spec
CONSTANTS
    b1 = b1
    b2 = b2
    s1 = s1
    s2 = s2
    Backends = {b1, b2}
    Spiffes = {s1}
    Identity <- SharedIdentity
    Wellformed = {b1, b2}
    Caps = {k1}
    Pods = {}
    NoRow = NoRow
    HeartbeatTTL = 1
    TickStep = 10
    MaxId = 4
    MaxEpoch = 3
SYMMETRY ReplicaSymmetry
INVARIANTS DeletedStaysDeleted AckedLeaseWasPublished
