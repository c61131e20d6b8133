SPECIFICATION Spec
CONSTANTS
    b1 = b1
    b2 = b2
    s1 = s1
    s2 = s2
    Backends = {b1, b2}
    Spiffes = {s1, s2}
    Identity <- OwnIdentity
    Wellformed = {b1}
    Caps = {k1}
    Pods = {}
    NoRow = NoRow
    HeartbeatTTL = 1
    TickStep = 5
    MaxId = 4
    MaxEpoch = 2
INVARIANT OwnRowOnly
