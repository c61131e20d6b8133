SPECIFICATION FairSpec
CONSTANTS
    b1 = b1
    b2 = b2
    s1 = s1
    s2 = s2
    Backends = {b1}
    Spiffes = {s1}
    Identity <- SingleIdentity
    Wellformed = {b1}
    Caps = {k1}
    Pods = {p1}
    NoRow = NoRow
    HeartbeatTTL = 1
    TickStep = 5
    MaxId = 4
    MaxEpoch = 3
PROPERTIES RunningBackendIsActive DeadServerExpires
