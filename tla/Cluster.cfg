SPECIFICATION CFairSpec
CONSTANTS
    b1 = b1
    b2 = b2
    s1 = s1
    t1 = t1
    t2 = t2
    Backends = {b1}
    Spiffes = {s1}
    Identity <- SingleIdentity
    Wellformed = {b1}
    Tools = {t1, t2}
    Caps = {{t1}, {t1, t2}}
    Pods = {p1}
    NoRow = NoRow
    HeartbeatTTL = 1
    TickStep = 10
    MaxId = 2
    MaxEpoch = 2
    MaxQueue = 1
    MaxRestarts = 1
INVARIANT RoutesWereRegistered
 
