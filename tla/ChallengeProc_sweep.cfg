CONSTANTS
    c1 = c1
    c2 = c2
    c3 = c3
    u1 = u1
    u2 = u2
    Chal = {c1, c3}
    UpChal = {u1, u2}
    UpstreamURL <- MCUpstreamURL
    Req = {r1, r2}
    Worker = {w1, w2, w3, w4}
    NoChal = NoChal
    NoWorker = NoWorker
    Hooked = {}
    Cleaned = {}
    Retention = 1
    WorkerTimeout = 1
    WatchTimeout = 2
    TriggerBound = 1
    Stall = 0
    MaxTime = 2
    MaxCrash = 0
SPECIFICATION Spec
SYMMETRY Symmetry
INVARIANT SweepTakesStaleOnly
CHECK_DEADLOCK FALSE
