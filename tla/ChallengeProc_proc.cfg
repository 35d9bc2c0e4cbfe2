CONSTANTS
    c1 = c1
    c2 = c2
    c3 = c3
    u1 = u1
    u2 = u2
    Chal = {c1, c2, c3}
    UpChal = {u1, u2}
    UpstreamURL <- MCUpstreamURL
    Req = {r1, r2}
    Worker = {w1, w2}
    NoChal = NoChal
    NoWorker = NoWorker
    Hooked = {u1}
    Cleaned = {u1}
    Retention = 2
    WorkerTimeout = 1
    WatchTimeout = 2
    TriggerBound = 1
    Stall = 1
    MaxTime = 3
    MaxCrash = 1
SPECIFICATION FairSpec
INVARIANTS TypeOK ProcessingHasWorker RecordStaysUntilTrigger SweepSparesInFlight SingleFlight RecordHasCustodian
PROPERTIES WorkerSettles WatcherCleansUp
CHECK_DEADLOCK FALSE
