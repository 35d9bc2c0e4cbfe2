CONSTANTS
    n0 = n0
    n1 = n1
    n2 = n2
    n3 = n3
    Name = {n0, n1, n2, n3}
    source = n0
    Records <- MCRecords
    Zone = {z}
    InZone <- MCInZone
    Nameserver = {s1, s2, s3}
    MaxDepth = 2
    QueryBound = 1
    DefaultTimeout = 4
    DefaultPoll = 1
    DefaultConsecutive = 2
    Policy <- MCPolicy
    MaxTime = 14
SPECIFICATION FairSpec
INVARIANTS TypeOK RecordWhereCALooks QuorumIsStable WaitIsBounded BestEffort
PROPERTY WaitEnds
CHECK_DEADLOCK FALSE
