CONSTANTS
    CertKey = {k1, k2, k3, k4}
    AcctKey = {a1, a2, a3, a4, a5, a6}
    CA = {ca1, ca2}
    Life = 8
    RenewBefore = 5
    CheckInterval = 2
    MaxAuthz = 2
    MaxFailures = 2
    MaxFault = 4
    None = None
SPECIFICATION FairSpec
INVARIANTS RestartKeepsCertificate AccountIsKept 
    ExpiredOnlyAfterFailures
PROPERTY StaysCertified
