CONSTANTS
    Pair = {p1, p2}
    Call = {c1, c2, c3}
    NoPair = NoPair
    NoCall = NoCall
    MaxKey = 3
    MaxCrash = 1
SPECIFICATION FairSpec
INVARIANTS DeterministicRouting GivenIsRegistered
PROPERTY CallReturns
