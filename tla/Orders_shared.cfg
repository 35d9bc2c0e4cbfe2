CONSTANTS
    Account = {a1}
    Order = {o1, o2}
    Authz = {z1}
    Req = {r1, r2}
    KeyType = {}
    NoAccount = NoAccount
    NoOrder = NoOrder
    AnyKey = AnyKey
    MaxRestart = 0
SPECIFICATION Spec
SYMMETRY Symmetry
INVARIANTS LinksResolve AnnouncedIsWhole
CHECK_DEADLOCK FALSE
