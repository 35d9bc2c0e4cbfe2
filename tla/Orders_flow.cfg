CONSTANTS
    Account = {a1}
    Order = {o1}
    Authz = {z1}
    Req = {r1, r2}
    KeyType = {k1, k2}
    NoAccount = NoAccount
    NoOrder = NoOrder
    AnyKey = AnyKey
    MaxRestart = 1
SPECIFICATION Spec
SYMMETRY Symmetry
INVARIANTS TypeOK RuleOutlivesConfig
PROPERTY RevocationStaysRouted
CHECK_DEADLOCK FALSE
