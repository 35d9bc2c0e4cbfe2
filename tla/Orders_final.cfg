CONSTANTS
    Account = {a1}
    Order = {o1}
    Authz = {z1}
    Req = {r1}
    KeyType = {k1}
    NoAccount = NoAccount
    NoOrder = NoOrder
    AnyKey = AnyKey
    MaxRestart = 0
SPECIFICATION Spec
SYMMETRY Symmetry
INVARIANTS RejectionIsFinal
CHECK_DEADLOCK FALSE
