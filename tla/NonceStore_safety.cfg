CONSTANTS
    Nonce = {n1, n2, n3}
    Txn = {t1, t2, t3}
    NoNonce = NoNonce
    NoTxn = NoTxn
    nonceTTL = 1
    MaxTime = 2
SPECIFICATION Spec
SYMMETRY Symmetry
INVARIANT SingleUse
PROPERTIES LiveNonceKept ImplementsOneTime
CHECK_DEADLOCK FALSE
