CONSTANTS
    n1 = n1
    n2 = n2
    n3 = n3
    n4 = n4
    n5 = n5
    Post = {p1, p2, p3}
    Nonce = {n1, n2, n3, n4, n5}
    NoNonce = NoNonce
    noncePoolSize = 2
    maxAttempts = 3
SYMMETRY Symmetry
SPECIFICATION Spec
INVARIANT NonceUsedOnce
PROPERTIES RingIsQueue
